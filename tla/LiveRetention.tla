----------------------------- MODULE LiveRetention -----------------------------
(***************************************************************************)
(* The durable journal of live minutes and its hourly packaging            *)
(* (application/live_retention.py over persistence/live_candles.py), for   *)
(* one feed: feeds share nothing but the budget of a packaging pass.       *)
(* Every function is one transaction that begins with the feed's row lock. *)
(*                                                                         *)
(* A bar is its minute and its content; a live_segments row exists exactly *)
(* for the hours with a retained minute, so it is not a variable.  The     *)
(* revision of a sealed hour is the rows it was made of.                   *)
(***************************************************************************)
EXTENDS Integers, FiniteSets, FiniteSetsExt, Sequences, SequencesExt

CONSTANTS Hours,       \* number of modelled UTC hours
          HourLength,  \* minutes of an hour (60)
          Open,        \* minutes the feed's calendar expects to be open
          Budget,      \* hours one packaging pass attempts (4)
          Broken,      \* hours whose publication always raises
          Corrected    \* minutes the provider may report with another content

Horizon == Hours * HourLength
Minutes == 0..(Horizon - 1)
HourSet == 0..(Hours - 1)

ASSUME HoursAssumption == Hours \in Nat \ {0} /\ HourLength \in Nat \ {0}
ASSUME OpenAssumption == Open \subseteq Minutes
ASSUME PackagingAssumption == Budget \in Nat \ {0} /\ Broken \subseteq HourSet
ASSUME CorrectedAssumption == Corrected \subseteq Open

VARIABLES now,        \* complete minutes so far
          journal,    \* live_candles: content of each minute, or Absent
          sealed,     \* live_segments.revision_id: rows of the revision, or {}
          attempted,  \* live_segments.attempted_at, as a rank; 0 when NULL
          pass,       \* hours left in the worker's packaging pass
          stamp,      \* the time that pass was called with, as a rank
          packer      \* where the packaging worker is

journalVars == <<journal, sealed>>
packVars == <<attempted, pass, stamp, packer>>
retentionVars == <<now, journalVars, packVars>>

Absent == "absent"
Contents == {"first", "corrected"}
ContentsOf(m) == IF m \in Corrected THEN Contents ELSE {"first"}
PackerStates == {"down", "idle", "touch", "package"}

HourOf(m) == m \div HourLength
MinutesOf(h) == (h * HourLength)..((h + 1) * HourLength - 1)
Retained == {m \in Minutes : journal[m] # Absent}
Rows(h) == {<<m, journal[m]>> : m \in Retained \cap MinutesOf(h)}

RetentionTypeOK ==
    /\ now \in 0..Horizon
    /\ journal \in [Minutes -> Contents \cup {Absent}]
    /\ sealed \in [HourSet -> SUBSET (Minutes \X Contents)]
    /\ attempted \in [HourSet -> Nat]
    /\ pass \in Seq(HourSet) /\ stamp \in Nat
    /\ packer \in PackerStates
    /\ packer \in {"touch", "package"} => pass # <<>>

RetentionInit ==
    /\ now = 0
    /\ journal = [m \in Minutes |-> Absent]
    /\ sealed = [h \in HourSet |-> {}]
    /\ attempted = [h \in HourSet |-> 0]
    /\ pass = <<>> /\ stamp = 0
    /\ packer = "idle"

Tick ==
    /\ now < Horizon
    /\ now' = now + 1
    /\ UNCHANGED <<journalVars, packVars>>

-------------------------------------------------------------------------------
(* retain_completed_minute.                                                *)

\* The checks before the transaction.
Finalized(m) == m \in Open /\ m < now

\* Mistake: a sealed hour still takes minutes.
ConflictsOnContent(m, content) == journal[m] \notin {Absent, content}

\* A correction, or a minute an already sealed hour does not have.
Conflicts(m, content) ==
    \/ journal[m] \notin {Absent, content}
    \/ journal[m] = Absent /\ sealed[HourOf(m)] # {}

\* Exact redelivery is idempotent.
RetainMinute(m, content) ==
    /\ Finalized(m) /\ ~Conflicts(m, content)
    /\ journal' = [journal EXCEPT ![m] = content]
    /\ UNCHANGED sealed

-------------------------------------------------------------------------------
(* package_pending_live_hours.                                             *)

Elapsed(h) == (h + 1) * HourLength <= now
Pending(h) == Elapsed(h) /\ Rows(h) # {} /\ sealed[h] = {}

\* Capture may start within the hour; from there no open minute is missing.
Gapless(h) ==
    \A m \in Open \cap MinutesOf(h) : m >= Min(Retained \cap MinutesOf(h)) => m \in Retained

\* Mistake: attempts are not remembered in the order of the work.
BeforeByHour(g, h) == g < h

\* Hours never attempted first, then the least recently attempted one.
Before(g, h) == attempted[g] < attempted[h] \/ (attempted[g] = attempted[h] /\ g < h)

\* attempted_at orders hours; only the order of the stamps is kept.
Ranked == [h \in HourSet |-> Cardinality({attempted[g] : g \in HourSet} \cap 1..attempted[h])]

BeginPass ==
    LET pending == SetToSortSeq({h \in HourSet : Pending(h)}, Before) IN
    /\ packer = "idle" /\ pending # <<>>
    /\ pass' = SubSeq(pending, 1, Min({Budget, Len(pending)}))
    /\ attempted' = Ranked
    /\ stamp' = 1 + Max({Ranked[h] : h \in HourSet})
    /\ packer' = "touch"
    /\ UNCHANGED <<now, journalVars>>

\* The attempt is committed before it is made.
TouchHour ==
    /\ packer = "touch"
    /\ attempted' = [attempted EXCEPT ![Head(pass)] = stamp]
    /\ packer' = "package"
    /\ UNCHANGED <<now, journalVars, pass, stamp>>

EndPass(state) == pass' = <<>> /\ stamp' = 0 /\ packer' = state

NextHour ==
    IF Len(pass) = 1 THEN EndPass("idle")
    ELSE pass' = Tail(pass) /\ packer' = "touch" /\ UNCHANGED stamp

\* package_live_hour: an hour with a gap stays as it is.
PackageLiveHour(h) ==
    /\ sealed' = IF sealed[h] = {} /\ Gapless(h)
                 THEN [sealed EXCEPT ![h] = Rows(h)] ELSE sealed
    /\ UNCHANGED journal

PackageHour ==
    /\ packer = "package" /\ Head(pass) \notin Broken
    /\ PackageLiveHour(Head(pass))
    /\ NextHour
    /\ UNCHANGED <<now, attempted>>

\* Publication raises: the transaction is rolled back and the pass is over.
PackageFails ==
    /\ packer = "package" /\ Head(pass) \in Broken
    /\ EndPass("idle")
    /\ UNCHANGED <<now, journalVars, attempted>>

PackerDies ==
    /\ packer # "down"
    /\ EndPass("down")
    /\ UNCHANGED <<now, journalVars, attempted>>

PackerStarts ==
    /\ packer = "down"
    /\ packer' = "idle"
    /\ UNCHANGED <<now, journalVars, attempted, pass, stamp>>

Package == BeginPass \/ TouchHour \/ PackageHour \/ PackageFails

\* A process whose deliveries nobody orders: any finalized minute, any content.
Deliver ==
    /\ \E m \in Open : \E content \in ContentsOf(m) : RetainMinute(m, content)
    /\ UNCHANGED <<now, packVars>>

RetentionNext == Tick \/ Deliver \/ Package \/ PackerDies \/ PackerStarts

RetentionSpec == RetentionInit /\ [][RetentionNext]_retentionVars

\* The worker loop keeps packaging and time passes; minutes need never arrive.
RetentionFairSpec ==
    RetentionSpec /\ WF_retentionVars(Tick) /\ WF_retentionVars(Package)

-------------------------------------------------------------------------------
\* What verify_live_retention demands of every restored database: the revision
\* of a sealed hour is exactly what the journal holds of that hour, however
\* late, repeated or corrected deliveries race with packaging.
SealedIsJournal == \A h \in HourSet : sealed[h] # {} => sealed[h] = Rows(h)

\* What was acknowledged once is never changed or taken back, and a published
\* hour stays published as it was.
AcknowledgedForever ==
    [][/\ \A m \in Retained : journal'[m] = journal[m]
       /\ \A h \in HourSet : sealed[h] # {} => sealed'[h] = sealed[h]]_retentionVars

\* An elapsed hour without gaps is published (or gets an earlier minute that
\* opens a gap), behind any number of hours with gaps and of hours whose
\* publication keeps raising, while the worker stays up.
Publishable(h) == Pending(h) /\ Gapless(h) /\ h \notin Broken

WholeHoursArePublished ==
    <>[](packer # "down") => \A h \in HourSet : Publishable(h) ~> ~Publishable(h)

===============================================================================
