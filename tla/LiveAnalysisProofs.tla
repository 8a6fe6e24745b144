-------------------------- MODULE LiveAnalysisProofs --------------------------
(***************************************************************************)
(* The live service for any number of clients, of polling threads, of      *)
(* hours of any length, any poll window and any calendar: what a watermark *)
(* confirms is retained, and what a session consumed is what was retained. *)
(***************************************************************************)
EXTENDS LiveAnalysis, TLAPS

-------------------------------------------------------------------------------
(* The journal of live minutes and its packaging, for any number of hours,   *)
(* any calendar, any budget and any hours that never publish.               *)

\* What the proofs need of the types; a pass may name any hours.
JournalTypes ==
    /\ journal \in [Minutes -> Contents \cup {Absent}]
    /\ sealed \in [HourSet -> SUBSET (Minutes \X Contents)]

-------------------------------------------------------------------------------
(* Hours partition the minutes.                                            *)

LEMMA HorizonNat == Horizon \in Nat /\ Minutes \subseteq Nat
BY HoursAssumption DEF Horizon, Minutes

LEMMA Multiples ==
    ASSUME NEW a \in Nat, NEW b \in Int, NEW c \in Int, b <= c
    PROVE  a * b <= a * c
<1>1. PICK d \in Nat : c = b + d
  <2>1. c - b \in Nat /\ c = b + (c - b)
    OBVIOUS
  <2> QED
    BY <2>1
<1>2. a * c = a * b + a * d
  BY <1>1
<1>3. a * d \in Nat
  OBVIOUS
<1>4. a * b \in Int
  OBVIOUS
<1> QED
  BY <1>2, <1>3, <1>4

LEMMA Quotient ==
    ASSUME NEW L \in Nat \ {0}, NEW h \in Int, NEW q \in Int, NEW r \in 0..(L - 1),
           NEW m \in Int, m = L * q + r, L * h <= m, m < L * h + L
    PROVE  q = h
<1>1. L * q \in Int /\ L * h \in Int
  OBVIOUS
<1>2. L * (h + 1) = L * h + L /\ L * (q + 1) = L * q + L
  OBVIOUS
<1>3. ASSUME h + 1 <= q PROVE FALSE
  <2>1. L * (h + 1) <= L * q
    BY <1>3, Multiples
  <2> QED
    BY <2>1, <1>1, <1>2
<1>4. ASSUME q + 1 <= h PROVE FALSE
  <2>1. L * (q + 1) <= L * h
    BY <1>4, Multiples
  <2> QED
    BY <2>1, <1>1, <1>2
<1> QED
  BY <1>3, <1>4

LEMMA HourUnique ==
    ASSUME NEW h \in HourSet, NEW m \in MinutesOf(h)
    PROVE  HourOf(m) = h
<1>1. HourLength \in Nat \ {0} /\ h \in Nat
  BY HoursAssumption DEF HourSet
<1>2. m \in Int /\ HourLength * h <= m /\ m < HourLength * h + HourLength
  BY <1>1 DEF MinutesOf
<1>3. /\ HourOf(m) \in Int /\ m % HourLength \in 0..(HourLength - 1)
      /\ m = HourLength * HourOf(m) + (m % HourLength)
  BY <1>1, <1>2 DEF HourOf
<1> QED
  BY <1>1, <1>2, <1>3, Quotient

-------------------------------------------------------------------------------
(* One transaction at a time.                                              *)

LEMMA AbsentIsNoContent == Absent \notin Contents
BY DEF Absent, Contents

\* Retention adds at most the one minute, and never to a sealed hour.
LEMMA RetainOne ==
    ASSUME JournalTypes, NEW m \in Minutes, NEW content \in Contents, RetainMinute(m, content)
    PROVE  /\ JournalTypes'
           /\ Retained' = Retained \cup {m}
           /\ \A n \in Retained : journal'[n] = journal[n]
           /\ SealedIsJournal => SealedIsJournal'
<1>1. /\ journal' = [journal EXCEPT ![m] = content] /\ sealed' = sealed
      /\ journal[m] \in {Absent, content}
      /\ journal[m] = Absent => sealed[HourOf(m)] = {}
  BY DEF RetainMinute, Conflicts
<1>2. JournalTypes'
  BY <1>1 DEF JournalTypes
<1>3. /\ journal'[m] = content
      /\ \A n \in Minutes \ {m} : journal'[n] = journal[n]
  BY <1>1 DEF JournalTypes
<1>4. Retained' = Retained \cup {m}
  BY <1>3, AbsentIsNoContent DEF Retained
<1>5. \A n \in Retained : journal'[n] = journal[n]
  BY <1>1, <1>3 DEF Retained
<1>6. ASSUME SealedIsJournal, NEW h \in HourSet, sealed'[h] # {} PROVE sealed'[h] = Rows(h)'
  <2>1. sealed'[h] = Rows(h)
    BY <1>1, <1>6 DEF SealedIsJournal
  <2>2. m \in Retained \/ m \notin MinutesOf(h)
    BY <1>1, <1>6, HourUnique DEF Retained
  <2>3. Retained' \cap MinutesOf(h) = Retained \cap MinutesOf(h)
    BY <1>4, <2>2
  <2>4. Rows(h)' = {<<n, journal'[n]>> : n \in Retained' \cap MinutesOf(h)}
    BY DEF Rows, MinutesOf
  <2> QED
    BY <1>5, <2>1, <2>3, <2>4 DEF Rows
<1> QED
  BY <1>2, <1>4, <1>5, <1>6 DEF SealedIsJournal

LEMMA RowsType == ASSUME JournalTypes, NEW h PROVE Rows(h) \subseteq Minutes \X Contents
BY DEF JournalTypes, Rows, Retained

\* Packaging leaves the journal alone and seals an hour once.
LEMMA PackageOne ==
    ASSUME JournalTypes, NEW h, PackageLiveHour(h)
    PROVE  /\ JournalTypes'
           /\ journal' = journal
           /\ \A g \in HourSet : sealed[g] # {} => sealed'[g] = sealed[g]
           /\ SealedIsJournal => SealedIsJournal'
<1>1. journal' = journal /\ (sealed' = sealed \/ (sealed[h] = {} /\ sealed' = [sealed EXCEPT ![h] = Rows(h)]))
  BY DEF PackageLiveHour
<1>2. JournalTypes'
  BY <1>1, RowsType DEF JournalTypes
<1>3. \A g \in HourSet : sealed'[g] = sealed[g] \/ (sealed[g] = {} /\ sealed'[g] = Rows(g))
  BY <1>1 DEF JournalTypes
<1>4. \A g : Rows(g)' = Rows(g)
  BY <1>1 DEF Rows, Retained, MinutesOf
<1> QED
  BY <1>1, <1>2, <1>3, <1>4 DEF SealedIsJournal

LEMMA JournalStable ==
    ASSUME UNCHANGED journalVars
    PROVE  /\ JournalTypes => JournalTypes'
           /\ SealedIsJournal => SealedIsJournal'
BY DEF journalVars, JournalTypes, SealedIsJournal, Rows, Retained, MinutesOf

-------------------------------------------------------------------------------
(* The specification.                                                      *)

RetentionInv == JournalTypes /\ SealedIsJournal

LEMMA RetentionInvInit == RetentionInit => RetentionInv
BY DEF RetentionInit, RetentionInv, JournalTypes, SealedIsJournal

\* What one step of the specification does to the journal and the sealed hours.
JournalStep ==
    /\ RetentionInv'
    /\ \A m \in Retained : journal'[m] = journal[m]
    /\ \A h \in HourSet : sealed[h] # {} => sealed'[h] = sealed[h]

LEMMA FramedStep == ASSUME RetentionInv, UNCHANGED journalVars PROVE JournalStep
BY JournalStable DEF RetentionInv, JournalStep, journalVars

LEMMA RetentionStep == ASSUME RetentionInv, [RetentionNext]_retentionVars PROVE JournalStep
<1>1. CASE Deliver
  <2>1. PICK m \in Open : \E content \in ContentsOf(m) : RetainMinute(m, content)
    BY <1>1 DEF Deliver
  <2>2. PICK content \in ContentsOf(m) : RetainMinute(m, content)
    BY <2>1
  <2>3. m \in Minutes /\ content \in Contents
    BY OpenAssumption DEF ContentsOf, Contents
  <2>4. sealed' = sealed
    BY <2>2 DEF RetainMinute
  <2> QED
    BY <2>2, <2>3, <2>4, RetainOne DEF RetentionInv, JournalStep
<1>2. CASE PackageHour
  <2>1. PackageLiveHour(Head(pass))
    BY <1>2 DEF PackageHour
  <2> QED
    BY <2>1, PackageOne DEF RetentionInv, JournalStep, Retained
<1>3. CASE Tick \/ BeginPass \/ TouchHour \/ PackageFails \/ PackerDies \/ PackerStarts
  <2>1. UNCHANGED journalVars
    BY <1>3 DEF Tick, BeginPass, TouchHour, PackageFails, PackerDies, PackerStarts
  <2> QED
    BY <2>1, FramedStep
<1>4. CASE UNCHANGED retentionVars
  BY <1>4, FramedStep DEF retentionVars
<1> QED
  BY <1>1, <1>2, <1>3, <1>4 DEF RetentionNext, Package

LEMMA RetentionInvAlways == RetentionSpec => []RetentionInv
<1>1. RetentionInit => RetentionInv
  BY RetentionInvInit
<1>2. RetentionInv /\ [RetentionNext]_retentionVars => RetentionInv'
  BY RetentionStep DEF JournalStep
<1> QED
  BY <1>1, <1>2, PTL DEF RetentionSpec

\* The revision of a sealed hour is exactly what the journal holds of it: what
\* verify_live_retention demands of a restored database.
THEOREM SealedHours == RetentionSpec => []SealedIsJournal
<1>1. RetentionInv => SealedIsJournal
  BY DEF RetentionInv
<1> QED
  BY <1>1, RetentionInvAlways, PTL

\* What retain_completed_minute acknowledged, and what package_live_hour
\* published, never changes and never disappears.
THEOREM NothingIsTakenBack == RetentionSpec => AcknowledgedForever
<1>1. RetentionInv /\ [RetentionNext]_retentionVars =>
        [/\ \A m \in Retained : journal'[m] = journal[m]
         /\ \A h \in HourSet : sealed[h] # {} => sealed'[h] = sealed[h]]_retentionVars
  BY RetentionStep DEF JournalStep
<1> QED
  BY <1>1, RetentionInvAlways, PTL DEF RetentionSpec, AcknowledgedForever

-------------------------------------------------------------------------------
(* The live service over the journal.                                      *)

Bars == Minutes \X Contents

(***************************************************************************)
(* Types, as far as the arguments need them.                               *)
(***************************************************************************)
FeedTypes ==
    /\ feed \in Channels \cup {NoChannel}
    /\ created \in 0..MaxChannels
    /\ subscription \in [Clients -> Starts \cup {NoStart}]
    /\ start \in [Channels -> Minutes]
    /\ watermark \in [Channels -> Nat]

ThreadTypes ==
    /\ pc \in [Channels -> ThreadStates]
    /\ target \in [Channels -> Channels \cup {NoChannel}]
    /\ page \in [Channels -> SUBSET Bars]
    /\ left \in [Channels -> SUBSET Bars]
    /\ until \in [Channels -> Int]
    /\ told \in [Channels -> SUBSET Clients]
    /\ \A t \in Channels : pc[t] \in {"connect", "retain"} => target[t] \in Channels

InputTypes ==
    /\ session \in [Clients -> SessionStates]
    /\ liveStart \in [Clients -> Starts \cup {NoStart}]
    /\ upto \in [Clients -> Nat]
    /\ closes \in [Clients -> SUBSET Bars]

LiveTypes ==
    /\ JournalTypes
    /\ now \in 0..Horizon
    /\ offered \in [Minutes -> Contents \cup {Absent}]
    /\ FeedTypes /\ ThreadTypes /\ InputTypes

-------------------------------------------------------------------------------
(* Types are preserved.                                                    *)

LEMMA ConstantTypes ==
    /\ Horizon \in Nat /\ Minutes = 0..(Horizon - 1) /\ Minutes \subseteq Nat
    /\ Starts \subseteq Nat /\ NoStart \notin Starts
    /\ Channels \subseteq Nat /\ NoChannel \notin Channels
    /\ MaxChannels \in Nat /\ 0 \in Minutes
BY HorizonNat, HoursAssumption, IngressAssumption DEF Horizon, Minutes, Channels, NoChannel, NoStart

LEMMA RowsInType == ASSUME JournalTypes, NEW a, NEW b PROVE RowsIn(a, b) \subseteq Bars
BY DEF JournalTypes, RowsIn, Retained, Bars

LEMMA NothingOpen == ASSUME NEW a \in Nat PROVE OpenIn(a, a) = {}
<1>1. \A m \in Open : m \in Nat
  BY OpenAssumption, ConstantTypes
<1> QED BY <1>1 DEF OpenIn

LEMMA TargetNat == ASSUME ThreadTypes, NEW t \in Channels PROVE target[t] \in Nat
<1>1. target[t] \in Channels \/ target[t] = NoChannel
  BY DEF ThreadTypes
<1> QED BY <1>1, ConstantTypes DEF NoChannel

LEMMA ChannelNumbers ==
    ASSUME LiveTypes, NEW t \in Channels
    PROVE  /\ t \in Nat /\ start[t] \in Nat /\ watermark[t] \in Nat /\ until[t] \in Int
           /\ created \in Nat /\ now \in Nat
<1>1. start[t] \in Minutes /\ watermark[t] \in Nat /\ until[t] \in Int
  BY DEF LiveTypes, FeedTypes, ThreadTypes
<1>2. created \in Nat /\ now \in Nat
  BY ConstantTypes DEF LiveTypes, FeedTypes
<1> QED BY <1>1, <1>2, ConstantTypes

LEMMA SubscribeTypes ==
    ASSUME LiveTypes, NEW c \in Clients, NEW s \in Starts, Subscribe(c, s)
    PROVE  FeedTypes' /\ ThreadTypes'
<1>1. subscription' \in [Clients -> Starts \cup {NoStart}]
  BY DEF Subscribe, LiveTypes, FeedTypes
<1>2. CASE feed # NoChannel
  BY <1>1, <1>2 DEF Subscribe, LiveTypes, FeedTypes, ThreadTypes, channelVars
<1>3. CASE feed = NoChannel
  <2>1. created + 1 \in Channels
    BY <1>3, ConstantTypes DEF Subscribe, Admits, LiveTypes, FeedTypes, Channels
  <2>2. s \in Minutes /\ s \in Nat
    BY ConstantTypes, IngressAssumption
  <2>3. FeedTypes'
    <3>1. /\ feed' = created + 1 /\ created' = created + 1
          /\ start' = [start EXCEPT ![created + 1] = s]
          /\ watermark' = [watermark EXCEPT ![created + 1] = s]
      BY <1>3 DEF Subscribe
    <3>2. start' \in [Channels -> Minutes] /\ watermark' \in [Channels -> Nat]
      BY <3>1, <2>2 DEF LiveTypes, FeedTypes
    <3>3. created + 1 \in 0..MaxChannels
      BY <2>1, ConstantTypes DEF Channels
    <3> QED BY <1>1, <2>1, <3>1, <3>2, <3>3 DEF FeedTypes
  <2>4. ThreadTypes'
    BY <1>3, <2>1 DEF Subscribe, LiveTypes, ThreadTypes, ThreadStates
  <2> QED BY <2>3, <2>4
<1> QED BY <1>2, <1>3

LEMMA UnsubscribeTypes ==
    ASSUME LiveTypes, NEW c \in Clients, Unsubscribe(c)
    PROVE  FeedTypes' /\ ThreadTypes'
BY DEF Unsubscribe, LiveTypes, FeedTypes, ThreadTypes, threadVars

LEMMA AdvanceTypes ==
    ASSUME LiveTypes, NEW c \in Clients, Advance(c), c \in Attached => feed \in Channels
    PROVE  InputTypes'
<1>1. CASE Rests(c)
  BY <1>1 DEF Rests, LiveTypes, InputTypes, inputVars
<1>2. CASE Stops(c)
  BY <1>2 DEF Stops, LiveTypes, InputTypes, inputVars, SessionStates
<1>3. CASE Advances(c)
  <2>1. watermark[feed] \in Nat
    BY <1>3 DEF Advances, Moves, Attached, LiveTypes, FeedTypes
  <2> QED BY <1>3, <2>1, RowsInType DEF Advances, LiveTypes, InputTypes
<1> QED BY <1>1, <1>2, <1>3 DEF Advance

LEMMA FinishTypes ==
    ASSUME LiveTypes, NEW t \in Channels, NEW listeners \in SUBSET Clients, Finish(t, listeners)
    PROVE  ThreadTypes'
BY DEF LiveTypes, ThreadTypes, Finish, Goto, ThreadStates, NoChannel

-------------------------------------------------------------------------------
(***************************************************************************)
(* The inductive invariant.  Every channel, stopped ones included, has     *)
(* confirmed only what is retained, because a poll that is about to        *)
(* publish has retained its whole page.  Confirmation needs no exclusion   *)
(* between threads: it compares the page with the watermark as it is when  *)
(* it is published.                                                        *)
(***************************************************************************)
Acquired ==
    /\ \A t \in Channels : OpenIn(start[t], watermark[t]) \subseteq Retained
    /\ \A t \in Channels : pc[t] = "retain" => \A bar \in page[t] \ left[t] : bar[1] \in Retained
    /\ \A t \in Channels : t > created => watermark[t] = 0
    /\ \A t \in Channels : target[t] <= created
    /\ feed <= created

Inputs ==
    \A c \in Clients :
        IF liveStart[c] = NoStart THEN closes[c] = {} /\ upto[c] = 0
                                  ELSE liveStart[c] <= upto[c]

Analysed == Inputs /\ LiveInputIsContiguous /\ SessionsAreSubscribed

LiveInv == LiveTypes /\ Acquired /\ Analysed

\* What every step does with the journal, the watermarks and the inputs.
Kept ==
    /\ Retained \subseteq Retained' /\ Retained' \subseteq Retained \cup Open
    /\ \A m \in Retained : journal'[m] = journal[m]

WatermarksGrow ==
    \A t \in Channels : created' >= t /\ pc'[t] # "done" => watermark'[t] >= watermark[t]

InputsGrow ==
    \A c \in Clients : liveStart'[c] = liveStart[c] /\ attaching' # c =>
        closes[c] \subseteq closes'[c] /\ upto'[c] >= upto[c]

LEMMA UnchangedIsKept == ASSUME journal' = journal PROVE Kept /\ Retained' = Retained
BY DEF Kept, Retained

-------------------------------------------------------------------------------
(* Channels and their threads.                                             *)

LEMMA SubscribeAcquires ==
    ASSUME LiveTypes, Acquired, journal' = journal,
           NEW c \in Clients, NEW s \in Starts, Subscribe(c, s)
    PROVE  Acquired' /\ WatermarksGrow
<1>1. Retained' = Retained
  BY UnchangedIsKept
<1>2. CASE feed # NoChannel
  <2>1. UNCHANGED <<feed, created, start, watermark, status, stopped, pc, page, left, target>>
    BY <1>2 DEF Subscribe, channelVars
  <2>2. \A t \in Channels : watermark[t] \in Nat
    BY DEF LiveTypes, FeedTypes
  <2> QED BY <1>1, <2>1, <2>2 DEF Acquired, WatermarksGrow, OpenIn
<1>3. CASE feed = NoChannel
  <2> DEFINE n == created + 1
  <2>1. /\ feed' = n /\ created' = n
        /\ start' = [start EXCEPT ![n] = s]
        /\ watermark' = [watermark EXCEPT ![n] = s]
        /\ pc' = [pc EXCEPT ![n] = "loop"]
        /\ UNCHANGED <<page, left, target>>
    BY <1>3 DEF Subscribe
  <2>2. n \in Channels /\ s \in Nat /\ created \in Nat /\ Channels \subseteq Nat
    BY <1>3, ConstantTypes DEF Subscribe, Admits, LiveTypes, FeedTypes, Channels
  <2>3. /\ start'[n] = s /\ watermark'[n] = s /\ pc'[n] = "loop"
        /\ \A t \in Channels \ {n} : /\ start'[t] = start[t] /\ watermark'[t] = watermark[t]
                                     /\ pc'[t] = pc[t]
    BY <2>1, <2>2 DEF LiveTypes, FeedTypes, ThreadTypes
  <2>4. \A t \in Channels : OpenIn(start[t], watermark[t])' \subseteq Retained'
    <3>1. OpenIn(s, s) = {}
      BY <2>2, NothingOpen
    <3> QED BY <1>1, <2>3, <3>1 DEF Acquired, OpenIn
  <2>5. \A t \in Channels : pc'[t] = "retain" => \A bar \in page'[t] \ left'[t] : bar[1] \in Retained'
    BY <1>1, <2>1, <2>3 DEF Acquired
  <2>6. \A t \in Channels : t > created' => watermark'[t] = 0
    BY <2>1, <2>2, <2>3 DEF Acquired
  <2>7. (\A t \in Channels : target'[t] <= created') /\ feed' <= created'
    <3>1. \A t \in Channels : target[t] \in Nat
      BY TargetNat DEF LiveTypes
    <3>2. ASSUME NEW t \in Channels PROVE target[t] <= created + 1
      <4>1. target[t] <= created
        BY DEF Acquired
      <4> QED BY <2>2, <3>1, <4>1
    <3> QED BY <2>1, <2>2, <3>2
  <2>8. WatermarksGrow
    <3>1. n > created /\ watermark[n] = 0
      BY <2>2 DEF Acquired
    <3>2. \A t \in Channels : watermark[t] \in Nat
      BY DEF LiveTypes, FeedTypes
    <3> QED BY <2>2, <2>3, <3>1, <3>2 DEF WatermarksGrow
  <2> HIDE DEF n
  <2> QED BY <2>4, <2>5, <2>6, <2>7, <2>8 DEF Acquired
<1> QED BY <1>2, <1>3

LEMMA UnsubscribeAcquires ==
    ASSUME LiveTypes, Acquired, journal' = journal, NEW c \in Clients, Unsubscribe(c)
    PROVE  Acquired' /\ WatermarksGrow
<1>1. /\ UNCHANGED <<created, start, watermark, pc, page, left, target>>
      /\ feed' \in {feed, NoChannel}
  BY DEF Unsubscribe, threadVars
<1>2. Retained' = Retained
  BY UnchangedIsKept
<1>3. created \in Nat /\ \A t \in Channels : watermark[t] \in Nat
  BY ConstantTypes DEF LiveTypes, FeedTypes
<1> QED BY <1>1, <1>2, <1>3 DEF Acquired, WatermarksGrow, OpenIn, NoChannel

\* A thread between polls.
LEMMA ThreadAcquires ==
    ASSUME LiveTypes, Acquired, journal' = journal, NEW t \in Channels,
           Loop(t) \/ Exit(t) \/ Enter(t)
    PROVE  Acquired' /\ WatermarksGrow /\ FeedTypes' /\ ThreadTypes'
<1>1. Retained' = Retained
  BY UnchangedIsKept
<1>2. created \in Nat /\ (\A u \in Channels : watermark[u] \in Nat) /\ Channels \subseteq Nat
  BY ConstantTypes DEF LiveTypes, FeedTypes
<1>3. CASE Loop(t)
  <2>1. UNCHANGED <<feed, created, subscription, start, watermark, target, page, left, until, told>>
    BY <1>3 DEF Loop, clientVars, channelVars
  <2>2. pc' = [pc EXCEPT ![t] = "lookup"]
    BY <1>3 DEF Loop, Goto
  <2> QED BY <1>1, <1>2, <2>1, <2>2
          DEF LiveTypes, FeedTypes, ThreadTypes, ThreadStates, Acquired, WatermarksGrow, OpenIn
<1>4. CASE Exit(t)
  <2>1. UNCHANGED <<feed, created, subscription, target, page, left, until, told>>
    BY <1>4 DEF Exit, clientVars
  <2>2. /\ pc' = [pc EXCEPT ![t] = "done"]
        /\ start' = [start EXCEPT ![t] = 0] /\ watermark' = [watermark EXCEPT ![t] = 0]
    BY <1>4 DEF Exit, Goto
  <2>3. FeedTypes' /\ ThreadTypes'
    BY <2>1, <2>2, ConstantTypes DEF LiveTypes, FeedTypes, ThreadTypes, ThreadStates
  <2>4. /\ pc'[t] = "done" /\ start'[t] = 0 /\ watermark'[t] = 0
        /\ \A u \in Channels \ {t} : /\ start'[u] = start[u] /\ watermark'[u] = watermark[u]
                                     /\ pc'[u] = pc[u]
    BY <2>2 DEF LiveTypes, FeedTypes, ThreadTypes
  <2>5. OpenIn(0, 0) = {}
    BY NothingOpen
  <2>6. \A u \in Channels : OpenIn(start[u], watermark[u])' \subseteq Retained'
    BY <1>1, <2>4, <2>5 DEF Acquired, OpenIn
  <2>7. \A u \in Channels : pc'[u] = "retain" => \A bar \in page'[u] \ left'[u] : bar[1] \in Retained'
    BY <1>1, <2>1, <2>4 DEF Acquired
  <2>8. WatermarksGrow /\ \A u \in Channels : u > created' => watermark'[u] = 0
    BY <1>2, <2>1, <2>4 DEF Acquired, WatermarksGrow
  <2> QED BY <2>1, <2>3, <2>6, <2>7, <2>8 DEF Acquired
<1>5. CASE Enter(t)
  <2>1. UNCHANGED <<feed, created, subscription, start, watermark, page, left, until, told>>
    BY <1>5 DEF Enter, clientVars, channelVars
  <2>2. \/ pc' = [pc EXCEPT ![t] = "loop"] /\ target' = target
        \/ /\ feed # NoChannel /\ pc' = [pc EXCEPT ![t] = "connect"]
           /\ target' = [target EXCEPT ![t] = feed]
    BY <1>5 DEF Enter, Goto
  <2>3. FeedTypes' /\ ThreadTypes'
    BY <2>1, <2>2 DEF LiveTypes, FeedTypes, ThreadTypes, ThreadStates
  <2>4. \A u \in Channels : target'[u] <= created
    BY <2>2 DEF LiveTypes, ThreadTypes, Acquired
  <2>5. \A u \in Channels : pc'[u] = "retain" => pc[u] = "retain"
    BY <2>2 DEF LiveTypes, ThreadTypes
  <2> QED BY <1>1, <1>2, <2>1, <2>3, <2>4, <2>5 DEF Acquired, WatermarksGrow, OpenIn
<1> QED BY <1>3, <1>4, <1>5

\* A thread that polls.
LEMMA FetchAcquires ==
    ASSUME LiveTypes, Acquired, journal' = journal, NEW t \in Channels, Fetch(t)
    PROVE  Acquired' /\ WatermarksGrow /\ FeedTypes' /\ ThreadTypes'
<1> DEFINE bars == {<<m, offered[m]>> :
                       m \in {n \in RequestStart(t)..(RequestEnd(t) - 1) : offered[n] # Absent}}
<1>1. /\ UNCHANGED <<feed, created, subscription, start, watermark, target, told>>
      /\ page' = [page EXCEPT ![t] = bars] /\ left' = [left EXCEPT ![t] = bars]
      /\ until' = [until EXCEPT ![t] = RequestEnd(t)]
      /\ pc' = [pc EXCEPT ![t] = "retain"]
  BY DEF Fetch, Goto, clientVars, channelVars
<1>2. target[t] \in Channels
  BY DEF Fetch, LiveTypes, ThreadTypes
<1>3. RequestStart(t) \in Nat /\ RequestEnd(t) \in Int /\ RequestEnd(t) <= now
  <2>1. start[target[t]] \in Nat /\ watermark[target[t]] \in Nat /\ now \in Nat
    BY <1>2, ChannelNumbers
  <2> QED BY <2>1, IngressAssumption DEF RequestStart, RequestEnd, Latest, Earliest
<1>4. RequestStart(t)..(RequestEnd(t) - 1) \subseteq Minutes
  BY <1>3, ConstantTypes DEF LiveTypes
<1>5. bars \subseteq Bars
  BY <1>4 DEF LiveTypes, Bars
<1> HIDE DEF bars
<1>6. FeedTypes' /\ ThreadTypes'
  BY <1>1, <1>2, <1>3, <1>5 DEF LiveTypes, FeedTypes, ThreadTypes, ThreadStates
<1>7. page'[t] \ left'[t] = {}
  BY <1>1 DEF LiveTypes, ThreadTypes
<1>8. \A u \in Channels \ {t} : pc'[u] = pc[u] /\ page'[u] = page[u] /\ left'[u] = left[u]
  BY <1>1 DEF LiveTypes, ThreadTypes
<1>9. Retained' = Retained
  BY UnchangedIsKept
<1>10. \A u \in Channels : pc'[u] = "retain" => \A bar \in page'[u] \ left'[u] : bar[1] \in Retained'
  BY <1>7, <1>8, <1>9 DEF Acquired
<1>11. \A u \in Channels : watermark[u] \in Nat
  BY DEF LiveTypes, FeedTypes
<1> QED BY <1>1, <1>6, <1>9, <1>10, <1>11 DEF Acquired, WatermarksGrow, OpenIn

LEMMA RetainAcquires ==
    ASSUME LiveTypes, Acquired, NEW t \in Channels, Retain(t)
    PROVE  Acquired' /\ WatermarksGrow /\ FeedTypes' /\ ThreadTypes' /\ JournalTypes' /\ Kept
<1>1. PICK bar \in left[t] : RetainMinute(bar[1], bar[2]) /\ left' = [left EXCEPT ![t] = @ \ {bar}]
  BY DEF Retain
<1>2. UNCHANGED <<feed, created, subscription, start, watermark, target, told, pc, page, until>>
  BY DEF Retain, clientVars, channelVars
<1>3. bar \in Bars
  BY DEF LiveTypes, ThreadTypes
<1>4. bar[1] \in Minutes /\ bar[2] \in Contents /\ bar[1] \in Open
  BY <1>1, <1>3 DEF Bars, RetainMinute, Finalized
<1>5. /\ JournalTypes' /\ Retained' = Retained \cup {bar[1]}
      /\ \A n \in Retained : journal'[n] = journal[n]
  BY <1>1, <1>4, RetainOne DEF LiveTypes
<1>6. Kept
  BY <1>4, <1>5 DEF Kept
<1>7. FeedTypes' /\ ThreadTypes'
  BY <1>1, <1>2 DEF LiveTypes, FeedTypes, ThreadTypes
<1>8. /\ left'[t] = left[t] \ {bar}
      /\ \A u \in Channels \ {t} : left'[u] = left[u]
  BY <1>1 DEF LiveTypes, ThreadTypes
<1>9. \A u \in Channels : pc'[u] = "retain" => \A b \in page'[u] \ left'[u] : b[1] \in Retained'
  BY <1>2, <1>5, <1>8 DEF Acquired
<1>10. \A u \in Channels : watermark[u] \in Nat
  BY DEF LiveTypes, FeedTypes
<1> QED BY <1>2, <1>5, <1>6, <1>7, <1>9, <1>10 DEF Acquired, WatermarksGrow, OpenIn

\* A poll that ends without publishing.
LEMMA FinishAcquires ==
    ASSUME LiveTypes, Acquired, journal' = journal,
           NEW t \in Channels, NEW listeners \in SUBSET Clients, Finish(t, listeners),
           UNCHANGED <<clientVars, start, watermark>>
    PROVE  Acquired' /\ WatermarksGrow /\ FeedTypes' /\ ThreadTypes'
<1>1. FeedTypes' /\ ThreadTypes'
  BY FinishTypes DEF LiveTypes, FeedTypes, clientVars
<1>2. \A u \in Channels : u # t => pc'[u] = pc[u] /\ page'[u] = page[u] /\ left'[u] = left[u]
                                  /\ target'[u] = target[u]
  BY DEF Finish, Goto, LiveTypes, ThreadTypes
<1>3. pc'[t] # "retain" /\ target'[t] = 0
  BY DEF Finish, Goto, LiveTypes, ThreadTypes, NoChannel
<1>4. Retained' = Retained
  BY UnchangedIsKept
<1>5. created \in Nat /\ \A u \in Channels : watermark[u] \in Nat
  BY ConstantTypes DEF LiveTypes, FeedTypes
<1> QED BY <1>1, <1>2, <1>3, <1>4, <1>5 DEF Acquired, WatermarksGrow, OpenIn, clientVars

\* Publication confirms no more than the page has retained and the watermark
\* had confirmed before.
LEMMA PublishAcquires ==
    ASSUME LiveTypes, Acquired, journal' = journal,
           NEW t \in Channels, NEW listeners \in SUBSET Clients, Publish(t, listeners)
    PROVE  Acquired' /\ WatermarksGrow /\ FeedTypes' /\ ThreadTypes'
<1> DEFINE u == target[t]
<1>1. PICK m \in 0..Horizon : Confirmed(t, m) /\ watermark' = [watermark EXCEPT ![u] = m]
  BY DEF Publish
<1>2. /\ UNCHANGED <<feed, created, subscription, start>>
      /\ Finish(t, listeners) /\ pc[t] = "retain" /\ left[t] = {}
  BY DEF Publish, clientVars
<1>3. u \in Channels /\ u <= created
  BY <1>2 DEF LiveTypes, ThreadTypes, Acquired
<1>4. /\ watermark[u] \in Nat /\ start[u] \in Nat /\ until[t] \in Int /\ m \in Nat
      /\ \A n \in Open : n \in Nat
  <2>1. \A n \in Open : n \in Nat
    BY ConstantTypes, OpenAssumption
  <2> QED BY <1>3, <2>1, ChannelNumbers
<1>5. \A n \in Open : watermark[u] <= n /\ n < m => n \in Retained
  <2> SUFFICES ASSUME NEW n \in Open, watermark[u] <= n, n < m PROVE n \in Retained
    OBVIOUS
  <2>1. n \notin Missing(t) /\ n < until[t]
    <3>1. CASE m \in Missing(t) /\ \A k \in Missing(t) : m <= k
      <4>1. m < until[t]
        BY <3>1 DEF Missing
      <4> QED BY <1>4, <3>1, <4>1
    <3>2. CASE Missing(t) = {} /\ m = Latest(watermark[u], until[t])
      BY <1>4, <3>2 DEF Latest
    <3> QED BY <1>1, <3>1, <3>2 DEF Confirmed
  <2>2. PICK bar \in page[t] : bar[1] = n
    BY <2>1 DEF Missing
  <2> QED BY <1>2, <2>2 DEF Acquired
<1>6. m >= watermark[u]
  BY <1>1, <1>4 DEF Confirmed, Missing, Latest
<1>7. watermark'[u] = m /\ \A v \in Channels \ {u} : watermark'[v] = watermark[v]
  BY <1>1, <1>3 DEF LiveTypes, FeedTypes
<1>8. OpenIn(start[u], m) \subseteq Retained
  BY <1>3, <1>4, <1>5 DEF Acquired, OpenIn
<1>9. FeedTypes' /\ ThreadTypes'
  <2>1. watermark' \in [Channels -> Nat]
    BY <1>1, <1>4 DEF LiveTypes, FeedTypes
  <2> QED BY <1>2, <2>1, FinishTypes DEF LiveTypes, FeedTypes
<1>10. \A v \in Channels : v # t => pc'[v] = pc[v] /\ page'[v] = page[v] /\ left'[v] = left[v]
                                  /\ target'[v] = target[v]
  BY <1>2 DEF Finish, Goto, LiveTypes, ThreadTypes
<1>11. pc'[t] # "retain" /\ target'[t] = 0
  BY <1>2 DEF Finish, Goto, LiveTypes, ThreadTypes, NoChannel
<1>12. Retained' = Retained
  BY UnchangedIsKept
<1>13. created \in Nat /\ \A v \in Channels : watermark[v] \in Nat
  BY ConstantTypes DEF LiveTypes, FeedTypes
<1> HIDE DEF u
<1>14. \A v \in Channels : OpenIn(start[v], watermark[v])' \subseteq Retained'
  BY <1>2, <1>7, <1>8, <1>12 DEF Acquired, OpenIn
<1>15. \A v \in Channels : v > created' => watermark'[v] = 0
  <2>1. \A v \in Channels : v > created => v # u
    BY <1>3, <1>13, ConstantTypes
  <2> QED BY <1>2, <1>7, <2>1 DEF Acquired
<1>16. WatermarksGrow
  BY <1>6, <1>7, <1>13 DEF WatermarksGrow
<1> QED BY <1>2, <1>9, <1>10, <1>11, <1>12, <1>13, <1>14, <1>15, <1>16 DEF Acquired

-------------------------------------------------------------------------------
(* Sessions and their inputs.                                              *)

\* Retention adds no minute to a span whose open minutes are all retained.
LEMMA SpanIsKept ==
    ASSUME Kept, NEW a \in Int, NEW b \in Int, OpenIn(a, b) \subseteq Retained
    PROVE  /\ Retained' \cap (a..(b - 1)) = Retained \cap (a..(b - 1))
           /\ OpenIn(a, b) \subseteq Retained'
<1>1. \A m \in Open : m \in Nat
  BY OpenAssumption, ConstantTypes
<1> QED BY <1>1 DEF Kept, OpenIn

LEMMA InputNumbers ==
    ASSUME LiveTypes, NEW c \in Clients
    PROVE  /\ upto[c] \in Nat /\ liveStart[c] \in Int
           /\ liveStart[c] # NoStart => liveStart[c] \in Nat
<1>1. upto[c] \in Nat /\ liveStart[c] \in Starts \cup {NoStart}
  BY DEF LiveTypes, InputTypes
<1>2. CASE liveStart[c] \in Starts
  <2>1. liveStart[c] \in Nat
    BY <1>2, ConstantTypes
  <2> QED BY <1>1, <2>1
<1>3. CASE liveStart[c] = NoStart
  <2>1. NoStart \in Int
    BY DEF NoStart
  <2> QED BY <1>1, <1>3, <2>1
<1> QED BY <1>1, <1>2, <1>3

\* The attached session of a live client has its channel and its input.
LEMMA AttachedHasFeed ==
    ASSUME LiveTypes, Analysed, NEW c \in Attached
    PROVE  /\ c \in Clients /\ feed \in Channels /\ c \in Subscribed /\ subscription[c] = liveStart[c]
           /\ liveStart[c] # NoStart /\ start[feed] <= liveStart[c]
BY DEF LiveTypes, FeedTypes, Analysed, SessionsAreSubscribed, Subscribed, Attached

\* A step of the acquisition, which leaves sessions alone.
LEMMA AcquisitionAnalyses ==
    ASSUME LiveTypes, Analysed, Kept, FeedTypes',
           UNCHANGED <<clientVars, analysisVars>>,
           \A t \in Channels : start'[t] = start[t] \/ start'[t] = 0
    PROVE  Analysed' /\ InputsGrow /\ InputTypes'
<1>1. UNCHANGED <<feed, subscription, session, attaching, liveStart, upto, closes>>
  BY DEF clientVars, analysisVars, inputVars
<1>2. InputTypes' /\ Inputs'
  BY <1>1 DEF LiveTypes, InputTypes, Analysed, Inputs
<1>3. ASSUME NEW c \in Clients, liveStart[c] # NoStart
      PROVE  /\ closes[c] = RowsIn(liveStart[c], upto[c])'
             /\ OpenIn(liveStart[c], upto[c])' \subseteq Retained'
  <2>1. /\ closes[c] = RowsIn(liveStart[c], upto[c])
        /\ OpenIn(liveStart[c], upto[c]) \subseteq Retained
    BY <1>3 DEF Analysed, LiveInputIsContiguous
  <2>2. /\ Retained' \cap (liveStart[c]..(upto[c] - 1)) = Retained \cap (liveStart[c]..(upto[c] - 1))
        /\ OpenIn(liveStart[c], upto[c]) \subseteq Retained'
    BY <2>1, InputNumbers, SpanIsKept
  <2> QED BY <1>1, <2>1, <2>2 DEF RowsIn, OpenIn, Kept
<1>4. LiveInputIsContiguous'
  BY <1>1, <1>3 DEF LiveInputIsContiguous
<1>5. ASSUME NEW c \in Attached PROVE start'[feed] <= liveStart[c]
  <2>1. feed \in Channels /\ liveStart[c] \in Nat /\ start[feed] <= liveStart[c]
    BY AttachedHasFeed, InputNumbers
  <2> QED BY <2>1
<1>6. SessionsAreSubscribed'
  BY <1>1, <1>5 DEF Analysed, SessionsAreSubscribed, Attached, Subscribed
<1>7. InputsGrow
  BY <1>1, InputNumbers DEF InputsGrow
<1> QED BY <1>2, <1>4, <1>6, <1>7 DEF Analysed

\* What advance(c) appends is what the journal holds between the session's
\* watermark and the feed's.
LEMMA RowsJoin ==
    ASSUME NEW a \in Int, NEW b \in Int, NEW d \in Int, a <= b, b <= d
    PROVE  /\ RowsIn(a, b) \cup RowsIn(b, d) = RowsIn(a, d)
           /\ OpenIn(a, b) \cup OpenIn(b, d) = OpenIn(a, d)
<1>1. \A m \in Open : m \in Nat
  BY OpenAssumption, ConstantTypes
<1>2. Retained \subseteq Nat
  BY ConstantTypes DEF Retained
<1>3. (a..(b - 1)) \cup (b..(d - 1)) = a..(d - 1)
  OBVIOUS
<1> QED BY <1>1, <1>2, <1>3 DEF RowsIn, OpenIn

LEMMA AdvanceAnalyses ==
    ASSUME LiveTypes, Analysed, journal' = journal, NEW c \in Clients, Advance(c),
           UNCHANGED <<feed, subscription, start>>
    PROVE  Analysed' /\ InputsGrow /\ InputTypes'
<1>1. InputTypes'
  BY AttachedHasFeed, AdvanceTypes
<1>2. Retained' = Retained /\ \A a, b : RowsIn(a, b)' = RowsIn(a, b)
  BY UnchangedIsKept DEF RowsIn, Retained
<1>3. CASE Rests(c)
  <2>1. UNCHANGED <<session, liveStart, upto, closes>>
    BY <1>3 DEF Rests, inputVars
  <2> QED BY <1>1, <1>2, <2>1, InputNumbers
          DEF Analysed, Inputs, LiveInputIsContiguous, SessionsAreSubscribed, InputsGrow, Attached,
              Subscribed, RowsIn, OpenIn
<1>4. CASE Stops(c)
  <2>1. /\ UNCHANGED <<liveStart, upto, closes>>
        /\ session' = [session EXCEPT ![c] = "failed"] /\ session[c] = "live"
    BY <1>4 DEF Stops, Moves, inputVars
  <2>2. Attached' = Attached
    BY <2>1 DEF Attached, LiveTypes, InputTypes
  <2> QED BY <1>1, <1>2, <2>1, <2>2, InputNumbers
          DEF Analysed, Inputs, LiveInputIsContiguous, SessionsAreSubscribed, InputsGrow,
              Subscribed, RowsIn, OpenIn
<1>5. CASE Advances(c)
  <2> DEFINE w == watermark[feed]
  <2>1. /\ UNCHANGED <<session, liveStart>>
        /\ closes' = [closes EXCEPT ![c] = @ \cup RowsIn(upto[c], w)]
        /\ upto' = [upto EXCEPT ![c] = w]
        /\ w > upto[c] /\ OpenIn(upto[c], w) \subseteq Retained /\ c \in Attached
    BY <1>5 DEF Advances, Moves, Contiguous, Attached
  <2>2. liveStart[c] # NoStart /\ w \in Nat
    BY <2>1, AttachedHasFeed, ChannelNumbers
  <2>3. liveStart[c] \in Int /\ upto[c] \in Nat /\ liveStart[c] <= upto[c] /\ upto[c] <= w
    BY <2>1, <2>2, InputNumbers DEF Analysed, Inputs
  <2>4. /\ RowsIn(liveStart[c], upto[c]) \cup RowsIn(upto[c], w) = RowsIn(liveStart[c], w)
        /\ OpenIn(liveStart[c], upto[c]) \cup OpenIn(upto[c], w) = OpenIn(liveStart[c], w)
    BY <2>2, <2>3, RowsJoin
  <2>5. /\ closes[c] = RowsIn(liveStart[c], upto[c])
        /\ OpenIn(liveStart[c], upto[c]) \subseteq Retained
    BY <2>2 DEF Analysed, LiveInputIsContiguous
  <2>6. /\ closes'[c] = RowsIn(liveStart[c], w) /\ upto'[c] = w
        /\ \A d \in Clients \ {c} : closes'[d] = closes[d] /\ upto'[d] = upto[d]
    BY <2>1, <2>4, <2>5 DEF LiveTypes, InputTypes
  <2>7. closes[c] \subseteq closes'[c] /\ upto'[c] >= upto[c]
    BY <2>3, <2>4, <2>5, <2>6
  <2>8. OpenIn(liveStart[c], w) \subseteq Retained
    BY <2>1, <2>4, <2>5
  <2> HIDE DEF w
  <2>9. Inputs'
    BY <2>1, <2>2, <2>3, <2>6 DEF Analysed, Inputs
  <2>10. ASSUME NEW d \in Clients, liveStart'[d] # NoStart
         PROVE  /\ closes'[d] = RowsIn(liveStart[d], upto'[d])
                /\ OpenIn(liveStart[d], upto'[d]) \subseteq Retained
    BY <2>1, <2>6, <2>8, <2>10 DEF Analysed, LiveInputIsContiguous
  <2>11. LiveInputIsContiguous'
    BY <1>2, <2>1, <2>10 DEF LiveInputIsContiguous, RowsIn, OpenIn
  <2>12. SessionsAreSubscribed'
    BY <2>1 DEF Analysed, SessionsAreSubscribed, Attached, Subscribed
  <2>13. InputsGrow
    BY <2>6, <2>7, InputNumbers DEF InputsGrow
  <2> QED BY <1>1, <2>9, <2>11, <2>12, <2>13 DEF Analysed
<1> QED BY <1>3, <1>4, <1>5 DEF Advance

-------------------------------------------------------------------------------
(* Clients, and the restart of the process.                                *)

\* A subscription is served by a channel that began early enough, and takes
\* nothing from the sessions of others.
LEMMA SubscribeServes ==
    ASSUME LiveTypes, Analysed, NEW c \in Clients, NEW s \in Starts, Subscribe(c, s)
    PROVE  /\ feed' # NoChannel /\ subscription'[c] = s /\ start'[feed'] <= s
           /\ \A d \in Attached : /\ feed' = feed /\ start' = start
                                  /\ d # c => subscription'[d] = subscription[d]
<1>1. /\ subscription'[c] = s
      /\ \A d \in Clients \ {c} : subscription'[d] = subscription[d]
  BY DEF Subscribe, LiveTypes, FeedTypes
<1>2. CASE feed # NoChannel
  BY <1>1, <1>2 DEF Subscribe, channelVars, Admits, Attached
<1>3. CASE feed = NoChannel
  <2>1. Attached = {}
    BY <1>3 DEF Analysed, SessionsAreSubscribed
  <2>2. created + 1 \in Channels /\ s \in Nat
    BY <1>3, ConstantTypes DEF Subscribe, Admits, LiveTypes, FeedTypes, Channels
  <2>3. feed' = created + 1 /\ start' = [start EXCEPT ![created + 1] = s]
    BY <1>3 DEF Subscribe
  <2>4. start'[feed'] = s
    BY <2>2, <2>3 DEF LiveTypes, FeedTypes
  <2> QED BY <1>1, <2>1, <2>2, <2>3, <2>4, ConstantTypes
<1> QED BY <1>2, <1>3

LEMMA JoinAnalyses ==
    ASSUME LiveTypes, Analysed, journal' = journal, NEW c \in Clients, NEW s \in Starts, Join(c, s)
    PROVE  Analysed' /\ InputsGrow /\ InputTypes'
<1>1. Subscribe(c, s) /\ c \notin Subscribed
      /\ UNCHANGED <<session, attaching, liveStart, upto, closes>>
  BY DEF Join, analysisVars, inputVars
<1>2. Retained' = Retained
  BY UnchangedIsKept
<1>3. InputTypes' /\ Inputs' /\ LiveInputIsContiguous' /\ InputsGrow
  BY <1>1, <1>2, InputNumbers
     DEF LiveTypes, InputTypes, Analysed, Inputs, LiveInputIsContiguous, InputsGrow, RowsIn, OpenIn
<1>4. ASSUME NEW d \in Attached
      PROVE  /\ feed' # NoChannel /\ subscription'[d] = liveStart[d] /\ subscription'[d] # NoStart
             /\ start'[feed'] <= liveStart[d]
  BY <1>1, SubscribeServes, AttachedHasFeed
<1>5. SessionsAreSubscribed'
  BY <1>1, <1>4 DEF SessionsAreSubscribed, Attached, Subscribed
<1> QED BY <1>3, <1>5 DEF Analysed

LEMMA ConnectAnalyses ==
    ASSUME LiveTypes, Analysed, journal' = journal, NEW c \in Clients, NEW s \in Starts, Connect(c, s)
    PROVE  Analysed' /\ InputsGrow /\ InputTypes'
<1>1. /\ Subscribe(c, s) /\ attaching' = c /\ session[c] = "none"
      /\ session' = [session EXCEPT ![c] = "live"]
      /\ liveStart' = [liveStart EXCEPT ![c] = s] /\ upto' = [upto EXCEPT ![c] = s]
      /\ closes' = [closes EXCEPT ![c] = {}]
  BY DEF Connect
<1>2. s \in Nat /\ s # NoStart
  BY ConstantTypes
<1>3. InputTypes'
  BY <1>1, <1>2 DEF LiveTypes, InputTypes, SessionStates
<1>4. /\ session'[c] = "live" /\ liveStart'[c] = s /\ upto'[c] = s /\ closes'[c] = {}
      /\ \A d \in Clients \ {c} : /\ session'[d] = session[d] /\ liveStart'[d] = liveStart[d]
                                  /\ upto'[d] = upto[d] /\ closes'[d] = closes[d]
  BY <1>1 DEF LiveTypes, InputTypes
<1>5. Retained' = Retained
  BY UnchangedIsKept
<1>6. Inputs' /\ InputsGrow
  BY <1>1, <1>2, <1>4, InputNumbers DEF Analysed, Inputs, InputsGrow
<1>7. LiveInputIsContiguous'
  <2>1. RowsIn(s, s) = {} /\ OpenIn(s, s) = {}
    BY <1>2, NothingOpen DEF RowsIn
  <2>2. RowsIn(liveStart[c], upto[c])' = {} /\ OpenIn(liveStart[c], upto[c])' = {}
    BY <1>2, <1>4, <1>5, <2>1 DEF RowsIn, OpenIn
  <2>3. \A d \in Clients \ {c} : /\ RowsIn(liveStart[d], upto[d])' = RowsIn(liveStart[d], upto[d])
                                 /\ OpenIn(liveStart[d], upto[d])' = OpenIn(liveStart[d], upto[d])
    BY <1>4, <1>5 DEF RowsIn, OpenIn
  <2> QED BY <1>4, <1>5, <2>2, <2>3 DEF Analysed, LiveInputIsContiguous
<1>8. SessionsAreSubscribed'
  <2>1. ASSUME NEW d \in Attached' PROVE
          /\ feed' # NoChannel /\ subscription'[d] = liveStart'[d] /\ subscription'[d] # NoStart
          /\ start'[feed'] <= liveStart'[d]
    <3>1. CASE d = c
      BY <1>1, <1>2, <1>4, <3>1, SubscribeServes
    <3>2. CASE d # c
      <4>1. d \in Attached /\ d \in Clients
        BY <1>4, <3>2 DEF Attached
      <4> QED BY <1>1, <1>4, <3>2, <4>1, SubscribeServes, AttachedHasFeed
    <3> QED BY <3>1, <3>2
  <2> QED BY <2>1 DEF SessionsAreSubscribed, Attached, Subscribed
<1> QED BY <1>3, <1>6, <1>7, <1>8 DEF Analysed

\* The channel stays while a session of somebody else is attached.
LEMMA UnsubscribeServes ==
    ASSUME LiveTypes, Analysed, NEW c \in Clients, Unsubscribe(c)
    PROVE  /\ start' = start
           /\ \A d \in Attached \ {c} : feed' = feed /\ subscription'[d] = subscription[d]
BY AttachedHasFeed DEF Unsubscribe, LiveTypes, FeedTypes

LEMMA ConnectRefusedAnalyses ==
    ASSUME LiveTypes, Analysed, journal' = journal, NEW c \in Clients, NEW s \in Starts,
           ConnectRefused(c, s)
    PROVE  Analysed' /\ InputsGrow /\ InputTypes'
<1>1. Unsubscribe(c) /\ session[c] = "none"
      /\ UNCHANGED <<session, attaching, liveStart, upto, closes>>
  BY DEF ConnectRefused, analysisVars, inputVars
<1>2. Retained' = Retained
  BY UnchangedIsKept
<1>3. InputTypes' /\ Inputs' /\ LiveInputIsContiguous' /\ InputsGrow
  BY <1>1, <1>2, InputNumbers
     DEF LiveTypes, InputTypes, Analysed, Inputs, LiveInputIsContiguous, InputsGrow, RowsIn, OpenIn
<1>4. ASSUME NEW d \in Attached
      PROVE  /\ feed' # NoChannel /\ subscription'[d] = liveStart[d] /\ subscription'[d] # NoStart
             /\ start'[feed'] <= liveStart[d]
  <2>1. d # c
    BY <1>1 DEF Attached
  <2> QED BY <1>1, <2>1, UnsubscribeServes, AttachedHasFeed, ConstantTypes
<1>5. SessionsAreSubscribed'
  BY <1>1, <1>4 DEF SessionsAreSubscribed, Attached, Subscribed
<1> QED BY <1>3, <1>5 DEF Analysed

LEMMA DisconnectAnalyses ==
    ASSUME LiveTypes, Analysed, journal' = journal, NEW c \in Clients, Disconnect(c)
    PROVE  Analysed' /\ InputsGrow /\ InputTypes'
<1>1. /\ Unsubscribe(c) /\ session' = [session EXCEPT ![c] = "closed"] /\ Forget({c})
  BY DEF Disconnect
<1>2. /\ session'[c] = "closed" /\ liveStart'[c] = NoStart /\ upto'[c] = 0 /\ closes'[c] = {}
      /\ \A d \in Clients \ {c} : /\ session'[d] = session[d] /\ liveStart'[d] = liveStart[d]
                                  /\ upto'[d] = upto[d] /\ closes'[d] = closes[d]
  BY <1>1 DEF Forget, LiveTypes, InputTypes
<1>3. InputTypes'
  BY <1>1 DEF Forget, LiveTypes, InputTypes, SessionStates
<1>4. Retained' = Retained
  BY UnchangedIsKept
<1>5. Inputs' /\ InputsGrow
  BY <1>2, InputNumbers DEF Analysed, Inputs, InputsGrow
<1>6. LiveInputIsContiguous'
  <2>1. \A d \in Clients \ {c} : /\ RowsIn(liveStart[d], upto[d])' = RowsIn(liveStart[d], upto[d])
                                 /\ OpenIn(liveStart[d], upto[d])' = OpenIn(liveStart[d], upto[d])
    BY <1>2, <1>4 DEF RowsIn, OpenIn
  <2> QED BY <1>2, <1>4, <2>1 DEF Analysed, LiveInputIsContiguous
<1>7. ASSUME NEW d \in Attached'
      PROVE  /\ feed' # NoChannel /\ subscription'[d] = liveStart'[d] /\ subscription'[d] # NoStart
             /\ start'[feed'] <= liveStart'[d]
  <2>1. d # c /\ d \in Attached /\ d \in Clients
    BY <1>2 DEF Attached
  <2> QED BY <1>1, <1>2, <2>1, UnsubscribeServes, AttachedHasFeed, ConstantTypes
<1>8. SessionsAreSubscribed'
  BY <1>7 DEF SessionsAreSubscribed, Attached, Subscribed
<1> QED BY <1>3, <1>5, <1>6, <1>8 DEF Analysed

\* After a restart, and initially, there is nothing to be wrong about.
LEMMA RestartHolds ==
    ASSUME LiveInv, journal' = journal, Restart
    PROVE  FeedTypes' /\ ThreadTypes' /\ Acquired' /\ WatermarksGrow
           /\ Analysed' /\ InputsGrow /\ InputTypes'
<1>1. /\ feed' = 0 /\ created' = 0 /\ subscription' = [c \in Clients |-> NoStart]
      /\ start' = [t \in Channels |-> 0] /\ watermark' = [t \in Channels |-> 0]
      /\ pc' = [t \in Channels |-> "none"] /\ target' = [t \in Channels |-> 0]
      /\ page' = [t \in Channels |-> {}] /\ left' = [t \in Channels |-> {}]
      /\ until' = [t \in Channels |-> 0] /\ told' = [t \in Channels |-> {}]
      /\ session' = [c \in Clients |-> "none"] /\ Forget(Clients)
  BY DEF Restart, Idle, NoChannel
<1>2. FeedTypes'
  BY <1>1, ConstantTypes DEF FeedTypes, NoChannel
<1>3. ThreadTypes'
  BY <1>1, ConstantTypes DEF ThreadTypes, ThreadStates, NoChannel
<1>4. /\ liveStart' = [c \in Clients |-> NoStart] /\ upto' = [c \in Clients |-> 0]
      /\ closes' = [c \in Clients |-> {}]
  BY <1>1 DEF Forget
<1>5. InputTypes'
  BY <1>1, <1>4 DEF InputTypes, SessionStates
<1>6. Acquired' /\ WatermarksGrow
  <2>1. OpenIn(0, 0) = {}
    BY NothingOpen
  <2>2. \A t \in Channels : t \in Nat /\ t > 0
    BY DEF Channels
  <2> QED BY <1>1, <2>1, <2>2 DEF Acquired, WatermarksGrow, OpenIn
<1>7. Analysed'
  BY <1>1, <1>4 DEF Analysed, Inputs, LiveInputIsContiguous, SessionsAreSubscribed, Attached
<1>8. InputsGrow
  BY <1>4 DEF InputsGrow, LiveInv, Analysed, Inputs
<1> QED BY <1>2, <1>3, <1>5, <1>6, <1>7, <1>8

-------------------------------------------------------------------------------
(* The specification.                                                      *)

LEMMA InitLive == Init => LiveInv
<1> SUFFICES ASSUME Init PROVE LiveInv
  OBVIOUS
<1>1. now = 0 /\ JournalTypes
  BY DEF Init, RetentionInit, JournalTypes
<1>2. /\ feed = 0 /\ created = 0 /\ subscription = [c \in Clients |-> NoStart]
      /\ start = [t \in Channels |-> 0] /\ watermark = [t \in Channels |-> 0]
      /\ pc = [t \in Channels |-> "none"] /\ target = [t \in Channels |-> 0]
      /\ page = [t \in Channels |-> {}] /\ left = [t \in Channels |-> {}]
      /\ until = [t \in Channels |-> 0] /\ told = [t \in Channels |-> {}]
      /\ offered = [m \in Minutes |-> Absent]
  BY DEF Init, IngressInit, NoChannel
<1>3. /\ session = [c \in Clients |-> "none"] /\ liveStart = [c \in Clients |-> NoStart]
      /\ upto = [c \in Clients |-> 0] /\ closes = [c \in Clients |-> {}]
  BY DEF Init
<1>4. FeedTypes /\ ThreadTypes /\ InputTypes
  BY <1>2, <1>3, ConstantTypes DEF FeedTypes, ThreadTypes, InputTypes, ThreadStates, SessionStates, NoChannel
<1>5. LiveTypes
  BY <1>1, <1>2, <1>4, ConstantTypes DEF LiveTypes
<1>6. Acquired
  <2>1. OpenIn(0, 0) = {}
    BY NothingOpen
  <2> QED BY <1>2, <2>1 DEF Acquired
<1>7. Analysed
  BY <1>3 DEF Analysed, Inputs, LiveInputIsContiguous, SessionsAreSubscribed, Attached
<1> QED BY <1>5, <1>6, <1>7 DEF LiveInv

\* What every step preserves and does.
LiveStep == LiveInv' /\ WatermarksGrow /\ InputsGrow

\* A step of the acquisition, from what it does to the channels.
LEMMA AcquisitionStep ==
    ASSUME LiveInv, Kept, JournalTypes', now' \in 0..Horizon,
           offered' \in [Minutes -> Contents \cup {Absent}],
           UNCHANGED <<clientVars, analysisVars>>,
           \A t \in Channels : start'[t] = start[t] \/ start'[t] = 0,
           Acquired', WatermarksGrow, FeedTypes', ThreadTypes'
    PROVE  LiveStep
BY AcquisitionAnalyses DEF LiveStep, LiveInv, LiveTypes

LEMMA ListenersAreClients == \A t : Listeners(t) \in SUBSET Clients
BY DEF Listeners, Attached

LEMMA ClientStep ==
    ASSUME LiveInv, NEW c \in Clients, Client(c) PROVE LiveStep
<1>1. journal' = journal /\ now' = now /\ JournalTypes'
  BY DEF Client, retentionVars, journalVars, LiveInv, LiveTypes, JournalTypes
<1>2. ASSUME NEW s \in Starts, Join(c, s) PROVE LiveStep
  <2>1. Subscribe(c, s) /\ offered' = offered
    BY <1>2 DEF Join, Subscribe
  <2> QED BY <1>1, <1>2, <2>1, SubscribeTypes, SubscribeAcquires, JoinAnalyses DEF LiveStep, LiveInv, LiveTypes
<1>3. ASSUME NEW s \in Starts, Connect(c, s) PROVE LiveStep
  <2>1. Subscribe(c, s) /\ offered' = offered
    BY <1>3 DEF Connect, Subscribe
  <2> QED BY <1>1, <1>3, <2>1, SubscribeTypes, SubscribeAcquires, ConnectAnalyses DEF LiveStep, LiveInv, LiveTypes
<1>4. ASSUME NEW s \in Starts, ConnectRefused(c, s) PROVE LiveStep
  <2>1. Unsubscribe(c) /\ offered' = offered
    BY <1>4 DEF ConnectRefused, Unsubscribe
  <2> QED BY <1>1, <1>4, <2>1, UnsubscribeTypes, UnsubscribeAcquires, ConnectRefusedAnalyses
          DEF LiveStep, LiveInv, LiveTypes
<1>5. ASSUME Disconnect(c) PROVE LiveStep
  <2>1. Unsubscribe(c) /\ offered' = offered
    BY <1>5 DEF Disconnect, Unsubscribe
  <2> QED BY <1>1, <1>5, <2>1, UnsubscribeTypes, UnsubscribeAcquires, DisconnectAnalyses
          DEF LiveStep, LiveInv, LiveTypes
<1>6. ASSUME FirstAdvance(c) PROVE LiveStep
  <2>1. /\ Advance(c)
        /\ UNCHANGED <<offered, feed, created, subscription, start, watermark, pc, target, page,
                       left, until, told>>
    BY <1>6 DEF FirstAdvance, clientVars, channelVars, threadVars
  <2>2. FeedTypes' /\ ThreadTypes'
    BY <2>1 DEF LiveInv, LiveTypes, FeedTypes, ThreadTypes
  <2>3. Acquired' /\ WatermarksGrow
    <3>1. Retained' = Retained /\ \A t \in Channels : watermark[t] \in Nat
      BY <1>1, UnchangedIsKept DEF LiveInv, LiveTypes, FeedTypes
    <3> QED BY <2>1, <3>1 DEF LiveInv, Acquired, WatermarksGrow, OpenIn
  <2> QED BY <1>1, <2>1, <2>2, <2>3, AdvanceAnalyses DEF LiveStep, LiveInv, LiveTypes
<1> QED BY <1>2, <1>3, <1>4, <1>5, <1>6 DEF Client

LEMMA ThreadStep ==
    ASSUME LiveInv, NEW t \in Channels, Thread(t) \/ Disturb(t) PROVE LiveStep
<1>1. now' = now /\ now' \in 0..Horizon /\ Listeners(target[t]) \in SUBSET Clients
  BY ListenersAreClients DEF Thread, Disturb, retentionVars, LiveInv, LiveTypes
<1>2. ASSUME Loop(t) \/ Exit(t) \/ Enter(t), UNCHANGED <<journalVars, analysisVars>> PROVE LiveStep
  <2>1. /\ journal' = journal /\ sealed' = sealed /\ offered' = offered
        /\ UNCHANGED clientVars
        /\ start' = start \/ start' = [start EXCEPT ![t] = 0]
    BY <1>2 DEF journalVars, Loop, Exit, Enter, channelVars
  <2>2. \A u \in Channels : start'[u] = start[u] \/ start'[u] = 0
    BY <2>1 DEF LiveInv, LiveTypes, FeedTypes
  <2>3. Kept /\ JournalTypes' /\ offered' \in [Minutes -> Contents \cup {Absent}]
    BY <2>1, UnchangedIsKept DEF LiveInv, LiveTypes, JournalTypes
  <2>4. Acquired' /\ WatermarksGrow /\ FeedTypes' /\ ThreadTypes'
    BY <1>2, <2>1, ThreadAcquires DEF LiveInv
  <2> QED BY <1>1, <1>2, <2>1, <2>2, <2>3, <2>4, AcquisitionStep
<1>3. ASSUME \/ Fetch(t)
             \/ RetainConflict(t, Listeners(target[t]))
             \/ Publish(t, Listeners(target[t]))
             \/ PollFails(t, Listeners(target[t]))
             \/ RetainStopped(t),
             UNCHANGED <<journalVars, analysisVars>> PROVE LiveStep
  <2>1. /\ journal' = journal /\ sealed' = sealed /\ offered' = offered
        /\ UNCHANGED <<clientVars, start>>
    BY <1>3 DEF journalVars, Fetch, RetainConflict, Publish, PollFails, RetainStopped, channelVars
  <2>2. Kept /\ JournalTypes' /\ offered' \in [Minutes -> Contents \cup {Absent}]
    BY <2>1, UnchangedIsKept DEF LiveInv, LiveTypes, JournalTypes
  <2>3. Acquired' /\ WatermarksGrow /\ FeedTypes' /\ ThreadTypes'
    <3>1. CASE Fetch(t)
      BY <2>1, <3>1, FetchAcquires DEF LiveInv
    <3>2. CASE Publish(t, Listeners(target[t]))
      BY <1>1, <2>1, <3>2, PublishAcquires DEF LiveInv
    <3>3. CASE RetainStopped(t)
      <4>1. Finish(t, {}) /\ watermark' = watermark
        BY <3>3 DEF RetainStopped, channelVars
      <4> QED BY <2>1, <4>1, FinishAcquires DEF LiveInv
    <3>4. CASE RetainConflict(t, Listeners(target[t])) \/ PollFails(t, Listeners(target[t]))
      <4>1. Finish(t, Listeners(target[t])) /\ watermark' = watermark
        BY <3>4 DEF RetainConflict, PollFails
      <4> QED BY <1>1, <2>1, <4>1, FinishAcquires DEF LiveInv
    <3> QED BY <1>3, <3>1, <3>2, <3>3, <3>4
  <2> QED BY <1>1, <1>3, <2>1, <2>2, <2>3, AcquisitionStep
<1>4. ASSUME Retain(t), UNCHANGED analysisVars PROVE LiveStep
  <2>1. UNCHANGED <<clientVars, start, offered>>
    BY <1>4 DEF Retain, channelVars
  <2>2. Acquired' /\ WatermarksGrow /\ FeedTypes' /\ ThreadTypes' /\ JournalTypes' /\ Kept
    BY <1>4, RetainAcquires DEF LiveInv
  <2>3. offered' \in [Minutes -> Contents \cup {Absent}]
    BY <2>1 DEF LiveInv, LiveTypes
  <2> QED BY <1>1, <1>4, <2>1, <2>2, <2>3, AcquisitionStep
<1>5. ASSUME Notify(t) PROVE LiveStep
  <2>1. PICK c \in told[t] : /\ Advance(c)
                             /\ told' = [told EXCEPT ![t] = @ \ {c}]
                             /\ pc' = pc \/ pc' = [pc EXCEPT ![t] = "loop"]
    BY <1>5 DEF Notify, Goto
  <2>2. /\ journal' = journal /\ sealed' = sealed
        /\ UNCHANGED <<offered, feed, created, subscription, start, watermark, target, page, left, until>>
    BY <1>5 DEF Notify, journalVars, clientVars, channelVars
  <2>3. c \in Clients
    BY <2>1 DEF LiveInv, LiveTypes, ThreadTypes
  <2>4. FeedTypes' /\ ThreadTypes' /\ JournalTypes'
    BY <2>1, <2>2 DEF LiveInv, LiveTypes, FeedTypes, ThreadTypes, ThreadStates, JournalTypes
  <2>5. Acquired' /\ WatermarksGrow
    <3>1. Retained' = Retained /\ \A u \in Channels : watermark[u] \in Nat
      BY <2>2, UnchangedIsKept DEF LiveInv, LiveTypes, FeedTypes
    <3>2. \A u \in Channels : pc'[u] = "retain" => pc[u] = "retain"
      BY <2>1 DEF LiveInv, LiveTypes, ThreadTypes
    <3> QED BY <2>2, <3>1, <3>2 DEF LiveInv, Acquired, WatermarksGrow, OpenIn
  <2> QED BY <1>1, <2>1, <2>2, <2>3, <2>4, <2>5, AdvanceAnalyses DEF LiveStep, LiveInv, LiveTypes
<1>6. CASE Disturb(t)
  BY <1>3, <1>6 DEF Disturb, retentionVars
<1>7. CASE Thread(t)
  <2>1. \/ (Loop(t) \/ Exit(t) \/ Enter(t)) /\ UNCHANGED <<journalVars, analysisVars>>
        \/ /\ Fetch(t) \/ RetainConflict(t, Listeners(target[t])) \/ Publish(t, Listeners(target[t]))
           /\ UNCHANGED <<journalVars, analysisVars>>
        \/ Retain(t) /\ UNCHANGED analysisVars
        \/ RetainStopped(t) /\ UNCHANGED analysisVars
        \/ Notify(t)
    BY <1>7 DEF Thread, Poll
  <2>2. CASE RetainStopped(t) /\ UNCHANGED analysisVars
    BY <1>3, <2>2 DEF RetainStopped
  <2> QED BY <1>2, <1>3, <1>4, <1>5, <2>1, <2>2
<1> QED BY <1>6, <1>7

LEMMA StepLive == ASSUME LiveInv, [Next]_vars PROVE LiveStep
<1>1. ASSUME NEW h \in HourSet, Seal(h) PROVE LiveStep
  <2>1. /\ PackageLiveHour(h) /\ now' = now
        /\ UNCHANGED <<ingressVars, analysisVars>>
    BY <1>1 DEF Seal
  <2>2. journal' = journal /\ JournalTypes'
    BY <2>1, PackageOne DEF LiveInv, LiveTypes
  <2>3. Retained' = Retained /\ Kept
    BY <2>2, UnchangedIsKept
  <2>4. UNCHANGED <<offered, clientVars, channelVars, threadVars>>
    BY <2>1 DEF ingressVars
  <2>5. FeedTypes' /\ ThreadTypes' /\ now' \in 0..Horizon
        /\ offered' \in [Minutes -> Contents \cup {Absent}]
    BY <2>1, <2>4 DEF LiveInv, LiveTypes, FeedTypes, ThreadTypes, clientVars, channelVars, threadVars
  <2>6. Acquired' /\ WatermarksGrow
    BY <2>3, <2>4 DEF LiveInv, LiveTypes, FeedTypes, Acquired, WatermarksGrow, OpenIn,
                      clientVars, channelVars, threadVars
  <2> QED BY <2>1, <2>2, <2>3, <2>4, <2>5, <2>6, AcquisitionStep DEF channelVars
<1>2. ASSUME \/ Clock
             \/ Provider
             \/ UNCHANGED vars PROVE LiveStep
  <2>1. UNCHANGED <<journalVars, clientVars, channelVars, threadVars, analysisVars>>
    BY <1>2 DEF Clock, Tick, Provider, vars, retentionVars, ingressVars
  <2>2. now' \in 0..Horizon
    BY <1>2, ConstantTypes DEF Clock, Tick, Provider, vars, retentionVars, LiveInv, LiveTypes
  <2>3. offered' \in [Minutes -> Contents \cup {Absent}]
    BY <1>2 DEF Clock, Provider, Offer, Correct, Contents, vars, ingressVars, LiveInv, LiveTypes
  <2>4. JournalTypes' /\ Kept /\ Retained' = Retained
    BY <2>1, UnchangedIsKept DEF journalVars, LiveInv, LiveTypes, JournalTypes
  <2>5. FeedTypes' /\ ThreadTypes'
    BY <2>1 DEF LiveInv, LiveTypes, FeedTypes, ThreadTypes, clientVars, channelVars, threadVars
  <2>6. Acquired' /\ WatermarksGrow
    BY <2>1, <2>4 DEF LiveInv, LiveTypes, FeedTypes, Acquired, WatermarksGrow, OpenIn,
                      clientVars, channelVars, threadVars
  <2> QED BY <2>1, <2>2, <2>3, <2>4, <2>5, <2>6, AcquisitionStep DEF channelVars
<1>3. ASSUME Restart PROVE LiveStep
  <2>1. UNCHANGED <<now, journal, sealed, offered>>
    BY <1>3 DEF Restart, retentionVars, journalVars
  <2> QED BY <1>3, <2>1, RestartHolds DEF LiveStep, LiveInv, LiveTypes, JournalTypes
<1> QED BY <1>1, <1>2, <1>3, ClientStep, ThreadStep DEF Next, Threads

LEMMA LiveAlways == Spec => []LiveInv
BY InitLive, StepLive, PTL DEF Spec, LiveStep

-------------------------------------------------------------------------------
\* Whatever threads, stops, failures and restarts interleave, a watermark
\* confirms only what the journal holds.
THEOREM WatermarksConfirm == Spec => []ConfirmedPrefix
<1>1. LiveInv => ConfirmedPrefix
  BY DEF LiveInv, LiveTypes, FeedTypes, Acquired, ConfirmedPrefix
<1> QED BY <1>1, LiveAlways, PTL

\* The receipts of a live input are the retained rows from its start to its
\* watermark, without a hole.
THEOREM InputsAreWhole == Spec => []LiveInputIsContiguous
<1>1. LiveInv => LiveInputIsContiguous
  BY DEF LiveInv, Analysed
<1> QED BY <1>1, LiveAlways, PTL

\* A callback always finds the channel and the subscription of its session.
THEOREM SessionsAreServed == Spec => []SessionsAreSubscribed
<1>1. LiveInv => SessionsAreSubscribed
  BY DEF LiveInv, Analysed
<1> QED BY <1>1, LiveAlways, PTL

\* Confirmed availability and consumed input only grow.
THEOREM NothingRewinds == Spec => NeverRewinds
<1>1. LiveInv /\ [Next]_vars =>
        [/\ \A t \in Channels : created' >= t /\ pc'[t] # "done" => watermark'[t] >= watermark[t]
         /\ \A c \in Clients : liveStart'[c] = liveStart[c] /\ attaching' # c =>
                closes[c] \subseteq closes'[c] /\ upto'[c] >= upto[c]]_vars
  BY StepLive DEF LiveStep, WatermarksGrow, InputsGrow
<1> QED BY <1>1, LiveAlways, PTL DEF Spec, NeverRewinds

===============================================================================
