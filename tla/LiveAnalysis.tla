----------------------------- MODULE LiveAnalysis -----------------------------
(***************************************************************************)
(* Live analysis sessions (application/live_analysis.py) attached to the   *)
(* shared acquisition of LiveIngress, and the whole live service of one    *)
(* feed: clients, polling threads, packaging, provider, API restarts.      *)
(*                                                                         *)
(* Client c's input is its live_analysis_inputs row with the receipts and  *)
(* advances committed under it.  A session, a channel and a subscription   *)
(* die with the API process; inputs, journal and sealed hours do not.      *)
(***************************************************************************)
EXTENDS LiveIngress

VARIABLES session,     \* each client's attached session
          attaching,   \* client inside connect, which holds the manager's lock
          seed,        \* bars of the bootstrap revision
          liveStart,   \* live_start of the manifest, or NoStart
          upto,        \* session watermark: latest committed advance
          closes       \* live_analysis_closes: receipts, with the row they name

inputVars == <<seed, liveStart, upto, closes>>
analysisVars == <<session, attaching, inputVars>>
vars == <<retentionVars, ingressVars, analysisVars>>

NoClient == "nobody"
SessionStates == {"none", "live", "failed", "closed"}
Attached == {c \in Clients : session[c] \in {"live", "failed"}}

TypeOK ==
    /\ now \in 0..Horizon
    /\ journal \in [Minutes -> Contents \cup {Absent}]
    /\ IngressTypeOK
    /\ session \in [Clients -> SessionStates]
    /\ attaching \in Clients \cup {NoClient}
    /\ seed \in [Clients -> SUBSET (Minutes \X Contents)]
    /\ liveStart \in [Clients -> Starts \cup {NoStart}]
    /\ upto \in [Clients -> 0..Horizon]
    /\ closes \in [Clients -> SUBSET (Minutes \X Contents)]

Init ==
    /\ RetentionInit
    /\ IngressInit
    /\ session = [c \in Clients |-> "none"] /\ attaching = NoClient
    /\ seed = [c \in Clients |-> {}] /\ liveStart = [c \in Clients |-> NoStart]
    /\ upto = [c \in Clients |-> 0] /\ closes = [c \in Clients |-> {}]

Listeners(t) == IF t = feed THEN Attached \cap Subscribed ELSE {}

-------------------------------------------------------------------------------
(* advance(c), under the manager's lock, in one transaction.               *)

OpenIn(from, to) == {m \in Open : from <= m /\ m < to}
RowsIn(from, to) == {<<m, journal[m]>> : m \in Retained \cap from..(to - 1)}

SeedConflict(c) == ~(RowsIn(0, liveStart[c]) \subseteq seed[c])

Moves(c) == session[c] = "live" /\ status[feed] \notin {"failed", "conflict"}

\* Nothing to do: failed before, a feed in trouble, or no new confirmed minute.
Rests(c) ==
    /\ ~(Moves(c) /\ (SeedConflict(c) \/ watermark[feed] > upto[c]))
    /\ UNCHANGED <<session, inputVars>>

\* Mistake: whatever the journal holds is taken.
AdvancesUnconfirmed(c) ==
    /\ Moves(c) /\ ~SeedConflict(c) /\ upto[c] < now
    /\ closes' = [closes EXCEPT ![c] = @ \cup RowsIn(upto[c], now)]
    /\ upto' = [upto EXCEPT ![c] = now]
    /\ UNCHANGED <<session, seed, liveStart>>

\* The clock refuses to close an open minute that has no bar.
Contiguous(c) == OpenIn(upto[c], watermark[feed]) \subseteq Retained

\* Mistake: the session follows the feed's watermark wherever it is.
AdvancesAnyway(c) ==
    /\ Moves(c) /\ ~SeedConflict(c) /\ Contiguous(c)
    /\ closes' = [closes EXCEPT ![c] = @ \cup RowsIn(upto[c], watermark[feed])]
    /\ upto' = [upto EXCEPT ![c] = watermark[feed]]
    /\ UNCHANGED <<session, seed, liveStart>>

Advances(c) ==
    /\ Moves(c) /\ ~SeedConflict(c) /\ watermark[feed] > upto[c] /\ Contiguous(c)
    /\ closes' = [closes EXCEPT ![c] = @ \cup RowsIn(upto[c], watermark[feed])]
    /\ upto' = [upto EXCEPT ![c] = watermark[feed]]
    /\ UNCHANGED <<session, seed, liveStart>>

\* A bootstrap that differs from the journal, a missing minute, a detector or
\* the database: the transaction is rolled back, the session failed for good.
Stops(c) ==
    /\ Moves(c)
    /\ SeedConflict(c) \/ watermark[feed] > upto[c]
    /\ session' = [session EXCEPT ![c] = "failed"]
    /\ UNCHANGED inputVars

Advance(c) == Rests(c) \/ Advances(c) \/ Stops(c)

-------------------------------------------------------------------------------
(* Clients.                                                                *)

\* What a complete history import of the minutes before s can have captured.
Seeds(s) ==
    LET minutes == OpenIn(0, s) IN
    {{<<m, capture[m]>> : m \in minutes} :
        capture \in {f \in [minutes -> Contents] :
                        \A m \in minutes : f[m] \in {"first", offered[m]}}}

\* launch commits the input under the feed's row lock, then the subscription.
Connect(c, s) ==
    /\ attaching = NoClient /\ session[c] = "none"
    /\ \A m \in OpenIn(0, s) : offered[m] # Absent
    /\ Subscribe(c, s)
    /\ session' = [session EXCEPT ![c] = "live"] /\ attaching' = c
    /\ \E bars \in Seeds(s) : /\ RowsIn(0, s) \subseteq bars
                              /\ seed' = [seed EXCEPT ![c] = bars]
    /\ liveStart' = [liveStart EXCEPT ![c] = s] /\ upto' = [upto EXCEPT ![c] = s]
    /\ closes' = [closes EXCEPT ![c] = {}]

FirstAdvance(c) ==
    /\ attaching = c
    /\ Advance(c)
    /\ attaching' = NoClient
    /\ UNCHANGED <<offered, clientVars, channelVars, source, lock, threadVars>>

\* Subscribed elsewhere: the error path drops that subscription too.
ConnectRefused(c, s) ==
    /\ attaching = NoClient /\ session[c] = "none"
    /\ \A m \in OpenIn(0, s) : offered[m] # Absent
    /\ s <= now /\ c \in Subscribed /\ subscription[c] # s
    /\ Unsubscribe(c)
    /\ UNCHANGED analysisVars

\* The model drops an input nobody writes any more: it stays as it was, and so
\* do the journal rows it names (AcknowledgedForever of LiveRetention).
Forget(clients) ==
    /\ seed' = [c \in Clients |-> IF c \in clients THEN {} ELSE seed[c]]
    /\ liveStart' = [c \in Clients |-> IF c \in clients THEN NoStart ELSE liveStart[c]]
    /\ upto' = [c \in Clients |-> IF c \in clients THEN 0 ELSE upto[c]]
    /\ closes' = [c \in Clients |-> IF c \in clients THEN {} ELSE closes[c]]

\* POST /live/subscriptions, without a session.
Join(c, s) ==
    /\ c \notin Subscribed /\ Subscribe(c, s)
    /\ UNCHANGED analysisVars

\* DELETE /live/subscriptions: the identity cannot attach a session again.  An
\* identity without a subscription would only lose that right.
Disconnect(c) ==
    /\ attaching = NoClient /\ c \in Subscribed
    /\ session' = [session EXCEPT ![c] = "closed"]
    /\ Forget({c})
    /\ Unsubscribe(c)
    /\ UNCHANGED attaching

Client(c) ==
    /\ \/ \E s \in Starts : Join(c, s) \/ ConnectRefused(c, s) \/ Connect(c, s)
       \/ FirstAdvance(c) \/ Disconnect(c)
    /\ UNCHANGED retentionVars

-------------------------------------------------------------------------------
(* Threads, time and the environment.                                      *)

\* The callbacks of a poll, one at a time; then the thread waits and loops.
Notify(t) ==
    /\ pc[t] = "notify" /\ attaching = NoClient
    /\ \E c \in told[t] : /\ Advance(c)
                          /\ told' = [told EXCEPT ![t] = @ \ {c}]
                          /\ IF told[t] = {c} THEN Goto(t, "loop") ELSE UNCHANGED pc
    /\ UNCHANGED <<journalVars, offered, clientVars, channelVars, source, lock, target,
                   page, left, until, attaching>>

Poll(t) ==
    \/ /\ \/ Loop(t) \/ Exit(t) \/ Enter(t) \/ Fetch(t)
          \/ RetainConflict(t, Listeners(target[t])) \/ Publish(t, Listeners(target[t]))
       /\ UNCHANGED <<journalVars, analysisVars>>
    \/ (Retain(t) \/ RetainStopped(t)) /\ UNCHANGED analysisVars
    \/ Notify(t)

Thread(t) == Poll(t) /\ UNCHANGED <<now, packVars>>

Disturb(t) ==
    /\ PollFails(t, Listeners(target[t]))
    /\ UNCHANGED <<retentionVars, analysisVars>>

Seal(h) ==
    /\ Pending(h) /\ h \notin Broken /\ PackageLiveHour(h)
    /\ UNCHANGED <<now, packVars, ingressVars, analysisVars>>

\* The API process stops and starts again, at any point of any thread.
Restart ==
    /\ created > 0
    /\ Idle
    /\ session' = [c \in Clients |-> "none"] /\ attaching' = NoClient
    /\ Forget(Clients)
    /\ UNCHANGED <<retentionVars, offered>>

Clock == Tick /\ UNCHANGED <<ingressVars, analysisVars>>

Provider ==
    /\ \E m \in Minutes : Offer(m) \/ Correct(m)
    /\ UNCHANGED <<retentionVars, clientVars, channelVars, source, lock, threadVars, analysisVars>>

Threads == \E t \in Channels : Thread(t) \/ Disturb(t)

Next ==
    \/ \E c \in Clients : Client(c)
    \/ Threads
    \/ \E h \in HourSet : Seal(h)
    \/ Restart \/ Clock \/ Provider

Spec == Init /\ [][Next]_vars

Offers(m) ==
    /\ Offer(m)
    /\ UNCHANGED <<retentionVars, clientVars, channelVars, source, lock, threadVars, analysisVars>>

\* Threads run, connect finishes, time passes, and the provider completes
\* every minute in the end; packaging, clients and restarts owe nothing.
FairSpec ==
    /\ Spec
    /\ WF_vars(Clock)
    /\ \A m \in Minutes : WF_vars(Offers(m))
    /\ \A t \in Channels : WF_vars(Thread(t))
    /\ \A c \in Clients : WF_vars(FirstAdvance(c) /\ UNCHANGED retentionVars)

-------------------------------------------------------------------------------
\* A watermark confirms a prefix: whatever interleaving of threads, stops and
\* restarts led there, every open minute from the channel's start up to it is
\* in the journal.
ConfirmedPrefix ==
    feed # NoChannel => OpenIn(start[feed], watermark[feed]) \subseteq Retained

\* read_live_input and verify_live_inputs, for every input ever written: its
\* receipts are the retained rows of every open minute from its start to its
\* watermark, and none beyond; what analysis consumed is what was retained.
LiveInputIsContiguous ==
    \A c \in Clients : liveStart[c] # NoStart =>
        /\ closes[c] = RowsIn(liveStart[c], upto[c])
        /\ OpenIn(liveStart[c], upto[c]) \subseteq Retained

\* An attached session always has its feed's channel, started early enough:
\* advance, called from a polling thread, never raises (a raising callback
\* would end the thread of every subscriber).
SessionsAreSubscribed ==
    \A c \in Attached :
        /\ feed # NoChannel /\ c \in Subscribed /\ subscription[c] = liveStart[c]
        /\ start[feed] <= liveStart[c]

\* Confirmed availability and consumed input only grow, and an input that was
\* committed stays: after a failure the session keeps its last commit.
NeverRewinds ==
    [][/\ \A t \in Channels : created' >= t /\ pc'[t] # "done" => watermark'[t] >= watermark[t]
       /\ \A c \in Clients : liveStart'[c] = liveStart[c] /\ attaching' # c =>
              closes[c] \subseteq closes'[c] /\ upto'[c] >= upto[c]]_vars

\* A live session consumes every confirmed minute up to the end of the model's
\* time, once polls stop failing, unless the session fails, is disconnected or
\* its feed froze on a conflict.
SessionCatchesUp ==
    <>[][\A t \in Channels : ~Disturb(t)]_vars =>
        \A c \in Clients :
            session[c] = "live" ~>
                session[c] # "live" \/ upto[c] = Horizon \/ status[feed] = "conflict"

\* docs/plans/2026-11-05-scrum-137-shared-live-ingress.md: a gap is at the first missing minute, later polls repair it.
\* A feed that waits in a gap never freezes while the provider corrected nothing.
GapsAreRepaired ==
    [][(\A m \in Minutes : offered[m] # "corrected") =>
          \A t \in Channels : status[t] = "gap" => status'[t] # "conflict"]_vars

===============================================================================
