---------------------------- MODULE EvaluationRuns ----------------------------
(***************************************************************************)
(* The evaluation_runs, evaluation_stream_progress, evaluation_event_sets  *)
(* and outcome_observations tables, and the functions of                   *)
(* persistence/evaluations.py that change them.  Each operator below is    *)
(* one UPDATE (or INSERT) with its WHERE clause as the guard; it says      *)
(* nothing of the other tables, so the modules that extend this one        *)
(* combine several of them into one transaction.                           *)
(*                                                                         *)
(* Data abstraction.  The pinned source is Chunks commit units (the last   *)
(* one is the flush at selected_end); a chunk emits zero or one eligible   *)
(* event.  A heartbeat is kept as its age, saturated just past the lease.  *)
(***************************************************************************)
EXTENDS Naturals, FiniteSets

CONSTANTS Evals,         \* evaluation identities
          Chunks,        \* commit units of one pinned execution
          LeaseTimeout,  \* LEASE_TIMEOUT, in clock ticks
          Unregistered   \* evaluations whose plan selects an unregistered outcome

ASSUME ChunksAssumption == Chunks \in Nat \ {0}
ASSUME LeaseAssumption == LeaseTimeout \in Nat
ASSUME UnregisteredAssumption == Unregistered \subseteq Evals

VARIABLES runStatus,   \* [Evals -> RunStatuses]; ABSENT is "no row"
          owner,       \* owner_token of the row, NoToken when NULL
          progress,    \* cursor_index, in committed chunks
          streamBars,  \* processed_bars of the evaluation's streams
          events,      \* eligible rows of evaluation_event_sets
          observed,    \* required observations already stored
          runAge,      \* age of heartbeat_at
          issued       \* owner tokens generated so far (uuid4: never reused)

runVars == <<runStatus, owner, progress, streamBars, events, observed, runAge, issued>>
outputVars == <<progress, streamBars, events, observed>>

NoToken == 0
RunStatuses == {"ABSENT", "CREATED", "RUNNING", "DETECTION_COMPLETED",
                "COMPLETED", "FAILED", "CANCELLED"}
RunTerminal == {"COMPLETED", "FAILED", "CANCELLED"}
Ages == 0..(LeaseTimeout + 1)

RunTypeOK ==
    /\ runStatus \in [Evals -> RunStatuses]
    /\ owner \in [Evals -> Nat]
    /\ progress \in [Evals -> 0..Chunks]
    /\ streamBars \in [Evals -> 0..Chunks]
    /\ events \in [Evals -> Nat]
    /\ observed \in [Evals -> Nat]
    /\ runAge \in [Evals -> Ages]
    /\ issued \in Nat

RunInit ==
    /\ runStatus = [e \in Evals |-> "ABSENT"]
    /\ owner = [e \in Evals |-> NoToken]
    /\ progress = [e \in Evals |-> 0]
    /\ streamBars = [e \in Evals |-> 0]
    /\ events = [e \in Evals |-> 0]
    /\ observed = [e \in Evals |-> 0]
    /\ runAge = [e \in Evals |-> 0]
    /\ issued = 0

RunRunning == {e \in Evals : runStatus[e] = "RUNNING"}

\* The WHERE clause every owner-only statement repeats.
Owns(e, t) == runStatus[e] = "RUNNING" /\ owner[e] = t

-------------------------------------------------------------------------------
InsertEvaluation(e) ==
    /\ runStatus[e] = "ABSENT"
    /\ runStatus' = [runStatus EXCEPT ![e] = "CREATED"]
    /\ UNCHANGED <<owner, outputVars, runAge, issued>>

\* The UPDATE needs a CREATED row and the unique active_slot to be free.
ClaimEvaluation(e) ==
    /\ runStatus[e] = "CREATED"
    /\ RunRunning = {}
    /\ issued' = issued + 1
    /\ runStatus' = [runStatus EXCEPT ![e] = "RUNNING"]
    /\ owner' = [owner EXCEPT ![e] = issued + 1]
    /\ runAge' = [runAge EXCEPT ![e] = 0]
    /\ UNCHANGED outputVars

\* One chunk becomes durable: event-set members, stream progress, cursor.
\* The fence is advance_evaluation's rowcount; it also refuses a cursor that
\* moves backwards, and the stream UPDATE a candle past the expected ones.
AdvanceEvaluation(e, t, cursor, emitted) ==
    /\ Owns(e, t)
    /\ progress[e] <= cursor
    /\ streamBars[e] < Chunks
    /\ progress' = [progress EXCEPT ![e] = cursor]
    /\ streamBars' = [streamBars EXCEPT ![e] = @ + 1]
    /\ events' = [events EXCEPT ![e] = @ + emitted]
    /\ runAge' = [runAge EXCEPT ![e] = 0]
    /\ UNCHANGED <<runStatus, owner, observed, issued>>

\* Mistake: observations are written without the closing fence.
StoreOutcomesUnfenced(e, t, count) ==
    /\ observed' = [observed EXCEPT ![e] = @ + count]
    /\ UNCHANGED <<runStatus, owner, progress, streamBars, events, runAge, issued>>

\* An outcome batch stores observations and then fences the whole batch with
\* an advance_evaluation that repeats the final cursor.
StoreOutcomes(e, t, count) ==
    /\ Owns(e, t)
    /\ progress[e] <= Chunks
    /\ observed' = [observed EXCEPT ![e] = @ + count]
    /\ progress' = [progress EXCEPT ![e] = Chunks]
    /\ runAge' = [runAge EXCEPT ![e] = 0]
    /\ UNCHANGED <<runStatus, owner, streamBars, events, issued>>

\* complete_evaluation_if_ready: every eligible event has its observations.
\* Mistake: outcomes nobody evaluated are taken for done.
DetectionSuffices(e) == TRUE

OutcomesReady(e) == observed[e] = events[e]

\* finish_detection and complete_evaluation_if_ready in one transaction.
FinishDetection(e, t) ==
    /\ Owns(e, t)
    /\ progress[e] = Chunks
    /\ streamBars[e] = Chunks
    /\ runStatus' = [runStatus EXCEPT
           ![e] = IF OutcomesReady(e) THEN "COMPLETED" ELSE "DETECTION_COMPLETED"]
    /\ owner' = [owner EXCEPT ![e] = NoToken]
    /\ runAge' = [runAge EXCEPT ![e] = 0]
    /\ UNCHANGED <<outputVars, issued>>

\* fail_evaluation / cancel_evaluation on a set of owned rows; output is kept.
EndRuns(S, status) ==
    /\ runStatus' = [e \in Evals |-> IF e \in S THEN status ELSE runStatus[e]]
    /\ owner' = [e \in Evals |-> IF e \in S THEN NoToken ELSE owner[e]]
    /\ runAge' = [e \in Evals |-> IF e \in S THEN 0 ELSE runAge[e]]
    /\ UNCHANGED <<outputVars, issued>>

\* A heartbeat writes the clock it read before its statement got the row: by
\* then that time has the age `read`.  touch_evaluation never moves it back.
TouchEvaluation(e, t, read) ==
    /\ runAge' = [runAge EXCEPT ![e] = IF Owns(e, t) /\ read < @ THEN read ELSE @]
    /\ UNCHANGED <<runStatus, owner, outputVars, issued>>

===============================================================================
