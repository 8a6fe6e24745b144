--------------------------- MODULE EvaluationService ---------------------------
(***************************************************************************)
(* The processes that execute evaluations: the default worker              *)
(* (run_scheduler_once in a loop) and the explicit `--run-id` worker, both *)
(* around execute_evaluation, with the HTTP clients of the queue and time. *)
(*                                                                         *)
(* A process runs one transaction of execute_evaluation at a time.  Its    *)
(* stop and lease checks happen when the transaction opens, its writes     *)
(* when it commits, and every other actor may step in between: that is     *)
(* what PostgreSQL allows, and SQLite's BEGIN IMMEDIATE allows less.       *)
(***************************************************************************)
EXTENDS EvaluationQueue

CONSTANTS Workers,  \* worker processes
          NoEval    \* "this process executes nothing"

ASSUME NoEvalAssumption == NoEval \notin Evals

VARIABLES pc,        \* where each process is
          mine,      \* the evaluation it executes
          token,     \* the owner token it was given
          explicit,  \* started with --run-id
          cursor,    \* clock.index of its own SimulationClock, in chunks
          stopping   \* SIGTERM/SIGINT received

procVars == <<pc, mine, token, explicit, cursor, stopping>>
vars == <<runVars, jobVars, queueVars, procVars>>

(***************************************************************************)
(* idle      the scheduler loop, between polls                             *)
(* validate  claimed; execute_evaluation has not yet checked its token     *)
(* ready     between transactions                                          *)
(* chunk, batch, closing   a candle chunk, an outcome batch or the         *)
(*           finishing transaction is open                                 *)
(* touch     committed; the main thread's own touch_job comes next         *)
(* stopped, failed   unwinding from EvaluationStopped or any other error   *)
(* receipt   execute_evaluation is over, finish_job comes next             *)
(* down      no process                                                    *)
(***************************************************************************)
Open == {"chunk", "batch", "closing"}
Executing == {"ready", "touch"} \cup Open
Unwinding == {"stopped", "failed"}
Busy == {"validate", "receipt"} \cup Executing \cup Unwinding
PcValues == {"idle", "down"} \cup Busy

ServiceTypeOK ==
    /\ pc \in [Workers -> PcValues]
    /\ mine \in [Workers -> Evals \cup {NoEval}]
    /\ token \in [Workers -> Nat]
    /\ explicit \in [Workers -> BOOLEAN]
    /\ cursor \in [Workers -> 0..Chunks]
    /\ stopping \in [Workers -> BOOLEAN]
    /\ \A w \in Workers : pc[w] \in Busy => mine[w] \in Evals

\* Type correctness of the tables (the CHECK constraints' value sets) and of
\* the processes; a busy process always works on some evaluation.
TypeOK == RunTypeOK /\ QueueTypeOK /\ ServiceTypeOK

Init ==
    /\ RunInit
    /\ QueueInit
    /\ pc = [w \in Workers |-> "down"]
    /\ mine = [w \in Workers |-> NoEval]
    /\ token = [w \in Workers |-> NoToken]
    /\ explicit = [w \in Workers |-> FALSE]
    /\ cursor = [w \in Workers |-> 0]
    /\ stopping = [w \in Workers |-> FALSE]

\* The process moves on without touching what it knows.
Goto(w, label) ==
    /\ pc' = [pc EXCEPT ![w] = label]
    /\ UNCHANGED <<mine, token, explicit, cursor, stopping>>

\* The process begins (or ends, with NoEval) an execution.
Take(w, label, e, t, direct) ==
    /\ pc' = [pc EXCEPT ![w] = label]
    /\ mine' = [mine EXCEPT ![w] = e]
    /\ token' = [token EXCEPT ![w] = t]
    /\ explicit' = [explicit EXCEPT ![w] = direct]
    /\ cursor' = [cursor EXCEPT ![w] = 0]
    /\ stopping' = [stopping EXCEPT ![w] = IF label = "down" THEN FALSE ELSE @]

Leave(w, label) == Take(w, label, NoEval, NoToken, FALSE)

\* Mistake: the process forgets what it executed before it wrote the receipt.
AfterRunForgetful(w) == Leave(w, IF explicit[w] THEN "down" ELSE "receipt")

\* An explicit process has no job and no receipt: it simply exits.
AfterRun(w) == IF explicit[w] THEN Leave(w, "down") ELSE Goto(w, "receipt")

\* on_commit: the scheduler's committed() touches the job in the main thread.
AfterCommit(w) == IF explicit[w] THEN "ready" ELSE "touch"

\* should_stop(): the signal, or (queued) a job that was stopped or taken away.
StopSeen(w) ==
    \/ stopping[w]
    \/ /\ ~explicit[w]
       /\ \/ ~HoldsJob(mine[w], token[w])
          \/ stopRequested[mine[w]]

-------------------------------------------------------------------------------
(* The scheduler loop.                                                     *)

\* recover_stale and claim_next_job are one transaction; whatever recovery
\* finds leaves the queue paused, so nothing can be claimed after it.
PollRecover(w) ==
    /\ pc[w] = "idle" /\ ~stopping[w]
    /\ RecoverStale
    /\ UNCHANGED procVars

PollReject(w) ==
    /\ pc[w] = "idle" /\ ~stopping[w]
    /\ StaleJobs \cup Orphans = {}
    /\ \E e \in Evals : RejectHead(e)
    /\ UNCHANGED procVars

PollClaim(w) ==
    /\ pc[w] = "idle" /\ ~stopping[w]
    /\ StaleJobs \cup Orphans = {}
    /\ \E e \in Evals : ClaimHead(e) /\ Take(w, "validate", e, issued + 1, FALSE)

\* The token is checked again outside the try block: a failure there ends the
\* execution without any termination record.
Validate(w) ==
    /\ pc[w] = "validate"
    /\ Goto(w, IF Owns(mine[w], token[w]) THEN "ready" ELSE "receipt")
    /\ UNCHANGED <<runVars, jobVars, queueVars>>

\* finish_job; when the run still executes (its termination record was lost)
\* it raises and the process dies.
Receipt(w) ==
    /\ pc[w] = "receipt"
    /\ \/ /\ HoldsJob(mine[w], token[w])
          /\ FinishJob(mine[w])
          /\ Leave(w, "idle")
       \/ /\ ~HoldsJob(mine[w], token[w])
          /\ Leave(w, "idle")
          /\ UNCHANGED <<runVars, jobVars, queueVars>>
       \/ /\ HoldsJob(mine[w], token[w])
          /\ runStatus[mine[w]] = "RUNNING"
          /\ Leave(w, "down")
          /\ UNCHANGED <<runVars, jobVars, queueVars>>

\* The loop ends on a signal and pauses the queue on its way out.
ExitLoop(w) ==
    /\ pc[w] = "idle" /\ stopping[w]
    /\ SetAutomatic(FALSE)
    /\ Leave(w, "down")

-------------------------------------------------------------------------------
(* execute_evaluation.                                                     *)

\* `--run-id`: the claim is rolled back when the evaluation has a job.
ExplicitStart(w) ==
    /\ pc[w] = "down"
    /\ \E e \in Evals :
           /\ jobStatus[e] = "NONE"
           /\ ClaimEvaluation(e)
           /\ Take(w, "ready", e, issued + 1, TRUE)
    /\ UNCHANGED <<jobVars, queueVars>>

BeginChunk(w) ==
    /\ pc[w] = "ready" /\ cursor[w] < Chunks /\ ~StopSeen(w)
    /\ Goto(w, "chunk")
    /\ UNCHANGED <<runVars, jobVars, queueVars>>

\* Mistake: the clock is not advanced, so the chunk is processed again.
CommitChunkAgain(w) ==
    /\ pc[w] = "chunk"
    /\ \E emitted \in {0, 1} : AdvanceEvaluation(mine[w], token[w], cursor[w], emitted)
    /\ Goto(w, "ready")
    /\ UNCHANGED <<jobVars, queueVars>>

\* The last chunk is the flush at selected_end, which calls no on_commit.
CommitChunk(w) ==
    /\ pc[w] = "chunk"
    /\ \E emitted \in {0, 1} : AdvanceEvaluation(mine[w], token[w], cursor[w] + 1, emitted)
    /\ pc' = [pc EXCEPT ![w] = IF cursor[w] + 1 = Chunks THEN "ready" ELSE AfterCommit(w)]
    /\ cursor' = [cursor EXCEPT ![w] = @ + 1]
    /\ UNCHANGED <<jobVars, queueVars, mine, token, explicit, stopping>>

\* The outcome reader finds an eligible event not evaluated yet; selections
\* of unregistered algorithms are skipped.
HasOutcomeTask(e) == e \notin Unregistered /\ observed[e] < events[e]

BeginBatch(w) ==
    /\ pc[w] = "ready" /\ cursor[w] = Chunks /\ ~StopSeen(w)
    /\ HasOutcomeTask(mine[w])
    /\ Goto(w, "batch")
    /\ UNCHANGED <<runVars, jobVars, queueVars>>

CommitBatch(w) ==
    /\ pc[w] = "batch"
    /\ StoreOutcomes(mine[w], token[w], 1)
    /\ Goto(w, AfterCommit(w))
    /\ UNCHANGED <<jobVars, queueVars>>

BeginFinish(w) ==
    /\ pc[w] = "ready" /\ cursor[w] = Chunks /\ ~StopSeen(w)
    /\ ~HasOutcomeTask(mine[w])
    /\ Goto(w, "closing")
    /\ UNCHANGED <<runVars, jobVars, queueVars>>

CommitFinish(w) ==
    /\ pc[w] = "closing"
    /\ FinishDetection(mine[w], token[w])
    /\ AfterRun(w)
    /\ UNCHANGED <<jobVars, queueVars>>

\* committed(): the main thread refreshes its lease after a commit.
TouchAfterCommit(w) ==
    /\ pc[w] = "touch"
    /\ \E read \in Ages : TouchJob(mine[w], token[w], read)
    /\ Goto(w, "ready")

\* should_stop is asked between transactions and, inside a chunk or a batch,
\* before each candle and each task; the open transaction is rolled back.
StopExecution(w) ==
    /\ pc[w] \in {"ready", "chunk", "batch"}
    /\ StopSeen(w)
    /\ Goto(w, "stopped")
    /\ UNCHANGED <<runVars, jobVars, queueVars>>

\* Any other exception: a fence that found another owner, a differing build or
\* source, a detector error, the database.
FailExecution(w) ==
    /\ pc[w] \in Executing
    /\ Goto(w, "failed")
    /\ UNCHANGED <<runVars, jobVars, queueVars>>

\* Mistake: the current row is not consulted.
TerminateBlindly(w) ==
    /\ pc[w] \in Unwinding
    /\ EndRuns({mine[w]}, IF pc[w] = "stopped" THEN "CANCELLED" ELSE "FAILED")
    /\ AfterRun(w)
    /\ UNCHANGED <<jobVars, queueVars>>

\* The handler ends the run only if this process still owns it.
Terminate(w) ==
    /\ pc[w] \in Unwinding
    /\ LET e == mine[w] IN
       EndRuns(IF Owns(e, token[w]) THEN {e} ELSE {},
               IF pc[w] = "stopped" THEN "CANCELLED" ELSE "FAILED")
    /\ AfterRun(w)
    /\ UNCHANGED <<jobVars, queueVars>>

\* The termination transaction itself fails.
TerminationLost(w) ==
    /\ pc[w] \in Unwinding
    /\ AfterRun(w)
    /\ UNCHANGED <<runVars, jobVars, queueVars>>

\* The heartbeat thread: scheduler's touch_job, or touch_evaluation.
Heartbeat(w) ==
    /\ pc[w] \in {"validate"} \cup Executing \cup Unwinding
    /\ \E read \in Ages :
          \/ ~explicit[w] /\ TouchJob(mine[w], token[w], read)
          \/ /\ explicit[w]
             /\ TouchEvaluation(mine[w], token[w], read)
             /\ UNCHANGED <<jobVars, queueVars>>
    /\ UNCHANGED procVars

-------------------------------------------------------------------------------
(* The environment: processes, clients and time.                           *)

StartService(w) ==
    /\ pc[w] = "down"
    /\ Leave(w, "idle")
    /\ UNCHANGED <<runVars, jobVars, queueVars>>

Crash(w) ==
    /\ pc[w] # "down"
    /\ Leave(w, "down")
    /\ UNCHANGED <<runVars, jobVars, queueVars>>

Signal(w) ==
    /\ pc[w] # "down" /\ ~stopping[w]
    /\ stopping' = [stopping EXCEPT ![w] = TRUE]
    /\ UNCHANGED <<runVars, jobVars, queueVars, pc, mine, token, explicit, cursor>>

Client ==
    /\ \/ \E e \in Evals : CreateRun(e) \/ EnqueueEvaluation(e) \/ SubmitJob(e) \/ CancelJob(e)
       \/ \E enabled \in BOOLEAN : SetAutomatic(enabled)
       \/ ReorderWaiting
    /\ UNCHANGED procVars

\* Leases are only ever compared with LEASE_TIMEOUT, so ages saturate past it.
Older(age) == IF age > LeaseTimeout THEN age ELSE age + 1

Tick ==
    /\ runAge' = [e \in Evals |-> IF e \in RunRunning THEN Older(runAge[e]) ELSE runAge[e]]
    /\ jobAge' = [e \in Evals |-> IF e \in JobRunning THEN Older(jobAge[e]) ELSE jobAge[e]]
    /\ UNCHANGED <<runStatus, owner, outputVars, issued, jobStatus, position, lease,
                   stopRequested, queueVars, procVars>>

Poll(w) == PollRecover(w) \/ PollReject(w) \/ PollClaim(w)

\* What a live process does next by itself.
Work(w) ==
    \/ Validate(w) \/ BeginChunk(w) \/ CommitChunk(w) \/ BeginBatch(w) \/ CommitBatch(w)
    \/ BeginFinish(w) \/ CommitFinish(w) \/ TouchAfterCommit(w) \/ StopExecution(w)
    \/ FailExecution(w) \/ Terminate(w) \/ TerminationLost(w) \/ Receipt(w) \/ ExitLoop(w)

Next ==
    \/ \E w \in Workers : Poll(w) \/ Work(w) \/ ExplicitStart(w) \/ Heartbeat(w)
                            \/ StartService(w) \/ Crash(w) \/ Signal(w)
    \/ Client
    \/ Tick

Spec == Init /\ [][Next]_vars

\* A live process keeps taking its own steps, and time passes; nobody promises
\* restarts, heartbeats or operator actions.
FairSpec ==
    /\ Spec
    /\ WF_vars(Tick)
    /\ \A w \in Workers : WF_vars(Poll(w)) /\ WF_vars(Work(w))

-------------------------------------------------------------------------------
(* Safety.                                                                 *)

\* At most one evaluation executes and at most one job is active; owner and
\* lease tokens exist exactly while their row is RUNNING.
OneExecution ==
    /\ \A e, f \in RunRunning : e = f
    /\ \A e, f \in JobRunning : e = f
    /\ \A e \in Evals : owner[e] # NoToken <=> e \in RunRunning
    /\ \A e \in Evals : lease[e] # NoToken <=> e \in JobRunning

\* A job and its run are owned together: a waiting job's run is untouched, an
\* active job's run was claimed under the same token, and an execution whose
\* evaluation has a job is that job's own.
JobOwnsRun ==
    \A e \in Evals :
        /\ e \in Waiting => runStatus[e] = "CREATED"
        /\ e \in JobRunning => runStatus[e] \notin {"ABSENT", "CREATED"}
        /\ e \in JobRunning \cap RunRunning => lease[e] = owner[e]
        /\ e \in RunRunning /\ jobStatus[e] # "NONE" => e \in JobRunning

\* The two-table ownership protocol of claim_next_job, enqueue_evaluation and
\* execute_evaluation: the branches that report a "job lease [that] differs
\* from its active analytical owner" or an evaluation "started outside its
\* queue owner" are never taken, whatever workers, explicit processes,
\* recovery and clients interleave.
OwnershipInv == OneExecution /\ JobOwnsRun

\* finish_job and recovery write the receipt the run deserves: no job is
\* COMPLETED, CANCELLED or FAILED unless its run ended that way.
JobAgreesWithRun ==
    \A e \in Evals :
        /\ jobStatus[e] = "COMPLETED" => runStatus[e] = "COMPLETED"
        /\ jobStatus[e] = "CANCELLED" => runStatus[e] = "CANCELLED"
        /\ jobStatus[e] = "FAILED" => runStatus[e] \in {"FAILED", "DETECTION_COMPLETED"}

\* A COMPLETED evaluation holds its whole pinned source and one observation of
\* every eligible event, through any crash, stop or change of owner.
CompletedIsWhole ==
    \A e \in Evals : runStatus[e] = "COMPLETED" =>
        progress[e] = Chunks /\ streamBars[e] = Chunks /\ observed[e] = events[e]

\* Candles are counted exactly once per committed chunk, and a process that
\* still owns its run agrees with the table about how far it is.
ChunksExactlyOnce ==
    /\ \A e \in Evals : streamBars[e] = progress[e] /\ events[e] <= progress[e]
    /\ \A w \in Workers : pc[w] \in Executing /\ Owns(mine[w], token[w])
                             => cursor[w] = progress[mine[w]]

\* While a stop of the active job is pending the queue stays paused, so the
\* operator's stop is never followed by the next job by itself.
StopKeepsQueuePaused == \A e \in JobRunning : stopRequested[e] => ~automatic

\* Output of an evaluation changes only while it executes: a process that lost
\* its lease adds nothing to the partial output recovery retained.
FrozenOutput ==
    [][\A e \in Evals : runStatus[e] # "RUNNING" =>
          /\ progress'[e] = progress[e] /\ streamBars'[e] = streamBars[e]
          /\ events'[e] = events[e] /\ observed'[e] = observed[e]]_vars

\* An ended run or job is never relabelled, by late unwinding, by recovery or
\* by a second receipt.
TerminalForever ==
    [][\A e \in Evals :
          /\ runStatus[e] \in RunTerminal => runStatus'[e] = runStatus[e]
          /\ jobStatus[e] \in JobTerminal => jobStatus'[e] = jobStatus[e]]_vars

\* A job that leaves the active slot without completing, or that recovery
\* takes away, leaves the queue paused.
PauseAfterAbnormalEnd ==
    [][\A e \in JobRunning : jobStatus'[e] \in {"CANCELLED", "FAILED"} => ~automatic']_vars

\* An execution ends CANCELLED only because somebody asked for it: its job was
\* stopped or the process executing it was signalled.
CancelledOnRequest ==
    [][\A e \in RunRunning : runStatus'[e] = "CANCELLED" =>
          \/ stopRequested[e]
          \/ \E w \in Workers : stopping[w] /\ mine[w] = e /\ token[w] = owner[e]]_vars

-------------------------------------------------------------------------------
(* Liveness, for a service whose worker w is eventually always up.         *)

StaysUp(w) == <>[](pc[w] # "down")

\* Nothing stalls, through crashes at any step.  Every execution ends: by its
\* own process, or by expiry of the lease it left behind when that process
\* died.  Every active job gets its receipt.  And an automatic queue with a
\* waiting job starts a job, or it is paused or emptied.
ServiceKeepsMoving ==
    (\E w \in Workers : StaysUp(w)) =>
        /\ \A e \in Evals : /\ e \in RunRunning ~> e \notin RunRunning
                            /\ e \in JobRunning ~> e \notin JobRunning
        /\ (automatic /\ Waiting # {} /\ JobRunning = {})
               ~> (~automatic \/ Waiting = {} \/ JobRunning # {})

-------------------------------------------------------------------------------
(* What docs/core/mvp-scope.md says of a manual stop.                      *)

\* "A manual stop marks the active job CANCELLED": a job whose stop was
\* accepted does not end COMPLETED.
StoppedJobIsNotCompleted ==
    \A e \in Evals : jobStatus[e] = "COMPLETED" => ~stopRequested[e]

===============================================================================
