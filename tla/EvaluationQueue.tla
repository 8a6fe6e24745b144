---------------------------- MODULE EvaluationQueue ----------------------------
(***************************************************************************)
(* The evaluation_jobs and evaluation_queue tables and the operations of   *)
(* application/evaluation_scheduler.py on them.  Each operator is one      *)
(* database transaction: every one of them but touch_job begins with       *)
(* lock_queue, whose UPDATE of the singleton row serializes them.          *)
(*                                                                         *)
(* evaluation_jobs.evaluation_id is unique, so a job is named by its       *)
(* evaluation, and NONE is "no job row".                                   *)
(***************************************************************************)
EXTENDS EvaluationRuns, Functions

CONSTANTS MaxWaiting,   \* cap on QUEUED jobs (1000 in the code)
          MaxPosition   \* bound of the model on next_position (none in the code)

ASSUME EvalsAssumption == IsFiniteSet(Evals)
ASSUME QueueBoundsAssumption == MaxWaiting \in Nat /\ MaxPosition \in Nat

VARIABLES jobStatus,      \* [Evals -> JobStatuses]
          position,       \* position of the job
          lease,          \* lease_token of the job, NoToken when NULL
          stopRequested,  \* stop_requested of the job
          jobAge,         \* age of the job's heartbeat_at
          automatic,      \* automatic progression of the queue
          nextPosition    \* next_position of the queue

jobVars == <<jobStatus, position, lease, stopRequested, jobAge>>
queueVars == <<automatic, nextPosition>>

JobStatuses == {"NONE", "QUEUED", "RUNNING", "COMPLETED", "CANCELLED", "FAILED"}
JobTerminal == {"COMPLETED", "CANCELLED", "FAILED"}

QueueTypeOK ==
    /\ jobStatus \in [Evals -> JobStatuses]
    /\ position \in [Evals -> Nat]
    /\ lease \in [Evals -> Nat]
    /\ stopRequested \in [Evals -> BOOLEAN]
    /\ jobAge \in [Evals -> Ages]
    /\ automatic \in BOOLEAN
    /\ nextPosition \in Nat

QueueInit ==
    /\ jobStatus = [e \in Evals |-> "NONE"]
    /\ position = [e \in Evals |-> 0]
    /\ lease = [e \in Evals |-> NoToken]
    /\ stopRequested = [e \in Evals |-> FALSE]
    /\ jobAge = [e \in Evals |-> 0]
    /\ automatic = FALSE
    /\ nextPosition = 0

Waiting == {e \in Evals : jobStatus[e] = "QUEUED"}
JobRunning == {e \in Evals : jobStatus[e] = "RUNNING"}
HoldsJob(e, t) == jobStatus[e] = "RUNNING" /\ lease[e] = t

\* Mistake: whoever must pause the queue forgets to.
KeepAutomatic == UNCHANGED automatic

PauseAutomatic == automatic' = FALSE

-------------------------------------------------------------------------------
(* Submission and operator controls.                                       *)

\* The part of enqueue_evaluation after its checks on the run itself.
InsertJob(e) ==
    /\ e \notin Unregistered
    /\ jobStatus[e] = "NONE"
    /\ Cardinality(Waiting) < MaxWaiting
    /\ nextPosition < MaxPosition
    /\ jobStatus' = [jobStatus EXCEPT ![e] = "QUEUED"]
    /\ position' = [position EXCEPT ![e] = nextPosition]
    /\ nextPosition' = nextPosition + 1
    /\ UNCHANGED <<lease, stopRequested, jobAge, automatic>>

\* create_evaluation_run alone (POST /evaluation-runs).
CreateRun(e) == InsertEvaluation(e) /\ UNCHANGED <<jobVars, queueVars>>

\* Mistake: the lifecycle row is not read again under the lock.
EnqueueAnyStatus(e) == runStatus[e] # "ABSENT" /\ InsertJob(e) /\ UNCHANGED runVars

EnqueueEvaluation(e) == runStatus[e] = "CREATED" /\ InsertJob(e) /\ UNCHANGED runVars

\* create_evaluation_run and enqueue_evaluation in one transaction.
SubmitJob(e) == InsertEvaluation(e) /\ InsertJob(e)

SetAutomatic(enabled) ==
    /\ enabled => \A e \in JobRunning : ~stopRequested[e]
    /\ automatic' = enabled
    /\ UNCHANGED <<runVars, jobVars, nextPosition>>

\* The order names every waiting job exactly once and gets fresh positions.
ReorderWaiting ==
    LET n == Cardinality(Waiting) IN
    /\ nextPosition + n <= MaxPosition
    /\ \E place \in Bijection(Waiting, nextPosition..(nextPosition + n - 1)) :
           position' = [e \in Evals |-> IF e \in Waiting THEN place[e] ELSE position[e]]
    /\ nextPosition' = nextPosition + n
    /\ UNCHANGED <<runVars, jobStatus, lease, stopRequested, jobAge, automatic>>

CancelRunning(e) ==
    /\ jobStatus[e] = "RUNNING"
    /\ PauseAutomatic
    /\ stopRequested' = [stopRequested EXCEPT ![e] = TRUE]
    /\ UNCHANGED <<runVars, jobStatus, position, lease, jobAge, nextPosition>>

CancelQueued(e) ==
    /\ jobStatus[e] = "QUEUED"
    /\ runStatus[e] = "CREATED"
    /\ EndRuns({e}, "CANCELLED")
    /\ jobStatus' = [jobStatus EXCEPT ![e] = "CANCELLED"]
    /\ UNCHANGED <<position, lease, stopRequested, jobAge, queueVars>>

CancelJob(e) == CancelRunning(e) \/ CancelQueued(e)

-------------------------------------------------------------------------------
(* Claiming: what claim_next_job does with the head of the queue.          *)

\* Mistake: positions are ignored.
MayStartAny(e) == automatic /\ RunRunning = {} /\ JobRunning = {} /\ e \in Waiting

\* Only when nothing executes may the queue start its first waiting job.
MayStart(e) ==
    /\ automatic
    /\ RunRunning = {}
    /\ JobRunning = {}
    /\ e \in Waiting
    /\ \A f \in Waiting : position[e] <= position[f]

\* Preflight: the frozen input cannot be read (or the run is no longer fresh).
RejectHead(e) ==
    /\ MayStart(e)
    /\ EndRuns({e} \cap {f \in Evals : runStatus[f] = "CREATED"}, "FAILED")
    /\ jobStatus' = [jobStatus EXCEPT ![e] = "FAILED"]
    /\ PauseAutomatic
    /\ UNCHANGED <<position, lease, stopRequested, jobAge, nextPosition>>

ClaimHead(e) ==
    /\ MayStart(e)
    /\ ClaimEvaluation(e)
    /\ jobStatus' = [jobStatus EXCEPT ![e] = "RUNNING"]
    /\ lease' = [lease EXCEPT ![e] = issued + 1]
    /\ jobAge' = [jobAge EXCEPT ![e] = 0]
    /\ UNCHANGED <<position, stopRequested, queueVars>>

\* Both rows are refreshed, the run only through the lease of its job; here a
\* clock that was read long ago moves both heartbeats back.
TouchJob(e, t, read) ==
    /\ jobAge' = [jobAge EXCEPT ![e] = IF HoldsJob(e, t) THEN read ELSE @]
    /\ runAge' = [runAge EXCEPT ![e] = IF HoldsJob(e, t) /\ Owns(e, t) THEN read ELSE @]
    /\ UNCHANGED <<runStatus, owner, outputVars, issued>>
    /\ UNCHANGED <<jobStatus, position, lease, stopRequested, queueVars>>

-------------------------------------------------------------------------------
(* Receipts: the terminal status of a job is read from its run.            *)

JobEnd(status) == IF status \in {"COMPLETED", "CANCELLED"} THEN status ELSE "FAILED"

\* Raises (no step) while the run still executes.
FinishJob(e) ==
    /\ jobStatus[e] = "RUNNING"
    /\ runStatus[e] # "RUNNING"
    /\ jobStatus' = [jobStatus EXCEPT ![e] = JobEnd(runStatus[e])]
    /\ lease' = [lease EXCEPT ![e] = NoToken]
    /\ jobAge' = [jobAge EXCEPT ![e] = 0]
    /\ IF JobEnd(runStatus[e]) = "COMPLETED" THEN UNCHANGED automatic ELSE PauseAutomatic
    /\ UNCHANGED <<runVars, position, stopRequested, nextPosition>>

-------------------------------------------------------------------------------
(* Recovery of expired leases.                                             *)

StaleJobs == {e \in JobRunning : jobAge[e] > LeaseTimeout}

\* Mistake: only queued executions are recovered.
NoOrphans == {e \in RunRunning : FALSE}

\* Executions no RUNNING job accounts for.
Orphans == {e \in RunRunning : runAge[e] > LeaseTimeout /\ jobStatus[e] # "RUNNING"}

\* Mistake: a stale job is released while its execution is left running.
OrphansOnly == Orphans

\* The executions recovery fences and fails.
ExpiredRuns == (StaleJobs \cap RunRunning) \cup Orphans

\* What recovery leaves of one job; the run of a stale job that still
\* executes is failed first and the receipt is read after that.
RecoveredJob(e) ==
    CASE e \in StaleJobs -> JobEnd(IF e \in RunRunning THEN "FAILED" ELSE runStatus[e])
      [] e \in Orphans /\ jobStatus[e] = "QUEUED" -> "FAILED"
      [] OTHER -> jobStatus[e]

RecoverStale ==
    /\ StaleJobs \cup Orphans # {}
    /\ EndRuns(ExpiredRuns, "FAILED")
    /\ jobStatus' = [e \in Evals |-> RecoveredJob(e)]
    /\ lease' = [e \in Evals |-> IF e \in StaleJobs THEN NoToken ELSE lease[e]]
    /\ jobAge' = [e \in Evals |-> IF e \in StaleJobs THEN 0 ELSE jobAge[e]]
    /\ PauseAutomatic
    /\ UNCHANGED <<position, stopRequested, nextPosition>>

===============================================================================
