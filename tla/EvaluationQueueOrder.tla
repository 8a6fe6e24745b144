------------------------- MODULE EvaluationQueueOrder -------------------------
(***************************************************************************)
(* The evaluation service implements the serial queue its documents        *)
(* promise: `waiting` is the QUEUED rows, `ahead` their order by position, *)
(* `active` the row in the active slot and `result` the terminal status of *)
(* each job.  Explicit executions, leases, heartbeats and processes are    *)
(* stutters.                                                               *)
(***************************************************************************)
EXTENDS EvaluationService

waitingOrder == {p \in Waiting \X Waiting : position[p[1]] < position[p[2]]}

activeJob == IF JobRunning = {} THEN NoEval ELSE CHOOSE e \in JobRunning : TRUE

jobResult == [e \in Evals |-> IF jobStatus[e] \in JobTerminal THEN jobStatus[e] ELSE "none"]

Serial == INSTANCE SerialQueue WITH
    Jobs <- Evals, NoJob <- NoEval,
    waiting <- Waiting, ahead <- waitingOrder, active <- activeJob, result <- jobResult,
    automatic <- automatic

\* "Exactly one evaluation executes at a time in queue order", and progression
\* stops after any end that is not a success: every step of the tables is a
\* step of the serial queue, whatever the interleaving.
ImplementsSerialQueue == Serial!Spec

===============================================================================
