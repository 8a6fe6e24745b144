------------------------ MODULE EvaluationServiceProofs ------------------------
(***************************************************************************)
(* Theorems about the evaluation service, for any sets of evaluations and  *)
(* workers and any bounds, and that it implements the serial queue.        *)
(***************************************************************************)
EXTENDS EvaluationQueueOrder, FiniteSetTheorems, TLAPS

-------------------------------------------------------------------------------
(* Types of the run tables under each statement.                           *)

LEMMA RunTypeInit == RunInit => RunTypeOK
BY ChunksAssumption, LeaseAssumption DEF RunInit, RunTypeOK, RunStatuses, Ages, NoToken

LEMMA RunTypeStable == RunTypeOK /\ UNCHANGED runVars => RunTypeOK'
BY DEF RunTypeOK, runVars

LEMMA InsertEvaluationType ==
    ASSUME RunTypeOK, NEW e \in Evals, InsertEvaluation(e) PROVE RunTypeOK'
BY DEF RunTypeOK, RunStatuses, InsertEvaluation, outputVars

LEMMA ClaimEvaluationType ==
    ASSUME RunTypeOK, NEW e \in Evals, ClaimEvaluation(e) PROVE RunTypeOK'
BY LeaseAssumption DEF RunTypeOK, RunStatuses, Ages, ClaimEvaluation, outputVars

LEMMA AdvanceEvaluationType ==
    ASSUME RunTypeOK, NEW e \in Evals, NEW t, NEW c \in 0..Chunks, NEW n \in {0, 1},
           AdvanceEvaluation(e, t, c, n)
    PROVE RunTypeOK'
BY LeaseAssumption, ChunksAssumption DEF RunTypeOK, Ages, AdvanceEvaluation

LEMMA StoreOutcomesType ==
    ASSUME RunTypeOK, NEW e \in Evals, NEW t, StoreOutcomes(e, t, 1) PROVE RunTypeOK'
BY LeaseAssumption, ChunksAssumption DEF RunTypeOK, Ages, StoreOutcomes

LEMMA FinishDetectionType ==
    ASSUME RunTypeOK, NEW e \in Evals, NEW t, FinishDetection(e, t) PROVE RunTypeOK'
BY LeaseAssumption
   DEF RunTypeOK, RunStatuses, Ages, FinishDetection, outputVars, NoToken

LEMMA EndRunsType ==
    ASSUME RunTypeOK, NEW S, NEW status \in RunStatuses, EndRuns(S, status)
    PROVE RunTypeOK'
BY LeaseAssumption DEF RunTypeOK, Ages, EndRuns, outputVars, NoToken

LEMMA TouchEvaluationType ==
    ASSUME RunTypeOK, NEW e \in Evals, NEW t, NEW read \in Ages, TouchEvaluation(e, t, read)
    PROVE  RunTypeOK'
BY LeaseAssumption DEF RunTypeOK, Ages, TouchEvaluation, outputVars

-------------------------------------------------------------------------------
(* Types of the job tables under each transaction.                         *)

LEMMA QueueTypeInit == ASSUME QueueInit PROVE QueueTypeOK
<1>1. automatic \in BOOLEAN
  BY DEF QueueInit
<1>2. stopRequested \in [Evals -> BOOLEAN]
  BY DEF QueueInit
<1> QED
  BY <1>1, <1>2, LeaseAssumption DEF QueueInit, QueueTypeOK, JobStatuses, Ages, NoToken

LEMMA QueueTypeStable == QueueTypeOK /\ UNCHANGED <<jobVars, queueVars>> => QueueTypeOK'
BY DEF QueueTypeOK, jobVars, queueVars

LEMMA InsertJobType == ASSUME QueueTypeOK, NEW e \in Evals, InsertJob(e) PROVE QueueTypeOK'
BY DEF QueueTypeOK, JobStatuses, InsertJob

LEMMA WaitingFinite == IsFiniteSet(Waiting) /\ Cardinality(Waiting) \in Nat
BY EvalsAssumption, FS_Subset, FS_CardinalityType DEF Waiting

LEMMA ReorderType == ASSUME QueueTypeOK, ReorderWaiting PROVE QueueTypeOK'
<1> DEFINE n == Cardinality(Waiting)
<1>1. n \in Nat /\ nextPosition \in Nat
  BY WaitingFinite DEF QueueTypeOK
<1>2. PICK place \in Bijection(Waiting, nextPosition..(nextPosition + n - 1)) :
          position' = [e \in Evals |-> IF e \in Waiting THEN place[e] ELSE position[e]]
  BY DEF ReorderWaiting
<1>3. \A e \in Waiting : place[e] \in Nat
  <2>1. place \in [Waiting -> nextPosition..(nextPosition + n - 1)]
    BY DEF Bijection, Injection
  <2> QED BY <2>1, <1>1
<1>4. position' \in [Evals -> Nat]
  BY <1>2, <1>3 DEF QueueTypeOK
<1>5. nextPosition' \in Nat
  BY <1>1 DEF ReorderWaiting
<1> QED BY <1>4, <1>5 DEF QueueTypeOK, ReorderWaiting

LEMMA SetAutomaticType ==
    ASSUME QueueTypeOK, NEW b \in BOOLEAN, SetAutomatic(b) PROVE QueueTypeOK'
BY DEF QueueTypeOK, SetAutomatic, jobVars

LEMMA CancelJobType == ASSUME QueueTypeOK, NEW e \in Evals, CancelJob(e) PROVE QueueTypeOK'
BY DEF QueueTypeOK, JobStatuses, CancelJob, CancelRunning, CancelQueued, PauseAutomatic, queueVars

LEMMA RejectHeadType == ASSUME QueueTypeOK, NEW e \in Evals, RejectHead(e) PROVE QueueTypeOK'
BY DEF QueueTypeOK, JobStatuses, RejectHead, PauseAutomatic

LEMMA ClaimHeadType ==
    ASSUME QueueTypeOK, issued \in Nat, NEW e \in Evals, ClaimHead(e) PROVE QueueTypeOK'
BY LeaseAssumption DEF QueueTypeOK, JobStatuses, Ages, ClaimHead, queueVars

LEMMA TouchJobType ==
    ASSUME RunTypeOK, QueueTypeOK, NEW e \in Evals, NEW t, NEW read \in Ages,
           TouchJob(e, t, read)
    PROVE  RunTypeOK' /\ QueueTypeOK'
<1>1. RunTypeOK'
  BY DEF RunTypeOK, TouchJob, outputVars
<1>2. QueueTypeOK'
  BY DEF QueueTypeOK, TouchJob, queueVars
<1> QED BY <1>1, <1>2

LEMMA JobEndType == \A status : JobEnd(status) \in JobTerminal
BY DEF JobEnd, JobTerminal

LEMMA FinishJobType == ASSUME QueueTypeOK, NEW e \in Evals, FinishJob(e) PROVE QueueTypeOK'
<1>1. automatic' \in BOOLEAN
  BY DEF QueueTypeOK, FinishJob, PauseAutomatic
<1>2. jobStatus' \in [Evals -> JobStatuses]
  BY JobEndType DEF QueueTypeOK, JobStatuses, JobTerminal, FinishJob
<1> QED
  BY <1>1, <1>2, LeaseAssumption DEF QueueTypeOK, Ages, FinishJob, NoToken

LEMMA RecoverStaleType == ASSUME QueueTypeOK, RecoverStale PROVE QueueTypeOK'
<1>1. \A e \in Evals : RecoveredJob(e) \in JobStatuses
  BY JobEndType DEF RecoveredJob, QueueTypeOK, JobStatuses, JobTerminal
<1>2. automatic' \in BOOLEAN
  BY DEF RecoverStale, PauseAutomatic
<1> QED
  BY <1>1, <1>2, LeaseAssumption DEF QueueTypeOK, Ages, RecoverStale, NoToken

-------------------------------------------------------------------------------
(* The processes.                                                          *)

\* A process that opened a chunk still has one to commit.
ChunkRoom == \A w \in Workers : pc[w] = "chunk" => cursor[w] < Chunks

ProcInv == ServiceTypeOK /\ ChunkRoom

LEMMA ProcInvInit == Init => ProcInv
BY ChunksAssumption
   DEF Init, ProcInv, ServiceTypeOK, ChunkRoom, PcValues, Busy, Executing, Open, Unwinding, NoToken

LEMMA ProcStable == ProcInv /\ UNCHANGED procVars => ProcInv'
BY DEF ProcInv, ServiceTypeOK, ChunkRoom, procVars

LEMMA GotoType ==
    ASSUME ProcInv, NEW w \in Workers, pc[w] \in Busy, NEW label \in PcValues,
           label = "chunk" => cursor[w] < Chunks,
           Goto(w, label)
    PROVE ProcInv'
BY DEF ProcInv, ServiceTypeOK, ChunkRoom, Goto

LEMMA TakeType ==
    ASSUME ProcInv, NEW w \in Workers, NEW label \in PcValues \ {"chunk"},
           NEW e \in Evals \cup {NoEval}, label \in Busy => e \in Evals,
           NEW t \in Nat, NEW b \in BOOLEAN, Take(w, label, e, t, b)
    PROVE ProcInv'
<1> USE DEF Take
<1>1. explicit' \in [Workers -> BOOLEAN]
  BY DEF ProcInv, ServiceTypeOK
<1>2. stopping' \in [Workers -> BOOLEAN]
  BY DEF ProcInv, ServiceTypeOK
<1>3. pc' \in [Workers -> PcValues]
  BY DEF ProcInv, ServiceTypeOK
<1>4. mine' \in [Workers -> Evals \cup {NoEval}] /\ token' \in [Workers -> Nat]
  BY DEF ProcInv, ServiceTypeOK
<1>5. cursor' \in [Workers -> 0..Chunks]
  BY ChunksAssumption DEF ProcInv, ServiceTypeOK
<1>6. \A v \in Workers : pc'[v] \in Busy => mine'[v] \in Evals
  BY DEF ProcInv, ServiceTypeOK
<1>7. ChunkRoom'
  BY DEF ProcInv, ServiceTypeOK, ChunkRoom
<1> QED BY <1>1, <1>2, <1>3, <1>4, <1>5, <1>6, <1>7 DEF ProcInv, ServiceTypeOK

LEMMA LeaveType ==
    ASSUME ProcInv, NEW w \in Workers, NEW label \in {"idle", "down"}, Leave(w, label)
    PROVE ProcInv'
<1>1. label \in PcValues \ {"chunk"} /\ label \notin Busy
  BY DEF PcValues, Busy, Executing, Open, Unwinding
<1>2. NoToken \in Nat
  BY DEF NoToken
<1> QED BY <1>1, <1>2, TakeType DEF Leave

LEMMA AfterRunType ==
    ASSUME ProcInv, NEW w \in Workers, pc[w] \in Busy, AfterRun(w) PROVE ProcInv'
<1>1. "receipt" \in PcValues
  BY DEF PcValues, Busy
<1>2. CASE explicit[w]
  BY <1>2, LeaveType DEF AfterRun
<1>3. CASE ~explicit[w]
  BY <1>1, <1>3, GotoType DEF AfterRun
<1> QED BY <1>2, <1>3

-------------------------------------------------------------------------------
(* Type correctness.                                                       *)

TypeInv == RunTypeOK /\ QueueTypeOK /\ ProcInv

LEMMA TablesTypeStable ==
    RunTypeOK /\ QueueTypeOK /\ UNCHANGED <<runVars, jobVars, queueVars>>
        => RunTypeOK' /\ QueueTypeOK'
<1> SUFFICES ASSUME RunTypeOK, QueueTypeOK, UNCHANGED <<runVars, jobVars, queueVars>>
             PROVE  RunTypeOK' /\ QueueTypeOK'
  OBVIOUS
<1>1. UNCHANGED runVars /\ UNCHANGED <<jobVars, queueVars>>
  OBVIOUS
<1> QED BY <1>1, RunTypeStable, QueueTypeStable

LEMMA PollType == ASSUME TypeInv, NEW w \in Workers, Poll(w) PROVE TypeInv'
<1> USE DEF TypeInv
<1>1. CASE PollRecover(w)
  <2>1. RunTypeOK'
    BY <1>1, EndRunsType DEF PollRecover, RecoverStale, RunStatuses
  <2> QED BY <1>1, <2>1, RecoverStaleType, ProcStable DEF PollRecover
<1>2. CASE PollReject(w)
  <2>1. PICK e \in Evals : RejectHead(e)
    BY <1>2 DEF PollReject
  <2>2. RunTypeOK'
    BY <2>1, EndRunsType DEF RejectHead, RunStatuses
  <2> QED BY <1>2, <2>1, <2>2, RejectHeadType, ProcStable DEF PollReject
<1>3. CASE PollClaim(w)
  <2>1. PICK e \in Evals : ClaimHead(e) /\ Take(w, "validate", e, issued + 1, FALSE)
    BY <1>3 DEF PollClaim
  <2>2. RunTypeOK'
    BY <2>1, ClaimEvaluationType DEF ClaimHead
  <2>3. issued \in Nat /\ issued + 1 \in Nat
    BY DEF RunTypeOK
  <2>4. "validate" \in PcValues \ {"chunk"}
    BY DEF PcValues, Busy
  <2>5. ProcInv'
    BY <2>1, <2>3, <2>4, TakeType
  <2> QED BY <2>1, <2>2, <2>3, <2>5, ClaimHeadType
<1> QED BY <1>1, <1>2, <1>3 DEF Poll

LEMMA WorkType == ASSUME TypeInv, NEW w \in Workers, Work(w) PROVE TypeInv'
<1> USE DEF TypeInv
<1> DEFINE e == mine[w]  t == token[w]
<1>b. pc[w] \in Busy => e \in Evals
  BY DEF ProcInv, ServiceTypeOK
<1>l. /\ {"validate", "ready", "touch", "chunk", "batch", "closing", "stopped", "failed",
          "receipt"} = Busy
      /\ Busy \subseteq PcValues
  BY DEF PcValues, Busy, Executing, Open, Unwinding
<1>c. cursor[w] \in 0..Chunks
  BY DEF ProcInv, ServiceTypeOK
<1>1. CASE Validate(w)
  BY <1>1, <1>l, GotoType, TablesTypeStable DEF Validate
<1>2. CASE BeginChunk(w)
  BY <1>2, <1>l, GotoType, TablesTypeStable DEF BeginChunk
<1>3. CASE CommitChunk(w)
  <2>1. pc[w] = "chunk" /\ e \in Evals /\ cursor[w] < Chunks
    BY <1>3, <1>b, <1>l DEF CommitChunk, ProcInv, ChunkRoom
  <2>2. cursor[w] + 1 \in 0..Chunks
    BY <2>1, <1>c, ChunksAssumption
  <2>3. RunTypeOK'
    BY <1>3, <2>1, <2>2, AdvanceEvaluationType DEF CommitChunk
  <2>4. QueueTypeOK'
    BY <1>3, QueueTypeStable DEF CommitChunk
  <2>5. pc' = [pc EXCEPT ![w] = pc'[w]] /\ pc'[w] \in {"ready", "touch"}
    BY <1>3 DEF CommitChunk, AfterCommit, ProcInv, ServiceTypeOK
  <2>6. cursor' = [cursor EXCEPT ![w] = cursor[w] + 1]
    BY <1>3 DEF CommitChunk
  <2>7. UNCHANGED <<mine, token, explicit, stopping>>
    BY <1>3 DEF CommitChunk
  <2>8. ChunkRoom'
    BY <2>5, <2>6 DEF ProcInv, ChunkRoom, ServiceTypeOK
  <2>9. ServiceTypeOK'
    <3>1. pc' \in [Workers -> PcValues] /\ cursor' \in [Workers -> 0..Chunks]
      BY <2>2, <2>5, <2>6, <1>l DEF ProcInv, ServiceTypeOK
    <3>2. \A v \in Workers : pc'[v] \in Busy => mine'[v] \in Evals
      BY <2>1, <2>5, <2>7, <1>l DEF ProcInv, ServiceTypeOK
    <3> QED BY <3>1, <3>2, <2>7 DEF ProcInv, ServiceTypeOK
  <2> QED BY <2>3, <2>4, <2>8, <2>9 DEF ProcInv
<1>4. CASE BeginBatch(w)
  BY <1>4, <1>l, GotoType, TablesTypeStable DEF BeginBatch
<1>5. CASE CommitBatch(w)
  <2>1. AfterCommit(w) \in {"ready", "touch"}
    BY DEF AfterCommit
  <2>2. RunTypeOK'
    BY <1>5, <1>b, <1>l, StoreOutcomesType DEF CommitBatch
  <2> QED BY <1>5, <1>l, <2>1, <2>2, GotoType, QueueTypeStable DEF CommitBatch
<1>6. CASE BeginFinish(w)
  BY <1>6, <1>l, GotoType, TablesTypeStable DEF BeginFinish
<1>7. CASE CommitFinish(w)
  <2>1. RunTypeOK'
    BY <1>7, <1>b, <1>l, FinishDetectionType DEF CommitFinish
  <2> QED BY <1>7, <1>l, <2>1, AfterRunType, QueueTypeStable DEF CommitFinish
<1>8. CASE TouchAfterCommit(w)
  <2>1. PICK read \in Ages : TouchJob(mine[w], token[w], read)
    BY <1>8 DEF TouchAfterCommit
  <2>2. RunTypeOK' /\ QueueTypeOK'
    BY <1>8, <1>b, <1>l, <2>1, TouchJobType DEF TouchAfterCommit
  <2> QED BY <1>8, <1>l, <2>2, GotoType DEF TouchAfterCommit
<1>9. CASE StopExecution(w)
  BY <1>9, <1>l, GotoType, TablesTypeStable DEF StopExecution
<1>10. CASE FailExecution(w)
  BY <1>10, <1>l, GotoType, TablesTypeStable DEF FailExecution, Executing, Open
<1>11. CASE Terminate(w)
  <2>1. RunTypeOK'
    BY <1>11, EndRunsType DEF Terminate, RunStatuses
  <2> QED BY <1>11, <1>l, <2>1, AfterRunType, QueueTypeStable DEF Terminate, Unwinding
<1>12. CASE TerminationLost(w)
  BY <1>12, <1>l, AfterRunType, TablesTypeStable DEF TerminationLost, Unwinding
<1>13. CASE Receipt(w)
  <2>1. CASE FinishJob(e) /\ Leave(w, "idle")
    <3>1. RunTypeOK'
      BY <2>1, RunTypeStable DEF FinishJob
    <3> QED BY <1>13, <1>b, <1>l, <2>1, <3>1, FinishJobType, LeaveType DEF Receipt
  <2>2. CASE (Leave(w, "idle") \/ Leave(w, "down")) /\ UNCHANGED <<runVars, jobVars, queueVars>>
    BY <2>2, LeaveType, TablesTypeStable
  <2> QED BY <1>13, <2>1, <2>2 DEF Receipt
<1>14. CASE ExitLoop(w)
  <2>1. RunTypeOK'
    BY <1>14, RunTypeStable DEF ExitLoop, SetAutomatic
  <2> QED BY <1>14, <2>1, SetAutomaticType, LeaveType DEF ExitLoop
<1> QED
  BY <1>1, <1>2, <1>3, <1>4, <1>5, <1>6, <1>7, <1>8, <1>9, <1>10, <1>11, <1>12, <1>13, <1>14
     DEF Work

LEMMA ProcessType ==
    ASSUME TypeInv, NEW w \in Workers,
           ExplicitStart(w) \/ Heartbeat(w) \/ StartService(w) \/ Crash(w) \/ Signal(w)
    PROVE TypeInv'
<1> USE DEF TypeInv
<1>1. CASE ExplicitStart(w)
  <2>1. PICK e \in Evals : ClaimEvaluation(e) /\ Take(w, "ready", e, issued + 1, TRUE)
    BY <1>1 DEF ExplicitStart
  <2>2. issued + 1 \in Nat
    BY DEF RunTypeOK
  <2>3. "ready" \in PcValues \ {"chunk"}
    BY DEF PcValues, Busy, Executing
  <2>4. ProcInv'
    BY <2>1, <2>2, <2>3, TakeType
  <2> QED BY <1>1, <2>1, <2>4, ClaimEvaluationType, QueueTypeStable DEF ExplicitStart
<1>2. CASE Heartbeat(w)
  <2>1. mine[w] \in Evals
    BY <1>2 DEF Heartbeat, ProcInv, ServiceTypeOK, Busy
  <2>2. ASSUME NEW read \in Ages, TouchJob(mine[w], token[w], read) PROVE TypeInv'
    BY <1>2, <2>1, <2>2, TouchJobType, ProcStable DEF Heartbeat
  <2>3. ASSUME NEW read \in Ages, TouchEvaluation(mine[w], token[w], read),
               UNCHANGED <<jobVars, queueVars>>
        PROVE  TypeInv'
    BY <1>2, <2>1, <2>3, TouchEvaluationType, QueueTypeStable, ProcStable DEF Heartbeat
  <2> QED BY <1>2, <2>2, <2>3 DEF Heartbeat
<1>3. CASE StartService(w)
  BY <1>3, LeaveType, TablesTypeStable DEF StartService
<1>4. CASE Crash(w)
  BY <1>4, LeaveType, TablesTypeStable DEF Crash
<1>5. CASE Signal(w)
  <2>1. stopping' \in [Workers -> BOOLEAN]
    BY <1>5 DEF Signal, ProcInv, ServiceTypeOK
  <2>2. ProcInv'
    <3>1. UNCHANGED <<pc, mine, token, explicit, cursor>>
      BY <1>5 DEF Signal
    <3> QED BY <2>1, <3>1 DEF ProcInv, ServiceTypeOK, ChunkRoom
  <2> QED BY <1>5, <2>2, TablesTypeStable DEF Signal
<1> QED BY <1>1, <1>2, <1>3, <1>4, <1>5

LEMMA ClientType == ASSUME TypeInv, Client PROVE TypeInv'
<1> USE DEF TypeInv
<1>0. ProcInv'
  BY ProcStable DEF Client
<1>1. ASSUME NEW e \in Evals, CreateRun(e) PROVE RunTypeOK' /\ QueueTypeOK'
  BY <1>1, InsertEvaluationType, QueueTypeStable DEF CreateRun
<1>2. ASSUME NEW e \in Evals, EnqueueEvaluation(e) PROVE RunTypeOK' /\ QueueTypeOK'
  BY <1>2, InsertJobType, RunTypeStable DEF EnqueueEvaluation
<1>3. ASSUME NEW e \in Evals, SubmitJob(e) PROVE RunTypeOK' /\ QueueTypeOK'
  BY <1>3, InsertJobType, InsertEvaluationType DEF SubmitJob
<1>4. ASSUME NEW e \in Evals, CancelJob(e) PROVE RunTypeOK' /\ QueueTypeOK'
  <2>1. RunTypeOK'
    BY <1>4, EndRunsType, RunTypeStable DEF CancelJob, CancelRunning, CancelQueued, RunStatuses
  <2> QED BY <1>4, <2>1, CancelJobType
<1>5. ASSUME NEW b \in BOOLEAN, SetAutomatic(b) PROVE RunTypeOK' /\ QueueTypeOK'
  BY <1>5, SetAutomaticType, RunTypeStable DEF SetAutomatic
<1>6. ASSUME ReorderWaiting PROVE RunTypeOK' /\ QueueTypeOK'
  BY <1>6, ReorderType, RunTypeStable DEF ReorderWaiting
<1> QED BY <1>0, <1>1, <1>2, <1>3, <1>4, <1>5, <1>6 DEF Client

LEMMA TickType == ASSUME TypeInv, Tick PROVE TypeInv'
<1> USE DEF TypeInv
<1>1. \A age \in Ages : Older(age) \in Ages
  BY LeaseAssumption DEF Ages, Older
<1>2. RunTypeOK'
  BY <1>1 DEF Tick, RunTypeOK, outputVars
<1>3. QueueTypeOK'
  BY <1>1 DEF Tick, QueueTypeOK, queueVars
<1> QED BY <1>2, <1>3, ProcStable DEF Tick

LEMMA TypeInvStep == ASSUME TypeInv, [Next]_vars PROVE TypeInv'
<1>1. CASE UNCHANGED vars
  BY <1>1, TablesTypeStable, ProcStable DEF vars, TypeInv
<1>2. CASE Next
  BY <1>2, PollType, WorkType, ProcessType, ClientType, TickType DEF Next
<1> QED BY <1>1, <1>2

LEMMA TypeInvAlways == Spec => []TypeInv
<1>1. Init => TypeInv
  BY RunTypeInit, QueueTypeInit, ProcInvInit DEF Init, TypeInv
<1> QED BY <1>1, TypeInvStep, PTL DEF Spec

\* Every reachable state of the tables and of the processes is well-typed: the
\* values the CHECK constraints of both tables allow.
THEOREM TypeCorrect == Spec => []TypeOK
<1>1. TypeInv => TypeOK
  BY DEF TypeInv, ProcInv, TypeOK
<1> QED BY <1>1, TypeInvAlways, PTL

-------------------------------------------------------------------------------
(* The two-table ownership protocol.  Both invariants speak only of        *)
(* runStatus, owner, jobStatus and lease, so each transaction gets one     *)
(* lemma and every other step is a frame step.                             *)

\* The inductive invariant: who owns what, and what each receipt says.
TablesInv == TypeInv /\ OwnershipInv /\ JobAgreesWithRun

linkVars == <<runStatus, owner, jobStatus, lease>>

LEMMA LinkFrame ==
    ASSUME OwnershipInv, JobAgreesWithRun, UNCHANGED linkVars
    PROVE  OwnershipInv' /\ JobAgreesWithRun'
BY DEF OwnershipInv, OneExecution, JobOwnsRun, JobAgreesWithRun, RunRunning, JobRunning,
       Waiting, linkVars

LEMMA InsertEvaluationLinks ==
    ASSUME TablesInv, NEW e \in Evals, CreateRun(e)
    PROVE  OwnershipInv' /\ JobAgreesWithRun'
BY DEF TablesInv, TypeInv, RunTypeOK, OwnershipInv, OneExecution, JobOwnsRun, JobAgreesWithRun,
       RunRunning, JobRunning, Waiting, CreateRun, InsertEvaluation, jobVars

LEMMA EnqueueLinks ==
    ASSUME TablesInv, NEW e \in Evals, EnqueueEvaluation(e) \/ SubmitJob(e)
    PROVE  OwnershipInv' /\ JobAgreesWithRun'
BY DEF TablesInv, TypeInv, RunTypeOK, QueueTypeOK, OwnershipInv, OneExecution, JobOwnsRun,
       JobAgreesWithRun, RunRunning, JobRunning, Waiting, EnqueueEvaluation, SubmitJob,
       InsertEvaluation, InsertJob, runVars

LEMMA CancelQueuedLinks ==
    ASSUME TablesInv, NEW e \in Evals, CancelQueued(e)
    PROVE  OwnershipInv' /\ JobAgreesWithRun'
BY DEF TablesInv, TypeInv, RunTypeOK, QueueTypeOK, OwnershipInv, OneExecution, JobOwnsRun,
       JobAgreesWithRun, RunRunning, JobRunning, Waiting, CancelQueued, EndRuns

LEMMA RejectHeadLinks ==
    ASSUME TablesInv, NEW e \in Evals, RejectHead(e)
    PROVE  OwnershipInv' /\ JobAgreesWithRun'
BY DEF TablesInv, TypeInv, RunTypeOK, QueueTypeOK, OwnershipInv, OneExecution, JobOwnsRun,
       JobAgreesWithRun, RunRunning, JobRunning, Waiting, RejectHead, MayStart, EndRuns

LEMMA ClaimHeadLinks ==
    ASSUME TablesInv, NEW e \in Evals, ClaimHead(e)
    PROVE  OwnershipInv' /\ JobAgreesWithRun'
BY DEF TablesInv, TypeInv, RunTypeOK, QueueTypeOK, OwnershipInv, OneExecution, JobOwnsRun,
       JobAgreesWithRun, RunRunning, JobRunning, Waiting, ClaimHead, MayStart, ClaimEvaluation,
       NoToken

LEMMA ExplicitClaimLinks ==
    ASSUME TablesInv, NEW e \in Evals, jobStatus[e] = "NONE", ClaimEvaluation(e),
           UNCHANGED jobVars
    PROVE  OwnershipInv' /\ JobAgreesWithRun'
BY DEF TablesInv, TypeInv, RunTypeOK, QueueTypeOK, OwnershipInv, OneExecution, JobOwnsRun,
       JobAgreesWithRun, RunRunning, JobRunning, Waiting, ClaimEvaluation, jobVars, NoToken

LEMMA FinishDetectionLinks ==
    ASSUME TablesInv, NEW e \in Evals, NEW t, FinishDetection(e, t), UNCHANGED jobVars
    PROVE  OwnershipInv' /\ JobAgreesWithRun'
BY DEF TablesInv, TypeInv, RunTypeOK, QueueTypeOK, OwnershipInv, OneExecution, JobOwnsRun,
       JobAgreesWithRun, RunRunning, JobRunning, Waiting, FinishDetection, Owns, jobVars, NoToken

\* A process ends nothing but an execution.
LEMMA EndOwnedLinks ==
    ASSUME TablesInv, NEW S \in SUBSET RunRunning, NEW status \in RunTerminal,
           EndRuns(S, status), UNCHANGED jobVars
    PROVE  OwnershipInv' /\ JobAgreesWithRun'
BY DEF TablesInv, TypeInv, RunTypeOK, QueueTypeOK, OwnershipInv, OneExecution, JobOwnsRun,
       JobAgreesWithRun, RunRunning, JobRunning, Waiting, EndRuns, RunTerminal, jobVars, NoToken

LEMMA FinishJobLinks ==
    ASSUME TablesInv, NEW e \in Evals, FinishJob(e)
    PROVE  OwnershipInv' /\ JobAgreesWithRun'
BY DEF TablesInv, TypeInv, RunTypeOK, RunStatuses, QueueTypeOK, OwnershipInv, OneExecution,
       JobOwnsRun, JobAgreesWithRun, RunRunning, JobRunning, Waiting, FinishJob, JobEnd, NoToken,
       runVars

\* Recovery ends every execution whose job it releases, and the receipt of a
\* stale job whose run had already ended is read from that run.
LEMMA RecoverStaleLinks ==
    ASSUME TablesInv, RecoverStale
    PROVE  OwnershipInv' /\ JobAgreesWithRun'
<1> DEFINE gone(e) == e \in ExpiredRuns
<1>1. \A e \in Evals :
        /\ runStatus'[e] = IF gone(e) THEN "FAILED" ELSE runStatus[e]
        /\ owner'[e] = IF gone(e) THEN NoToken ELSE owner[e]
        /\ lease'[e] = IF e \in StaleJobs THEN NoToken ELSE lease[e]
        /\ jobStatus'[e] = RecoveredJob(e)
  BY DEF RecoverStale, EndRuns
<1>2. \A e \in Evals : e \in StaleJobs /\ e \in RunRunning => gone(e)
  BY DEF ExpiredRuns
<1>3. \A e \in Evals : gone(e) => e \in RunRunning /\ (e \in StaleJobs \/ jobStatus[e] = "NONE")
  BY DEF ExpiredRuns, Orphans, StaleJobs, TablesInv, OwnershipInv, JobOwnsRun, JobRunning
<1>4. \A e \in Evals : e \in StaleJobs =>
          jobStatus'[e] = JobEnd(IF e \in RunRunning THEN "FAILED" ELSE runStatus[e])
  <2> SUFFICES ASSUME NEW e \in Evals, e \in StaleJobs
               PROVE  jobStatus'[e] = JobEnd(IF e \in RunRunning THEN "FAILED" ELSE runStatus[e])
    OBVIOUS
  <2>1. ~(e \in Orphans /\ jobStatus[e] = "QUEUED")
    BY DEF Orphans, StaleJobs, JobRunning
  <2> QED BY <1>1, <2>1 DEF RecoveredJob
<1>5. \A e \in Evals : e \notin StaleJobs => jobStatus'[e] = jobStatus[e]
  <2> SUFFICES ASSUME NEW e \in Evals, e \notin StaleJobs PROVE jobStatus'[e] = jobStatus[e]
    OBVIOUS
  <2>1. ~(e \in Orphans /\ jobStatus[e] = "QUEUED")
    BY DEF Orphans, TablesInv, OwnershipInv, JobOwnsRun, JobRunning, RunRunning, Waiting
  <2> QED BY <1>1, <2>1 DEF RecoveredJob
<1>6. \A e \in StaleJobs : e \in Evals /\ e \in JobRunning
  BY DEF StaleJobs, JobRunning
<1>7. JobAgreesWithRun'
  BY <1>1, <1>2, <1>3, <1>4, <1>5, <1>6
     DEF TablesInv, TypeInv, RunTypeOK, RunStatuses, OwnershipInv, JobOwnsRun, JobAgreesWithRun,
         RunRunning, JobRunning, JobEnd
<1>8. OneExecution'
  <2>1. \A e \in Evals : e \in RunRunning' <=> e \in RunRunning /\ ~gone(e)
    BY <1>1 DEF RunRunning
  <2>2. \A e \in Evals : e \in JobRunning' <=> e \in JobRunning /\ e \notin StaleJobs
    BY <1>4, <1>5, <1>6 DEF JobRunning, JobEnd
  <2>3. RunRunning' \subseteq Evals /\ JobRunning' \subseteq Evals
    BY DEF RunRunning, JobRunning
  <2> QED
    BY <1>1, <1>3, <1>6, <2>1, <2>2, <2>3 DEF TablesInv, OwnershipInv, OneExecution, NoToken
<1>9. JobOwnsRun'
  <2> SUFFICES ASSUME NEW e \in Evals
               PROVE /\ e \in Waiting' => runStatus'[e] = "CREATED"
                     /\ e \in JobRunning' => runStatus'[e] \notin {"ABSENT", "CREATED"}
                     /\ e \in JobRunning' /\ e \in RunRunning' => lease'[e] = owner'[e]
                     /\ e \in RunRunning' /\ jobStatus'[e] # "NONE" => e \in JobRunning'
    BY DEF JobOwnsRun
  <2> QED
    BY <1>1, <1>2, <1>3, <1>4, <1>5, <1>6
       DEF TablesInv, OwnershipInv, JobOwnsRun, RunRunning, JobRunning, Waiting, JobEnd
<1> QED BY <1>7, <1>8, <1>9 DEF OwnershipInv

-------------------------------------------------------------------------------

LEMMA TablesInvInit == Init => TablesInv
<1>1. Init => TypeInv
  BY RunTypeInit, QueueTypeInit, ProcInvInit DEF Init, TypeInv
<1>2. Init => OwnershipInv /\ JobAgreesWithRun
  BY DEF Init, RunInit, QueueInit, OwnershipInv, OneExecution, JobOwnsRun, JobAgreesWithRun,
         RunRunning, JobRunning, Waiting, NoToken
<1> QED BY <1>1, <1>2 DEF TablesInv

LEMMA TouchFrame ==
    ASSUME NEW e, NEW t, NEW read,
           TouchJob(e, t, read) \/ (TouchEvaluation(e, t, read) /\ UNCHANGED jobVars)
    PROVE  UNCHANGED linkVars
BY DEF TouchJob, TouchEvaluation, linkVars, runVars, jobVars

LEMMA PollLinks ==
    ASSUME TablesInv, NEW w \in Workers, Poll(w)
    PROVE  OwnershipInv' /\ JobAgreesWithRun'
BY RecoverStaleLinks, RejectHeadLinks, ClaimHeadLinks DEF Poll, PollRecover, PollReject, PollClaim

LEMMA WorkLinks ==
    ASSUME TablesInv, NEW w \in Workers, Work(w)
    PROVE  OwnershipInv' /\ JobAgreesWithRun'
<1> DEFINE e == mine[w]  t == token[w]
<1>b. pc[w] \in Busy => e \in Evals
  BY DEF TablesInv, TypeInv, ProcInv, ServiceTypeOK
<1>f. ASSUME UNCHANGED linkVars PROVE OwnershipInv' /\ JobAgreesWithRun'
  BY <1>f, LinkFrame DEF TablesInv
<1>1. CASE \/ Validate(w) \/ BeginChunk(w) \/ BeginBatch(w) \/ BeginFinish(w)
           \/ StopExecution(w) \/ FailExecution(w) \/ TerminationLost(w)
  BY <1>1, <1>f
     DEF Validate, BeginChunk, BeginBatch, BeginFinish, StopExecution, FailExecution,
         TerminationLost, linkVars, runVars, jobVars
<1>2. CASE CommitChunk(w) \/ CommitBatch(w)
  BY <1>2, <1>f
     DEF CommitChunk, CommitBatch, AdvanceEvaluation, StoreOutcomes, linkVars, jobVars
<1>3. CASE CommitFinish(w)
  BY <1>3, <1>b, FinishDetectionLinks DEF CommitFinish, Busy, Executing, Open
<1>4. CASE TouchAfterCommit(w)
  BY <1>4, <1>f, TouchFrame DEF TouchAfterCommit
<1>5. CASE Terminate(w)
  <2>1. e \in Evals
    BY <1>5, <1>b DEF Terminate, Busy
  <2>2. (IF Owns(e, t) THEN {e} ELSE {}) \in SUBSET RunRunning
    BY <2>1 DEF Owns, RunRunning
  <2> QED BY <1>5, <2>2, EndOwnedLinks DEF Terminate, RunTerminal
<1>6. CASE Receipt(w)
  <2>1. CASE FinishJob(e)
    BY <1>6, <2>1, <1>b, FinishJobLinks DEF Receipt, Busy
  <2>2. CASE UNCHANGED <<runVars, jobVars, queueVars>>
    BY <2>2, <1>f DEF linkVars, runVars, jobVars
  <2> QED BY <1>6, <2>1, <2>2 DEF Receipt
<1>7. CASE ExitLoop(w)
  BY <1>7, <1>f DEF ExitLoop, SetAutomatic, linkVars, runVars, jobVars
<1> QED BY <1>1, <1>2, <1>3, <1>4, <1>5, <1>6, <1>7 DEF Work

LEMMA ProcessLinks ==
    ASSUME TablesInv, NEW w \in Workers,
           ExplicitStart(w) \/ Heartbeat(w) \/ StartService(w) \/ Crash(w) \/ Signal(w)
    PROVE  OwnershipInv' /\ JobAgreesWithRun'
<1>f. ASSUME UNCHANGED linkVars PROVE OwnershipInv' /\ JobAgreesWithRun'
  BY <1>f, LinkFrame DEF TablesInv
<1>1. CASE ExplicitStart(w)
  BY <1>1, ExplicitClaimLinks DEF ExplicitStart
<1>2. CASE Heartbeat(w)
  BY <1>2, <1>f, TouchFrame DEF Heartbeat
<1>3. CASE StartService(w) \/ Crash(w) \/ Signal(w)
  BY <1>3, <1>f DEF StartService, Crash, Signal, linkVars, runVars, jobVars
<1> QED BY <1>1, <1>2, <1>3

LEMMA ClientLinks ==
    ASSUME TablesInv, Client
    PROVE  OwnershipInv' /\ JobAgreesWithRun'
<1>f. ASSUME UNCHANGED linkVars PROVE OwnershipInv' /\ JobAgreesWithRun'
  BY <1>f, LinkFrame DEF TablesInv
<1>1. ASSUME NEW e \in Evals, CancelJob(e) PROVE OwnershipInv' /\ JobAgreesWithRun'
  <2>1. CASE CancelRunning(e)
    BY <2>1, <1>f DEF CancelRunning, linkVars, runVars
  <2> QED BY <1>1, <2>1, CancelQueuedLinks DEF CancelJob
<1>2. CASE \E b \in BOOLEAN : SetAutomatic(b)
  BY <1>2, <1>f DEF SetAutomatic, linkVars, runVars, jobVars
<1>3. CASE ReorderWaiting
  BY <1>3, <1>f DEF ReorderWaiting, linkVars, runVars
<1> QED BY <1>1, <1>2, <1>3, InsertEvaluationLinks, EnqueueLinks DEF Client

LEMMA TablesInvStep == ASSUME TablesInv, [Next]_vars PROVE TablesInv'
<1>1. TypeInv'
  BY TypeInvStep DEF TablesInv
<1>2. OwnershipInv' /\ JobAgreesWithRun'
  <2>1. CASE UNCHANGED vars \/ Tick
    BY <2>1, LinkFrame DEF Tick, vars, runVars, jobVars, linkVars, TablesInv
  <2>2. CASE Next /\ ~Tick
    BY <2>2, PollLinks, WorkLinks, ProcessLinks, ClientLinks DEF Next
  <2> QED BY <2>1, <2>2
<1> QED BY <1>1, <1>2 DEF TablesInv

LEMMA TablesInvAlways == Spec => []TablesInv
BY TablesInvInit, TablesInvStep, PTL DEF Spec

\* One evaluation executes at a time and a job always owns the execution of its
\* evaluation, under any interleaving of workers, explicit processes, recovery
\* and clients of the queue.
THEOREM Ownership == Spec => []OwnershipInv
BY TablesInvAlways, PTL DEF TablesInv

\* Receipts written by finish_job and by recovery agree with the runs, and stay
\* in agreement.
THEOREM ReceiptsAgree == Spec => []JobAgreesWithRun
BY TablesInvAlways, PTL DEF TablesInv

-------------------------------------------------------------------------------
(***************************************************************************)
(* Executions and their output: what a step may never do (action           *)
(* properties), and that chunks are committed exactly once.                *)
(***************************************************************************)

-------------------------------------------------------------------------------
(* Only the two committing steps write output, and only of a run they own. *)

SameOutput(e) ==
    /\ progress'[e] = progress[e] /\ streamBars'[e] = streamBars[e]
    /\ events'[e] = events[e] /\ observed'[e] = observed[e]

LEMMA AdvanceOutput ==
    ASSUME RunTypeOK, NEW e \in Evals, NEW t, NEW c, NEW n, AdvanceEvaluation(e, t, c, n)
    PROVE  \A f \in Evals : f # e => SameOutput(f)
BY DEF RunTypeOK, AdvanceEvaluation, SameOutput

LEMMA StoreOutput ==
    ASSUME RunTypeOK, NEW e \in Evals, NEW t, StoreOutcomes(e, t, 1)
    PROVE  \A f \in Evals : f # e => SameOutput(f)
BY DEF RunTypeOK, StoreOutcomes, SameOutput

LEMMA WorkOutput ==
    ASSUME NEW w \in Workers, Work(w), ~CommitChunk(w), ~CommitBatch(w)
    PROVE  UNCHANGED outputVars
<1>1. CASE \/ Validate(w) \/ BeginChunk(w) \/ BeginBatch(w) \/ BeginFinish(w)
           \/ StopExecution(w) \/ FailExecution(w) \/ TerminationLost(w)
  BY <1>1 DEF Validate, BeginChunk, BeginBatch, BeginFinish, StopExecution, FailExecution,
              TerminationLost, runVars, outputVars
<1>2. CASE CommitFinish(w) \/ Terminate(w)
  BY <1>2 DEF CommitFinish, FinishDetection, Terminate, EndRuns
<1>3. CASE TouchAfterCommit(w)
  BY <1>3 DEF TouchAfterCommit, TouchJob, TouchEvaluation, runVars, outputVars
<1>4. CASE Receipt(w) \/ ExitLoop(w)
  BY <1>4 DEF Receipt, FinishJob, ExitLoop, SetAutomatic, runVars, outputVars
<1> QED BY <1>1, <1>2, <1>3, <1>4 DEF Work

LEMMA OtherOutput ==
    ASSUME \/ \E w \in Workers : \/ Poll(w) \/ ExplicitStart(w) \/ Heartbeat(w)
                                 \/ StartService(w) \/ Crash(w) \/ Signal(w)
           \/ Client \/ Tick \/ UNCHANGED vars
    PROVE  UNCHANGED outputVars
<1>1. ASSUME NEW w \in Workers, Poll(w) PROVE UNCHANGED outputVars
  BY <1>1 DEF Poll, PollRecover, PollReject, PollClaim, RecoverStale, RejectHead, ClaimHead,
              ClaimEvaluation, EndRuns
<1>2. ASSUME NEW w \in Workers, ExplicitStart(w) PROVE UNCHANGED outputVars
  BY <1>2 DEF ExplicitStart, ClaimEvaluation
<1>3. ASSUME NEW w \in Workers, Heartbeat(w) PROVE UNCHANGED outputVars
  BY <1>3 DEF Heartbeat, TouchJob, TouchEvaluation, runVars, outputVars
<1>4. ASSUME NEW w \in Workers, StartService(w) \/ Crash(w) \/ Signal(w)
      PROVE  UNCHANGED outputVars
  BY <1>4 DEF StartService, Crash, Signal, runVars, outputVars
<1>5. CASE Client
  BY <1>5 DEF Client, CreateRun, EnqueueEvaluation, SubmitJob, InsertEvaluation, CancelJob,
              CancelRunning, CancelQueued, EndRuns, SetAutomatic, ReorderWaiting, runVars,
              outputVars
<1>6. CASE Tick \/ UNCHANGED vars
  BY <1>6 DEF Tick, vars, runVars, outputVars
<1> QED BY <1>1, <1>2, <1>3, <1>4, <1>5, <1>6

LEMMA FrozenStep ==
    ASSUME TypeInv, [Next]_vars, NEW e \in Evals, runStatus[e] # "RUNNING"
    PROVE  SameOutput(e)
<1>u. ASSUME UNCHANGED outputVars PROVE SameOutput(e)
  BY <1>u DEF outputVars, SameOutput
<1>1. ASSUME NEW w \in Workers, CommitChunk(w) PROVE SameOutput(e)
  <2>1. mine[w] \in Evals
    BY <1>1 DEF CommitChunk, TypeInv, ProcInv, ServiceTypeOK, Busy, Executing, Open
  <2>2. PICK n \in {0, 1} : AdvanceEvaluation(mine[w], token[w], cursor[w] + 1, n)
    BY <1>1 DEF CommitChunk
  <2>3. mine[w] # e
    BY <2>2 DEF AdvanceEvaluation, Owns
  <2> QED BY <2>1, <2>2, <2>3, AdvanceOutput DEF TypeInv
<1>2. ASSUME NEW w \in Workers, CommitBatch(w) PROVE SameOutput(e)
  <2>1. mine[w] \in Evals
    BY <1>2 DEF CommitBatch, TypeInv, ProcInv, ServiceTypeOK, Busy, Executing, Open
  <2>2. mine[w] # e
    BY <1>2 DEF CommitBatch, StoreOutcomes, Owns
  <2> QED BY <1>2, <2>1, <2>2, StoreOutput DEF TypeInv, CommitBatch
<1>3. ASSUME NEW w \in Workers, Work(w) PROVE SameOutput(e)
  BY <1>1, <1>2, <1>3, <1>u, WorkOutput
<1> QED BY <1>3, <1>u, OtherOutput DEF Next

\* A process whose lease was taken away adds nothing to the output recovery or
\* cancellation retained.
THEOREM OutputFrozen == Spec => FrozenOutput
<1>1. TypeInv /\ [Next]_vars =>
        [\A e \in Evals : runStatus[e] # "RUNNING" =>
            /\ progress'[e] = progress[e] /\ streamBars'[e] = streamBars[e]
            /\ events'[e] = events[e] /\ observed'[e] = observed[e]]_vars
  BY FrozenStep DEF SameOutput
<1> QED BY <1>1, TypeInvAlways, PTL DEF Spec, FrozenOutput

-------------------------------------------------------------------------------
(* How the two statuses may change.                                        *)

\* runStatus and jobStatus of one evaluation in one step.
StatusStep(e) ==
    /\ runStatus[e] \in RunTerminal => runStatus'[e] = runStatus[e]
    /\ jobStatus[e] \in JobTerminal => jobStatus'[e] = jobStatus[e]
    /\ runStatus'[e] = "COMPLETED" /\ runStatus[e] # "COMPLETED" =>
           /\ runStatus[e] = "RUNNING"
           /\ progress[e] = Chunks /\ streamBars[e] = Chunks /\ observed[e] = events[e]

LEMMA StatusFrame ==
    ASSUME runStatus' = runStatus, jobStatus' = jobStatus, NEW e \in Evals
    PROVE  StatusStep(e)
BY DEF StatusStep

LEMMA PollStatus ==
    ASSUME TablesInv, NEW w \in Workers, Poll(w), NEW e \in Evals PROVE StatusStep(e)
<1>1. CASE RecoverStale
  <2>1. runStatus[e] \in RunTerminal => runStatus'[e] = runStatus[e]
    BY <1>1 DEF RecoverStale, EndRuns, ExpiredRuns, StaleJobs, Orphans, RunRunning, RunTerminal
  <2>2. jobStatus[e] \in JobTerminal => jobStatus'[e] = jobStatus[e]
    BY <1>1 DEF RecoverStale, RecoveredJob, StaleJobs, JobRunning, JobTerminal
  <2>3. runStatus'[e] = "COMPLETED" => runStatus[e] = "COMPLETED"
    BY <1>1 DEF RecoverStale, EndRuns
  <2> QED BY <2>1, <2>2, <2>3 DEF StatusStep
<1>2. ASSUME NEW f \in Evals, RejectHead(f) PROVE StatusStep(e)
  BY <1>2 DEF TablesInv, TypeInv, QueueTypeOK, RejectHead, MayStart, Waiting, EndRuns, StatusStep,
              RunTerminal, JobTerminal
<1>3. ASSUME NEW f \in Evals, ClaimHead(f) PROVE StatusStep(e)
  BY <1>3 DEF TablesInv, TypeInv, RunTypeOK, QueueTypeOK, ClaimHead, MayStart, Waiting,
              ClaimEvaluation, StatusStep, RunTerminal, JobTerminal
<1> QED BY <1>1, <1>2, <1>3 DEF Poll, PollRecover, PollReject, PollClaim

LEMMA WorkStatus ==
    ASSUME TablesInv, NEW w \in Workers, Work(w), NEW e \in Evals PROVE StatusStep(e)
<1>1. CASE \/ Validate(w) \/ BeginChunk(w) \/ BeginBatch(w) \/ BeginFinish(w)
           \/ StopExecution(w) \/ FailExecution(w) \/ TerminationLost(w)
  BY <1>1, StatusFrame
     DEF Validate, BeginChunk, BeginBatch, BeginFinish, StopExecution, FailExecution,
         TerminationLost, runVars, jobVars
<1>2. CASE CommitChunk(w) \/ CommitBatch(w) \/ TouchAfterCommit(w) \/ ExitLoop(w)
  BY <1>2, StatusFrame
     DEF CommitChunk, CommitBatch, AdvanceEvaluation, StoreOutcomes, TouchAfterCommit, TouchJob,
         TouchEvaluation, ExitLoop, SetAutomatic, runVars, jobVars
<1>3. CASE CommitFinish(w)
  <2>1. jobStatus' = jobStatus
    BY <1>3 DEF CommitFinish, jobVars
  <2> QED
    BY <1>3, <2>1 DEF CommitFinish, FinishDetection, Owns, OutcomesReady, StatusStep, RunTerminal,
                TablesInv, TypeInv, RunTypeOK
<1>4. CASE Terminate(w)
  <2>1. jobStatus' = jobStatus
    BY <1>4 DEF Terminate, jobVars
  <2> QED BY <1>4, <2>1 DEF Terminate, EndRuns, Owns, StatusStep, RunTerminal
<1>5. CASE Receipt(w)
  <2>1. runStatus' = runStatus
    BY <1>5 DEF Receipt, FinishJob, runVars
  <2>2. jobStatus[e] \in JobTerminal => jobStatus'[e] = jobStatus[e]
    BY <1>5 DEF Receipt, FinishJob, jobVars, JobTerminal, TablesInv, TypeInv, QueueTypeOK
  <2> QED BY <2>1, <2>2 DEF StatusStep
<1> QED BY <1>1, <1>2, <1>3, <1>4, <1>5 DEF Work

LEMMA OtherStatus ==
    ASSUME TablesInv, NEW e \in Evals,
           \/ \E w \in Workers : \/ ExplicitStart(w) \/ Heartbeat(w)
                                 \/ StartService(w) \/ Crash(w) \/ Signal(w)
           \/ Client \/ Tick \/ UNCHANGED vars
    PROVE  StatusStep(e)
<1>1. ASSUME NEW w \in Workers, ExplicitStart(w) PROVE StatusStep(e)
  BY <1>1 DEF ExplicitStart, ClaimEvaluation, jobVars, StatusStep, RunTerminal, TablesInv, TypeInv,
              RunTypeOK
<1>2. ASSUME NEW w \in Workers, Heartbeat(w) \/ StartService(w) \/ Crash(w) \/ Signal(w)
      PROVE  StatusStep(e)
  BY <1>2, StatusFrame
     DEF Heartbeat, TouchJob, TouchEvaluation, StartService, Crash, Signal, runVars, jobVars
<1>3. CASE Client
  <2>1. ASSUME NEW f \in Evals, CreateRun(f) \/ EnqueueEvaluation(f) \/ SubmitJob(f)
        PROVE  StatusStep(e)
    BY <2>1 DEF CreateRun, EnqueueEvaluation, SubmitJob, InsertEvaluation, InsertJob, runVars,
                jobVars, StatusStep, RunTerminal, JobTerminal, TablesInv, TypeInv, RunTypeOK,
                QueueTypeOK
  <2>2. ASSUME NEW f \in Evals, CancelJob(f) PROVE StatusStep(e)
    BY <2>2 DEF CancelJob, CancelRunning, CancelQueued, EndRuns, runVars, StatusStep, RunTerminal,
                JobTerminal, TablesInv, TypeInv, RunTypeOK, QueueTypeOK
  <2>3. CASE ReorderWaiting \/ \E b \in BOOLEAN : SetAutomatic(b)
    BY <2>3, StatusFrame DEF ReorderWaiting, SetAutomatic, runVars, jobVars
  <2> QED BY <1>3, <2>1, <2>2, <2>3 DEF Client
<1>4. CASE Tick \/ UNCHANGED vars
  BY <1>4, StatusFrame DEF Tick, vars, runVars, jobVars
<1> QED BY <1>1, <1>2, <1>3, <1>4

LEMMA StatusNext == ASSUME TablesInv, [Next]_vars, NEW e \in Evals PROVE StatusStep(e)
BY PollStatus, WorkStatus, OtherStatus DEF Next

\* An ended run or job is never relabelled.
THEOREM TerminalIsForever == Spec => TerminalForever
<1>1. TablesInv /\ [Next]_vars =>
        [\A e \in Evals :
            /\ runStatus[e] \in RunTerminal => runStatus'[e] = runStatus[e]
            /\ jobStatus[e] \in JobTerminal => jobStatus'[e] = jobStatus[e]]_vars
  BY StatusNext DEF StatusStep
<1> QED BY <1>1, TablesInvAlways, PTL DEF Spec, TerminalForever

\* COMPLETED means the whole pinned source and every outcome, from the moment
\* it is written and for ever after.
THEOREM CompletedWhole == Spec => []CompletedIsWhole
<1>1. Init => CompletedIsWhole
  BY DEF Init, RunInit, CompletedIsWhole
<1>2. TablesInv /\ CompletedIsWhole /\ [Next]_vars => CompletedIsWhole'
  <2> SUFFICES ASSUME TablesInv, CompletedIsWhole, [Next]_vars,
                      NEW e \in Evals, runStatus'[e] = "COMPLETED"
               PROVE  progress'[e] = Chunks /\ streamBars'[e] = Chunks /\ observed'[e] = events'[e]
    BY DEF CompletedIsWhole
  <2>1. CASE runStatus[e] = "COMPLETED"
    BY <2>1, FrozenStep DEF TablesInv, CompletedIsWhole, SameOutput
  <2>2. CASE runStatus[e] # "COMPLETED"
    <3>1. /\ runStatus[e] = "RUNNING"
          /\ progress[e] = Chunks /\ streamBars[e] = Chunks /\ observed[e] = events[e]
      BY <2>2, StatusNext DEF StatusStep
    <3>2. UNCHANGED outputVars
      <4>1. ASSUME NEW w \in Workers, Work(w) PROVE UNCHANGED outputVars
        <5>1. ~CommitChunk(w) /\ ~CommitBatch(w)
          BY <3>1 DEF CommitChunk, CommitBatch, AdvanceEvaluation, StoreOutcomes
        <5> QED BY <4>1, <5>1, WorkOutput
      <4> QED BY <4>1, OtherOutput DEF Next
    <3> QED BY <3>1, <3>2 DEF outputVars
  <2> QED BY <2>1, <2>2
<1> QED BY <1>1, <1>2, TablesInvAlways, PTL DEF Spec

-------------------------------------------------------------------------------
(* Automatic progression.                                                  *)

\* Every step that ends a job other than COMPLETED pauses the queue.
LEMMA PauseStep ==
    ASSUME TablesInv, [Next]_vars, NEW e \in JobRunning, jobStatus'[e] \in {"CANCELLED", "FAILED"}
    PROVE  ~automatic'
<1>0. e \in Evals /\ jobStatus[e] = "RUNNING" /\ jobStatus'[e] # jobStatus[e]
  BY DEF JobRunning
<1>1. ASSUME NEW w \in Workers, Poll(w) PROVE ~automatic'
  <2>1. ~PollReject(w) /\ ~PollClaim(w)
    BY <1>0 DEF PollReject, PollClaim, RejectHead, ClaimHead, MayStart, JobRunning
  <2> QED BY <1>1, <2>1 DEF Poll, PollRecover, RecoverStale, PauseAutomatic
<1>2. ASSUME NEW w \in Workers, Work(w) PROVE ~automatic'
  <2>1. CASE Receipt(w) /\ FinishJob(mine[w])
    <3>1. mine[w] = e
      BY <1>0, <2>1 DEF FinishJob, TablesInv, TypeInv, QueueTypeOK
    <3>2. JobEnd(runStatus[e]) # "COMPLETED"
      BY <1>0, <2>1, <3>1 DEF FinishJob, TablesInv, TypeInv, QueueTypeOK
    <3> QED BY <2>1, <3>1, <3>2 DEF FinishJob, PauseAutomatic
  <2>2. CASE ~(Receipt(w) /\ FinishJob(mine[w]))
    <3>1. jobStatus' = jobStatus
      BY <1>2, <2>2
         DEF Work, Validate, BeginChunk, CommitChunk, BeginBatch, CommitBatch, BeginFinish,
             CommitFinish, TouchAfterCommit, TouchJob, StopExecution, FailExecution, Terminate,
             TerminationLost, Receipt, ExitLoop, SetAutomatic, jobVars
    <3> QED BY <1>0, <3>1
  <2> QED BY <2>1, <2>2
<1>3. ASSUME NEW w \in Workers,
             ExplicitStart(w) \/ Heartbeat(w) \/ StartService(w) \/ Crash(w) \/ Signal(w)
      PROVE  ~automatic'
  <2>1. jobStatus' = jobStatus
    BY <1>3 DEF ExplicitStart, Heartbeat, TouchJob, StartService, Crash, Signal, jobVars
  <2> QED BY <1>0, <2>1
<1>4. CASE Client
  <2>1. jobStatus'[e] = jobStatus[e]
    BY <1>0, <1>4
       DEF Client, CreateRun, EnqueueEvaluation, SubmitJob, InsertJob, CancelJob, CancelRunning,
           CancelQueued, SetAutomatic, ReorderWaiting, jobVars, TablesInv, TypeInv, QueueTypeOK
  <2> QED BY <1>0, <2>1
<1>5. CASE Tick \/ UNCHANGED vars
  <2>1. jobStatus' = jobStatus
    BY <1>5 DEF Tick, vars, jobVars
  <2> QED BY <1>0, <2>1
<1> QED BY <1>1, <1>2, <1>3, <1>4, <1>5 DEF Next

\* After a cancelled, failed or recovered job nothing starts by itself.
THEOREM AbnormalEndPauses == Spec => PauseAfterAbnormalEnd
<1>1. TablesInv /\ [Next]_vars =>
        [\A e \in JobRunning : jobStatus'[e] \in {"CANCELLED", "FAILED"} => ~automatic']_vars
  BY PauseStep
<1> QED BY <1>1, TablesInvAlways, PTL DEF Spec, PauseAfterAbnormalEnd

\* A stop is requested only of an active job, and never of one yet to run.
StopInv ==
    /\ StopKeepsQueuePaused
    /\ \A e \in Evals : jobStatus[e] \in {"NONE", "QUEUED"} => ~stopRequested[e]

LEMMA StopFrame ==
    ASSUME StopInv, UNCHANGED <<jobStatus, stopRequested, automatic>> PROVE StopInv'
BY DEF StopInv, StopKeepsQueuePaused, JobRunning

\* Jobs only leave the active slot or the queue, and nothing resumes.
LEMMA StopShrinks ==
    ASSUME StopInv, stopRequested' = stopRequested, automatic' => automatic,
           \A e \in Evals : jobStatus'[e] = jobStatus[e] \/ jobStatus'[e] \in JobTerminal
    PROVE  StopInv'
BY DEF StopInv, StopKeepsQueuePaused, JobRunning, JobTerminal

LEMMA StopStep == ASSUME TablesInv, StopInv, [Next]_vars PROVE StopInv'
<1>1. ASSUME NEW w \in Workers, Poll(w) PROVE StopInv'
  <2>1. CASE PollRecover(w)
    <3>1. \A e \in Evals : jobStatus'[e] = jobStatus[e] \/ jobStatus'[e] \in JobTerminal
      BY <2>1, JobEndType DEF PollRecover, RecoverStale, RecoveredJob, JobTerminal
    <3> QED BY <2>1, <3>1, StopShrinks DEF PollRecover, RecoverStale, PauseAutomatic
  <2>2. CASE PollReject(w)
    <3>1. PICK f \in Evals : RejectHead(f)
      BY <2>2 DEF PollReject
    <3>2. \A e \in Evals : jobStatus'[e] = jobStatus[e] \/ jobStatus'[e] \in JobTerminal
      BY <3>1 DEF RejectHead, JobTerminal, TablesInv, TypeInv, QueueTypeOK
    <3> QED BY <3>1, <3>2, StopShrinks DEF RejectHead, PauseAutomatic
  <2>3. CASE PollClaim(w)
    <3>1. PICK f \in Evals : ClaimHead(f)
      BY <2>3 DEF PollClaim
    <3>2. /\ ~stopRequested[f]
          /\ UNCHANGED <<stopRequested, automatic>>
          /\ \A e \in Evals : jobStatus'[e] = IF e = f THEN "RUNNING" ELSE jobStatus[e]
      BY <3>1 DEF ClaimHead, MayStart, Waiting, StopInv, queueVars, TablesInv, TypeInv, QueueTypeOK
    <3> QED BY <3>2 DEF StopInv, StopKeepsQueuePaused, JobRunning
  <2> QED BY <1>1, <2>1, <2>2, <2>3 DEF Poll
<1>2. ASSUME NEW w \in Workers, Work(w) PROVE StopInv'
  <2>1. CASE Receipt(w) /\ FinishJob(mine[w])
    <3>1. \A e \in Evals : jobStatus'[e] = jobStatus[e] \/ jobStatus'[e] \in JobTerminal
      BY <2>1, JobEndType DEF FinishJob, TablesInv, TypeInv, QueueTypeOK
    <3> QED BY <2>1, <3>1, StopShrinks DEF FinishJob, PauseAutomatic
  <2>2. CASE ExitLoop(w)
    <3>1. jobStatus' = jobStatus /\ stopRequested' = stopRequested /\ ~automatic'
      BY <2>2 DEF ExitLoop, SetAutomatic, jobVars
    <3> QED BY <3>1, StopShrinks
  <2>3. CASE ~(Receipt(w) /\ FinishJob(mine[w])) /\ ~ExitLoop(w)
    <3>1. UNCHANGED <<jobStatus, stopRequested, automatic>>
      BY <1>2, <2>3
         DEF Work, Validate, BeginChunk, CommitChunk, BeginBatch, CommitBatch, BeginFinish,
             CommitFinish, TouchAfterCommit, TouchJob, StopExecution, FailExecution, Terminate,
             TerminationLost, Receipt, jobVars, queueVars
    <3> QED BY <3>1, StopFrame
  <2> QED BY <2>1, <2>2, <2>3
<1>3. ASSUME NEW w \in Workers,
             ExplicitStart(w) \/ Heartbeat(w) \/ StartService(w) \/ Crash(w) \/ Signal(w)
      PROVE  StopInv'
  <2>1. UNCHANGED <<jobStatus, stopRequested, automatic>>
    BY <1>3 DEF ExplicitStart, Heartbeat, TouchJob, StartService, Crash, Signal, jobVars, queueVars
  <2> QED BY <2>1, StopFrame
<1>4. CASE Client
  <2>1. ASSUME NEW f \in Evals, EnqueueEvaluation(f) \/ SubmitJob(f) PROVE StopInv'
    <3>1. /\ ~stopRequested[f]
          /\ UNCHANGED <<stopRequested, automatic>>
          /\ \A e \in Evals : jobStatus'[e] = IF e = f THEN "QUEUED" ELSE jobStatus[e]
      BY <2>1 DEF EnqueueEvaluation, SubmitJob, InsertJob, StopInv, TablesInv, TypeInv, QueueTypeOK
    <3> QED BY <3>1 DEF StopInv, StopKeepsQueuePaused, JobRunning
  <2>2. ASSUME NEW f \in Evals, CreateRun(f) PROVE StopInv'
    BY <2>2, StopFrame DEF CreateRun, jobVars, queueVars
  <2>3. ASSUME NEW f \in Evals, CancelRunning(f) PROVE StopInv'
    <3>1. /\ ~automatic' /\ jobStatus' = jobStatus /\ jobStatus[f] = "RUNNING"
          /\ \A e \in Evals : e # f => stopRequested'[e] = stopRequested[e]
      BY <2>3 DEF CancelRunning, PauseAutomatic, TablesInv, TypeInv, QueueTypeOK
    <3> QED BY <3>1 DEF StopInv, StopKeepsQueuePaused, JobRunning
  <2>4. ASSUME NEW f \in Evals, CancelQueued(f) PROVE StopInv'
    <3>1. \A e \in Evals : jobStatus'[e] = jobStatus[e] \/ jobStatus'[e] \in JobTerminal
      BY <2>4 DEF CancelQueued, JobTerminal, TablesInv, TypeInv, QueueTypeOK
    <3> QED BY <2>4, <3>1, StopShrinks DEF CancelQueued, queueVars
  <2>5. ASSUME NEW b \in BOOLEAN, SetAutomatic(b) PROVE StopInv'
    <3>1. automatic' => \A e \in JobRunning : ~stopRequested[e]
      BY <2>5 DEF SetAutomatic
    <3>2. jobStatus' = jobStatus /\ stopRequested' = stopRequested
      BY <2>5 DEF SetAutomatic, jobVars
    <3> QED BY <3>1, <3>2 DEF StopInv, StopKeepsQueuePaused, JobRunning
  <2>6. CASE ReorderWaiting
    BY <2>6, StopFrame DEF ReorderWaiting
  <2> QED BY <1>4, <2>1, <2>2, <2>3, <2>4, <2>5, <2>6 DEF Client, CancelJob
<1>5. CASE Tick \/ UNCHANGED vars
  BY <1>5, StopFrame DEF Tick, vars, jobVars, queueVars
<1> QED BY <1>1, <1>2, <1>3, <1>4, <1>5 DEF Next

\* While a stop of the active job is pending, nobody has the queue automatic.
THEOREM StopPauses == Spec => []StopKeepsQueuePaused
<1>1. Init => StopInv
  BY DEF Init, QueueInit, StopInv, StopKeepsQueuePaused, JobRunning
<1>2. StopInv => StopKeepsQueuePaused
  BY DEF StopInv
<1> QED BY <1>1, <1>2, StopStep, TablesInvAlways, PTL DEF Spec

-------------------------------------------------------------------------------
(* Processes and the rows they own.                                        *)

\* The process has been given a token it may still use.
Engaged == {"validate"} \cup Executing \cup Unwinding
Tracked == {"validate"} \cup Executing

\* No two processes were given the same token.
TokensDiffer ==
    /\ \A w \in Workers : pc[w] \in Engaged => token[w] \in 1..issued
    /\ \A v, w \in Workers :
           pc[v] \in Engaged /\ pc[w] \in Engaged /\ token[v] = token[w] => v = w

\* The rows agree with each other, and the owner of a row with the row.
CursorsAgree ==
    /\ \A e \in Evals : streamBars[e] = progress[e] /\ events[e] <= progress[e]
    /\ \A e \in Evals : runStatus[e] \in {"ABSENT", "CREATED"} => progress[e] = 0
    /\ \A w \in Workers : pc[w] \in Tracked /\ Owns(mine[w], token[w])
                             => cursor[w] = progress[mine[w]]
    /\ \A w \in Workers : pc[w] \in {"batch", "closing"} => cursor[w] = Chunks

\* A queued execution has a job, and one that unwinds from a stop was stopped.
StopsHaveReasons ==
    /\ \A w \in Workers :
           pc[w] \in Engaged /\ ~explicit[w] => jobStatus[mine[w]] # "NONE"
    /\ \A w \in Workers : pc[w] = "stopped" /\ Owns(mine[w], token[w])
                             => stopping[w] \/ stopRequested[mine[w]]

ExecutionInv == TokensDiffer /\ CursorsAgree /\ StopsHaveReasons

\* A worker carries on with what it knows, or is engaged no longer.
Keeps(w) ==
    \/ pc'[w] \notin Engaged
    \/ /\ pc[w] \in Engaged
       /\ pc'[w] \in Tracked => pc[w] \in Tracked
       /\ pc'[w] \in {"batch", "closing"} => cursor[w] = Chunks
       /\ pc'[w] = "stopped" => pc[w] = "stopped" \/ StopSeen(w)
       /\ mine'[w] = mine[w] /\ token'[w] = token[w] /\ explicit'[w] = explicit[w]
       /\ cursor'[w] = cursor[w] /\ (stopping[w] => stopping'[w])

\* Jobs stay, stops stay requested, and nobody becomes the owner of a row.
RowsKeep ==
    /\ \A e \in Evals : \A t : Owns(e, t)' => Owns(e, t)
    /\ \A e \in Evals : runStatus'[e] \in {"ABSENT", "CREATED"}
                             => runStatus[e] \in {"ABSENT", "CREATED"}
    /\ issued' = issued
    /\ \A e \in Evals : jobStatus[e] # "NONE" => jobStatus'[e] # "NONE"
    /\ \A e \in Evals : stopRequested[e] => stopRequested'[e]

LEMMA EngagedHasRun ==
    ASSUME TypeInv, NEW w \in Workers, pc[w] \in Engaged PROVE mine[w] \in Evals
BY DEF TypeInv, ProcInv, ServiceTypeOK, Engaged, Busy

LEMMA PcKinds ==
    /\ Tracked \subseteq Engaged /\ {"batch", "closing"} \subseteq Executing
    /\ Executing \subseteq Tracked /\ "stopped" \in Engaged /\ "stopped" \notin Tracked
BY DEF Tracked, Engaged, Executing, Open, Unwinding

\* What the owner of a row of a queue sees when it is told to stop.
LEMMA StopIsForReason ==
    ASSUME TablesInv, ExecutionInv, NEW w \in Workers, pc[w] \in Engaged,
           Owns(mine[w], token[w]), StopSeen(w)
    PROVE  stopping[w] \/ stopRequested[mine[w]]
<1>1. mine[w] \in Evals
  BY EngagedHasRun DEF TablesInv
<1>2. ~explicit[w] => HoldsJob(mine[w], token[w])
  BY <1>1 DEF ExecutionInv, StopsHaveReasons, TablesInv, OwnershipInv, JobOwnsRun, Owns, HoldsJob,
              RunRunning, JobRunning
<1> QED BY <1>2 DEF StopSeen

LEMMA ExecutionFrame ==
    ASSUME TablesInv, ExecutionInv, RowsKeep, UNCHANGED outputVars, \A w \in Workers : Keeps(w)
    PROVE  ExecutionInv'
<1>1. TokensDiffer'
  BY DEF ExecutionInv, TokensDiffer, RowsKeep, Keeps
<1>2. CursorsAgree'
  <2>1. \A e \in Evals : /\ streamBars'[e] = progress'[e] /\ events'[e] <= progress'[e]
                         /\ runStatus'[e] \in {"ABSENT", "CREATED"} => progress'[e] = 0
    BY DEF ExecutionInv, CursorsAgree, RowsKeep, outputVars
  <2>2. ASSUME NEW w \in Workers, pc'[w] \in Tracked, Owns(mine[w], token[w])'
        PROVE  cursor'[w] = progress'[mine'[w]]
    <3>1. Keeps(w) /\ pc'[w] \in Engaged
      BY <2>2, PcKinds
    <3>2. pc[w] \in Tracked /\ mine'[w] = mine[w] /\ token'[w] = token[w] /\ cursor'[w] = cursor[w]
      BY <2>2, <3>1 DEF Keeps
    <3>3. mine[w] \in Evals
      BY <3>2, PcKinds, EngagedHasRun DEF TablesInv
    <3>4. runStatus'[mine[w]] = "RUNNING" /\ owner'[mine[w]] = token[w]
      BY <2>2, <3>2 DEF Owns
    <3>5. Owns(mine[w], token[w])
      BY <3>3, <3>4 DEF RowsKeep, Owns
    <3> QED BY <3>2, <3>5 DEF ExecutionInv, CursorsAgree, outputVars
  <2>3. ASSUME NEW w \in Workers, pc'[w] \in {"batch", "closing"} PROVE cursor'[w] = Chunks
    BY <2>3, PcKinds DEF Keeps
  <2> QED BY <2>1, <2>2, <2>3 DEF CursorsAgree
<1>3. StopsHaveReasons'
  <2>1. ASSUME NEW w \in Workers, pc'[w] \in Engaged, ~explicit'[w]
        PROVE  jobStatus'[mine'[w]] # "NONE"
    <3>1. pc[w] \in Engaged /\ mine'[w] = mine[w] /\ explicit'[w] = explicit[w]
      BY <2>1 DEF Keeps
    <3>2. mine[w] \in Evals
      BY <3>1, EngagedHasRun DEF TablesInv
    <3> QED BY <2>1, <3>1, <3>2 DEF ExecutionInv, StopsHaveReasons, RowsKeep
  <2>2. ASSUME NEW w \in Workers, pc'[w] = "stopped", Owns(mine[w], token[w])'
        PROVE  stopping'[w] \/ stopRequested'[mine'[w]]
    <3>1. /\ pc[w] \in Engaged /\ (pc[w] = "stopped" \/ StopSeen(w))
          /\ mine'[w] = mine[w] /\ token'[w] = token[w] /\ (stopping[w] => stopping'[w])
      BY <2>2, PcKinds DEF Keeps
    <3>2. mine[w] \in Evals
      BY <3>1, EngagedHasRun DEF TablesInv
    <3>3. Owns(mine[w], token[w])
      BY <2>2, <3>1, <3>2 DEF RowsKeep, Owns
    <3>4. stopping[w] \/ stopRequested[mine[w]]
      BY <3>1, <3>3, StopIsForReason DEF ExecutionInv, StopsHaveReasons
    <3> QED BY <3>1, <3>2, <3>4 DEF RowsKeep
  <2> QED BY <2>1, <2>2 DEF StopsHaveReasons
<1> QED BY <1>1, <1>2, <1>3 DEF ExecutionInv

\* A claim hands out a token nobody has, on a row nobody wrote yet.
LEMMA ClaimExecutes ==
    ASSUME TablesInv, ExecutionInv, NEW w \in Workers, NEW e \in Evals, NEW label \in Tracked,
           NEW direct \in BOOLEAN, ClaimEvaluation(e), Take(w, label, e, issued + 1, direct),
           label \notin {"batch", "closing"}, direct \/ jobStatus'[e] # "NONE",
           \A f \in Evals : jobStatus[f] # "NONE" => jobStatus'[f] # "NONE",
           stopRequested' = stopRequested
    PROVE  ExecutionInv'
<1> USE DEF TablesInv, TypeInv, RunTypeOK, ProcInv, ServiceTypeOK, ExecutionInv
<1>1. /\ pc'[w] = label /\ mine'[w] = e /\ token'[w] = issued + 1
      /\ cursor'[w] = 0 /\ explicit'[w] = direct
  BY DEF Take
<1>2. \A v \in Workers : v # w => /\ pc'[v] = pc[v] /\ mine'[v] = mine[v]
                                  /\ token'[v] = token[v] /\ cursor'[v] = cursor[v]
                                  /\ explicit'[v] = explicit[v] /\ stopping'[v] = stopping[v]
  BY DEF Take
<1>3. issued' = issued + 1 /\ issued \in Nat
  BY DEF ClaimEvaluation
<1>4. TokensDiffer'
  BY <1>1, <1>2, <1>3 DEF TokensDiffer
<1>5. ASSUME NEW v \in Workers, v # w, pc[v] \in Engaged, Owns(mine[v], token[v])'
      PROVE  Owns(mine[v], token[v])
  <2>1. mine[v] \in Evals /\ token[v] # issued + 1
    BY <1>3, <1>5, EngagedHasRun DEF TokensDiffer
  <2>2. runStatus'[mine[v]] = "RUNNING" /\ owner'[mine[v]] = token[v]
    BY <1>2, <1>5 DEF Owns
  <2>3. mine[v] # e
    BY <2>1, <2>2 DEF ClaimEvaluation
  <2> QED BY <2>1, <2>2, <2>3 DEF ClaimEvaluation, Owns
<1>6. CursorsAgree'
  <2>1. UNCHANGED outputVars /\ progress[e] = 0
    BY DEF ClaimEvaluation, CursorsAgree
  <2>2. \A f \in Evals : /\ streamBars'[f] = progress'[f] /\ events'[f] <= progress'[f]
                         /\ runStatus'[f] \in {"ABSENT", "CREATED"} => progress'[f] = 0
    BY <2>1 DEF ClaimEvaluation, CursorsAgree, outputVars
  <2>3. ASSUME NEW v \in Workers, pc'[v] \in Tracked, Owns(mine[v], token[v])'
        PROVE  cursor'[v] = progress'[mine'[v]]
    <3>1. CASE v = w
      BY <1>1, <2>1, <3>1 DEF outputVars
    <3>2. CASE v # w
      BY <1>2, <1>5, <2>1, <2>3, <3>2, PcKinds DEF CursorsAgree, outputVars
    <3> QED BY <3>1, <3>2
  <2>4. \A v \in Workers : pc'[v] \in {"batch", "closing"} => cursor'[v] = Chunks
    BY <1>1, <1>2 DEF CursorsAgree
  <2> QED BY <2>2, <2>3, <2>4 DEF CursorsAgree
<1>7. StopsHaveReasons'
  <2>1. ASSUME NEW v \in Workers, pc'[v] \in Engaged, ~explicit'[v]
        PROVE  jobStatus'[mine'[v]] # "NONE"
    BY <1>1, <1>2, <2>1, EngagedHasRun DEF StopsHaveReasons
  <2>2. ASSUME NEW v \in Workers, pc'[v] = "stopped", Owns(mine[v], token[v])'
        PROVE  stopping'[v] \/ stopRequested'[mine'[v]]
    <3>1. v # w
      BY <1>1, <2>2, PcKinds
    <3> QED BY <1>2, <1>5, <2>2, <3>1, PcKinds DEF StopsHaveReasons
  <2> QED BY <2>1, <2>2 DEF StopsHaveReasons
<1> QED BY <1>4, <1>6, <1>7

-------------------------------------------------------------------------------
(* Every step keeps it.                                                    *)

LEMMA SameRowsKeep ==
    ASSUME UNCHANGED <<runStatus, owner, issued, jobStatus, stopRequested>> PROVE RowsKeep
BY DEF RowsKeep, Owns

LEMMA SameProcsKeep == ASSUME UNCHANGED procVars, ExecutionInv PROVE \A w \in Workers : Keeps(w)
BY DEF procVars, Keeps, ExecutionInv, CursorsAgree

\* One worker moves, the others do not.
LEMMA OthersKeep ==
    ASSUME TypeInv, ExecutionInv, NEW w \in Workers, Keeps(w),
           \/ \E label : Goto(w, label)
           \/ \E label : Leave(w, label)
    PROVE  \A v \in Workers : Keeps(v)
<1> SUFFICES ASSUME NEW v \in Workers, v # w PROVE Keeps(v)
  OBVIOUS
<1>1. /\ pc'[v] = pc[v] /\ mine'[v] = mine[v] /\ token'[v] = token[v] /\ cursor'[v] = cursor[v]
      /\ explicit'[v] = explicit[v] /\ stopping'[v] = stopping[v]
  BY DEF Goto, Leave, Take, TypeInv, ProcInv, ServiceTypeOK
<1> QED BY <1>1 DEF Keeps, ExecutionInv, CursorsAgree

LEMMA LeaveKeeps ==
    ASSUME TypeInv, ExecutionInv, NEW w \in Workers, NEW label \in {"idle", "down"}, Leave(w, label)
    PROVE  \A v \in Workers : Keeps(v)
<1>1. pc'[w] = label
  BY DEF Leave, Take, TypeInv, ProcInv, ServiceTypeOK
<1>2. label \notin Engaged
  BY DEF Engaged, Executing, Open, Unwinding
<1> QED BY <1>1, <1>2, OthersKeep DEF Keeps

LEMMA GotoKeeps ==
    ASSUME TypeInv, ExecutionInv, NEW w \in Workers, NEW label, Goto(w, label),
           \/ label \notin Engaged
           \/ /\ pc[w] \in Engaged
              /\ label \in Tracked => pc[w] \in Tracked
              /\ label \in {"batch", "closing"} => cursor[w] = Chunks
              /\ label = "stopped" => StopSeen(w)
    PROVE  \A v \in Workers : Keeps(v)
<1>1. pc'[w] = label /\ UNCHANGED <<mine, token, explicit, cursor, stopping>>
  BY DEF Goto, TypeInv, ProcInv, ServiceTypeOK
<1>2. Keeps(w)
  BY <1>1 DEF Keeps
<1> QED BY <1>2, OthersKeep

LEMMA AfterRunKeeps ==
    ASSUME TypeInv, ExecutionInv, NEW w \in Workers, AfterRun(w)
    PROVE  \A v \in Workers : Keeps(v)
<1>1. CASE explicit[w]
  BY <1>1, LeaveKeeps DEF AfterRun
<1>2. CASE ~explicit[w]
  <2>1. "receipt" \notin Engaged
    BY DEF Engaged, Executing, Open, Unwinding
  <2> QED BY <1>2, <2>1, GotoKeeps DEF AfterRun
<1> QED BY <1>1, <1>2

LEMMA EndRunsKeep ==
    ASSUME TypeInv, NEW S, NEW status \in RunTerminal, EndRuns(S, status),
           \A e \in Evals : jobStatus[e] # "NONE" => jobStatus'[e] # "NONE",
           stopRequested' = stopRequested
    PROVE  RowsKeep
BY DEF RowsKeep, EndRuns, Owns, RunTerminal, TypeInv, RunTypeOK

LEMMA PollExecutes ==
    ASSUME TablesInv, ExecutionInv, NEW w \in Workers, Poll(w) PROVE ExecutionInv'
<1>1. CASE PollRecover(w)
  <2>1. \A e \in Evals : jobStatus[e] # "NONE" => jobStatus'[e] # "NONE"
    BY <1>1, JobEndType DEF PollRecover, RecoverStale, RecoveredJob, JobTerminal
  <2>2. RowsKeep
    BY <1>1, <2>1, EndRunsKeep DEF PollRecover, RecoverStale, TablesInv, RunTerminal
  <2>3. UNCHANGED outputVars /\ UNCHANGED procVars
    BY <1>1 DEF PollRecover, RecoverStale, EndRuns
  <2> QED BY <2>2, <2>3, SameProcsKeep, ExecutionFrame
<1>2. CASE PollReject(w)
  <2>1. PICK f \in Evals : RejectHead(f)
    BY <1>2 DEF PollReject
  <2>2. \A e \in Evals : jobStatus[e] # "NONE" => jobStatus'[e] # "NONE"
    BY <2>1 DEF RejectHead, TablesInv, TypeInv, QueueTypeOK
  <2>3. RowsKeep
    BY <2>1, <2>2, EndRunsKeep DEF RejectHead, TablesInv, RunTerminal
  <2>4. UNCHANGED outputVars /\ UNCHANGED procVars
    BY <1>2, <2>1 DEF PollReject, RejectHead, EndRuns
  <2> QED BY <2>3, <2>4, SameProcsKeep, ExecutionFrame
<1>3. CASE PollClaim(w)
  <2>1. PICK e \in Evals : ClaimHead(e) /\ Take(w, "validate", e, issued + 1, FALSE)
    BY <1>3 DEF PollClaim
  <2>2. /\ jobStatus'[e] # "NONE"
        /\ \A f \in Evals : jobStatus[f] # "NONE" => jobStatus'[f] # "NONE"
        /\ stopRequested' = stopRequested
    BY <2>1 DEF ClaimHead, TablesInv, TypeInv, QueueTypeOK
  <2>3. "validate" \in Tracked
    BY DEF Tracked
  <2> QED BY <2>1, <2>2, <2>3, ClaimExecutes DEF ClaimHead
<1> QED BY <1>1, <1>2, <1>3 DEF Poll

\* A chunk is counted once: the owner's cursor is the row's.
LEMMA CommitChunkExecutes ==
    ASSUME TablesInv, ExecutionInv, NEW w \in Workers, CommitChunk(w) PROVE ExecutionInv'
<1> DEFINE e == mine[w]
<1> USE DEF TablesInv, TypeInv, RunTypeOK, ProcInv, ServiceTypeOK, ExecutionInv
<1>1. pc[w] = "chunk" /\ "chunk" \in Tracked /\ pc[w] \in Engaged
  BY PcKinds DEF CommitChunk, Executing, Open
<1>2. e \in Evals
  BY <1>1, EngagedHasRun
<1>3. PICK n \in {0, 1} : AdvanceEvaluation(e, token[w], cursor[w] + 1, n)
  BY DEF CommitChunk
<1>4. Owns(e, token[w]) /\ cursor[w] = progress[e]
  BY <1>1, <1>3 DEF AdvanceEvaluation, CursorsAgree
<1>5. /\ progress'[e] = cursor[w] + 1 /\ streamBars'[e] = cursor[w] + 1
      /\ events'[e] = events[e] + n /\ events[e] <= cursor[w]
      /\ \A f \in Evals : f # e => progress'[f] = progress[f] /\ streamBars'[f] = streamBars[f]
                                   /\ events'[f] = events[f]
  BY <1>2, <1>3, <1>4 DEF AdvanceEvaluation, CursorsAgree
<1>6. /\ UNCHANGED <<runStatus, owner, issued, jobStatus, stopRequested>>
      /\ UNCHANGED <<mine, token, explicit, stopping>>
      /\ cursor'[w] = cursor[w] + 1 /\ pc'[w] \in {"ready", "touch"}
      /\ \A v \in Workers : v # w => pc'[v] = pc[v] /\ cursor'[v] = cursor[v]
  BY <1>3 DEF CommitChunk, AdvanceEvaluation, AfterCommit, jobVars
<1>7. TokensDiffer'
  BY <1>1, <1>6 DEF TokensDiffer
<1>8. CursorsAgree'
  <2>1. \A f \in Evals : /\ streamBars'[f] = progress'[f] /\ events'[f] <= progress'[f]
                         /\ runStatus'[f] \in {"ABSENT", "CREATED"} => progress'[f] = 0
    <3>1. events'[e] <= progress'[e]
      BY <1>2, <1>5
    <3> QED BY <1>2, <1>4, <1>5, <1>6, <3>1 DEF CursorsAgree, Owns
  <2>2. ASSUME NEW v \in Workers, pc'[v] \in Tracked, Owns(mine[v], token[v])'
        PROVE  cursor'[v] = progress'[mine'[v]]
    <3>1. CASE v = w
      BY <1>5, <1>6, <3>1
    <3>2. CASE v # w
      <4>1. pc[v] \in Tracked /\ pc[v] \in Engaged /\ Owns(mine[v], token[v])
        BY <1>6, <2>2, <3>2, PcKinds DEF Owns
      <4>2. mine[v] # e
        BY <1>1, <1>4, <3>2, <4>1 DEF TokensDiffer, Owns
      <4> QED BY <1>5, <1>6, <3>2, <4>1, <4>2, EngagedHasRun DEF CursorsAgree
    <3> QED BY <3>1, <3>2
  <2>3. \A v \in Workers : pc'[v] \in {"batch", "closing"} => cursor'[v] = Chunks
    BY <1>6 DEF CursorsAgree
  <2> QED BY <2>1, <2>2, <2>3 DEF CursorsAgree
<1>9. StopsHaveReasons'
  BY <1>1, <1>6 DEF StopsHaveReasons, Owns
<1> QED BY <1>7, <1>8, <1>9

\* An outcome batch repeats the final cursor, which is where the row is.
LEMMA CommitBatchExecutes ==
    ASSUME TablesInv, ExecutionInv, NEW w \in Workers, CommitBatch(w) PROVE ExecutionInv'
<1> DEFINE e == mine[w]
<1> USE DEF TablesInv, TypeInv, RunTypeOK, ProcInv, ServiceTypeOK, ExecutionInv
<1>1. pc[w] = "batch" /\ pc[w] \in Tracked /\ pc[w] \in Engaged
  BY PcKinds DEF CommitBatch
<1>2. e \in Evals /\ Owns(e, token[w]) /\ progress[e] = Chunks
  BY <1>1, EngagedHasRun DEF CommitBatch, StoreOutcomes, CursorsAgree
<1>3. /\ UNCHANGED <<runStatus, owner, issued, jobStatus, stopRequested, streamBars, events>>
      /\ UNCHANGED <<mine, token, explicit, stopping, cursor>>
      /\ progress' = progress
      /\ pc'[w] \in {"ready", "touch"} /\ \A v \in Workers : v # w => pc'[v] = pc[v]
  BY <1>2 DEF CommitBatch, StoreOutcomes, Goto, AfterCommit, jobVars
<1>4. TokensDiffer' /\ StopsHaveReasons'
  BY <1>1, <1>3 DEF TokensDiffer, StopsHaveReasons, Owns
<1>5. CursorsAgree'
  BY <1>1, <1>3 DEF CursorsAgree, Owns
<1> QED BY <1>4, <1>5

LEMMA WorkExecutes ==
    ASSUME TablesInv, ExecutionInv, NEW w \in Workers, Work(w) PROVE ExecutionInv'
<1>0. TypeInv
  BY DEF TablesInv
<1>1. CASE Validate(w)
  <2>1. PICK label \in {"ready", "receipt"} : Goto(w, label)
    BY <1>1 DEF Validate
  <2>2. "receipt" \notin Engaged /\ pc[w] \in Tracked /\ "ready" \in Tracked
    BY <1>1 DEF Validate, Engaged, Tracked, Executing, Open, Unwinding
  <2>3. \A v \in Workers : Keeps(v)
    BY <1>0, <2>1, <2>2, PcKinds, GotoKeeps
  <2> QED BY <1>1, <2>3, SameRowsKeep, ExecutionFrame DEF Validate, runVars, jobVars, outputVars
<1>2. CASE BeginChunk(w) \/ BeginBatch(w) \/ BeginFinish(w)
  <2>1. PICK label \in Open : Goto(w, label)
    BY <1>2 DEF BeginChunk, BeginBatch, BeginFinish, Open
  <2>2. pc[w] = "ready" /\ (label \in {"batch", "closing"} => cursor[w] = Chunks)
    BY <1>2, <2>1 DEF BeginChunk, BeginBatch, BeginFinish, Goto, TypeInv, TablesInv, ProcInv,
                      ServiceTypeOK
  <2>3. "ready" \in Tracked /\ label # "stopped"
    BY DEF Tracked, Executing, Open
  <2>4. \A v \in Workers : Keeps(v)
    BY <1>0, <2>1, <2>2, <2>3, PcKinds, GotoKeeps
  <2> QED BY <1>2, <2>4, SameRowsKeep, ExecutionFrame
          DEF BeginChunk, BeginBatch, BeginFinish, runVars, jobVars, outputVars
<1>3. CASE TouchAfterCommit(w)
  <2>1. Goto(w, "ready") /\ pc[w] = "touch"
    BY <1>3 DEF TouchAfterCommit
  <2>2. pc[w] \in Tracked
    BY <2>1 DEF Tracked, Executing
  <2>3. \A v \in Workers : Keeps(v)
    BY <1>0, <2>1, <2>2, PcKinds, GotoKeeps
  <2> QED BY <1>3, <2>3, SameRowsKeep, ExecutionFrame DEF TouchAfterCommit, TouchJob, outputVars
<1>4. CASE StopExecution(w)
  <2>1. Goto(w, "stopped") /\ pc[w] \in {"ready", "chunk", "batch"} /\ StopSeen(w)
    BY <1>4 DEF StopExecution
  <2>2. pc[w] \in Engaged /\ "stopped" \notin {"batch", "closing"}
    BY <2>1 DEF Engaged, Executing, Open
  <2>3. \A v \in Workers : Keeps(v)
    BY <1>0, <2>1, <2>2, PcKinds, GotoKeeps
  <2> QED BY <1>4, <2>3, SameRowsKeep, ExecutionFrame DEF StopExecution, runVars, jobVars, outputVars
<1>5. CASE FailExecution(w)
  <2>1. Goto(w, "failed") /\ pc[w] \in Executing
    BY <1>5 DEF FailExecution
  <2>2. pc[w] \in Engaged /\ "failed" \notin Tracked
    BY <2>1 DEF Engaged, Tracked, Executing, Open
  <2>3. \A v \in Workers : Keeps(v)
    BY <1>0, <2>1, <2>2, PcKinds, GotoKeeps
  <2> QED BY <1>5, <2>3, SameRowsKeep, ExecutionFrame DEF FailExecution, runVars, jobVars, outputVars
<1>6. CASE CommitFinish(w)
  <2>1. \A v \in Workers : Keeps(v)
    BY <1>0, <1>6, AfterRunKeeps DEF CommitFinish
  <2>2. RowsKeep
    BY <1>6 DEF CommitFinish, FinishDetection, RowsKeep, Owns, jobVars, TablesInv, TypeInv, RunTypeOK
  <2> QED BY <1>6, <2>1, <2>2, ExecutionFrame DEF CommitFinish, FinishDetection
<1>7. CASE Terminate(w)
  <2>1. \A v \in Workers : Keeps(v)
    BY <1>0, <1>7, AfterRunKeeps DEF Terminate
  <2> DEFINE S == IF Owns(mine[w], token[w]) THEN {mine[w]} ELSE {}
             status == IF pc[w] = "stopped" THEN "CANCELLED" ELSE "FAILED"
  <2>2. EndRuns(S, status) /\ status \in RunTerminal
    BY <1>7 DEF Terminate, RunTerminal
  <2>3. RowsKeep
    <3> HIDE DEF S, status
    <3> QED BY <1>0, <1>7, <2>2, EndRunsKeep DEF Terminate, jobVars
  <2> QED BY <2>1, <2>2, <2>3, ExecutionFrame DEF EndRuns
<1>8. CASE TerminationLost(w)
  BY <1>0, <1>8, AfterRunKeeps, SameRowsKeep, ExecutionFrame
     DEF TerminationLost, runVars, jobVars, outputVars
<1>9. CASE Receipt(w)
  <2>1. \A v \in Workers : Keeps(v)
    BY <1>0, <1>9, LeaveKeeps DEF Receipt
  <2>2. RowsKeep /\ UNCHANGED outputVars
    <3>1. CASE FinishJob(mine[w])
      BY <3>1, JobEndType DEF FinishJob, RowsKeep, Owns, runVars, outputVars, TablesInv, TypeInv,
                              QueueTypeOK, JobTerminal
    <3>2. CASE UNCHANGED <<runVars, jobVars, queueVars>>
      BY <3>2, SameRowsKeep DEF runVars, jobVars, outputVars
    <3> QED BY <1>9, <3>1, <3>2 DEF Receipt
  <2> QED BY <2>1, <2>2, ExecutionFrame
<1>10. CASE ExitLoop(w)
  BY <1>0, <1>10, LeaveKeeps, SameRowsKeep, ExecutionFrame
     DEF ExitLoop, SetAutomatic, runVars, jobVars, outputVars
<1> QED BY <1>1, <1>2, <1>3, <1>4, <1>5, <1>6, <1>7, <1>8, <1>9, <1>10, CommitChunkExecutes,
           CommitBatchExecutes DEF Work

LEMMA StepExecutes == ASSUME TablesInv, ExecutionInv, [Next]_vars PROVE ExecutionInv'
<1>0. TypeInv
  BY DEF TablesInv
<1>1. ASSUME NEW w \in Workers, ExplicitStart(w) PROVE ExecutionInv'
  <2>1. PICK e \in Evals : ClaimEvaluation(e) /\ Take(w, "ready", e, issued + 1, TRUE)
    BY <1>1 DEF ExplicitStart
  <2>2. jobStatus' = jobStatus /\ stopRequested' = stopRequested
    BY <1>1 DEF ExplicitStart, jobVars
  <2>3. "ready" \in Tracked
    BY DEF Tracked, Executing
  <2> QED BY <2>1, <2>2, <2>3, ClaimExecutes
<1>2. ASSUME NEW w \in Workers, Heartbeat(w) PROVE ExecutionInv'
  <2>1. /\ UNCHANGED <<runStatus, owner, issued, jobStatus, stopRequested>>
        /\ UNCHANGED outputVars /\ UNCHANGED procVars
    BY <1>2 DEF Heartbeat, TouchJob, TouchEvaluation, jobVars, outputVars
  <2> QED BY <2>1, SameRowsKeep, SameProcsKeep, ExecutionFrame
<1>3. ASSUME NEW w \in Workers, StartService(w) \/ Crash(w) PROVE ExecutionInv'
  BY <1>0, <1>3, LeaveKeeps, SameRowsKeep, ExecutionFrame
     DEF StartService, Crash, runVars, jobVars, outputVars
<1>4. ASSUME NEW w \in Workers, Signal(w) PROVE ExecutionInv'
  <2>1. \A v \in Workers : Keeps(v)
    BY <1>0, <1>4 DEF Signal, Keeps, ExecutionInv, CursorsAgree, TypeInv, ProcInv, ServiceTypeOK
  <2> QED BY <1>4, <2>1, SameRowsKeep, ExecutionFrame DEF Signal, runVars, jobVars, outputVars
<1>5. CASE Client
  <2>1. RowsKeep /\ UNCHANGED outputVars
    <3>1. ASSUME NEW e \in Evals, CreateRun(e) PROVE RowsKeep /\ UNCHANGED outputVars
      BY <3>1 DEF CreateRun, InsertEvaluation, RowsKeep, Owns, jobVars, TablesInv, TypeInv, RunTypeOK
    <3>2. ASSUME NEW e \in Evals, EnqueueEvaluation(e) PROVE RowsKeep /\ UNCHANGED outputVars
      BY <3>2 DEF EnqueueEvaluation, InsertJob, RowsKeep, Owns, runVars, outputVars, TablesInv,
                  TypeInv, QueueTypeOK
    <3>3. ASSUME NEW e \in Evals, SubmitJob(e) PROVE RowsKeep /\ UNCHANGED outputVars
      BY <3>3 DEF SubmitJob, InsertEvaluation, InsertJob, RowsKeep, Owns, TablesInv, TypeInv,
                  RunTypeOK, QueueTypeOK
    <3>4. ASSUME NEW e \in Evals, CancelRunning(e) PROVE RowsKeep /\ UNCHANGED outputVars
      BY <3>4 DEF CancelRunning, RowsKeep, Owns, runVars, outputVars, TablesInv, TypeInv, QueueTypeOK
    <3>5. ASSUME NEW e \in Evals, CancelQueued(e) PROVE RowsKeep /\ UNCHANGED outputVars
      <4>1. \A f \in Evals : jobStatus[f] # "NONE" => jobStatus'[f] # "NONE"
        BY <3>5 DEF CancelQueued, TablesInv, TypeInv, QueueTypeOK
      <4> QED BY <1>0, <3>5, <4>1, EndRunsKeep DEF CancelQueued, EndRuns, RunTerminal
    <3>6. CASE ReorderWaiting \/ \E b \in BOOLEAN : SetAutomatic(b)
      BY <3>6, SameRowsKeep DEF ReorderWaiting, SetAutomatic, runVars, jobVars, outputVars
    <3> QED BY <1>5, <3>1, <3>2, <3>3, <3>4, <3>5, <3>6 DEF Client, CancelJob
  <2> QED BY <1>5, <2>1, SameProcsKeep, ExecutionFrame DEF Client
<1>6. CASE Tick \/ UNCHANGED vars
  BY <1>6, SameRowsKeep, SameProcsKeep, ExecutionFrame
     DEF Tick, vars, runVars, jobVars, procVars, outputVars
<1> QED BY <1>1, <1>2, <1>3, <1>4, <1>5, <1>6, PollExecutes, WorkExecutes DEF Next

LEMMA ExecutionAlways == Spec => []ExecutionInv
<1>1. Init => ExecutionInv
  BY DEF Init, RunInit, ExecutionInv, TokensDiffer, CursorsAgree, StopsHaveReasons, Engaged, Tracked,
         Executing, Open, Unwinding
<1> QED BY <1>1, StepExecutes, TablesInvAlways, PTL DEF Spec

\* A candle is counted exactly once per committed chunk, whoever executes, and
\* a process that owns its run agrees with the table about how far it is.
THEOREM ChunksOnce == Spec => []ChunksExactlyOnce
<1>1. ExecutionInv => ChunksExactlyOnce
  BY PcKinds DEF ExecutionInv, CursorsAgree, ChunksExactlyOnce
<1> QED BY <1>1, ExecutionAlways, PTL

\* Only a step of the process that unwinds from a stop cancels an execution.
LEMMA CancelledStep ==
    ASSUME TablesInv, ExecutionInv, [Next]_vars, NEW e \in RunRunning, runStatus'[e] = "CANCELLED"
    PROVE  \/ stopRequested[e]
           \/ \E w \in Workers : stopping[w] /\ mine[w] = e /\ token[w] = owner[e]
<1>0. e \in Evals /\ runStatus[e] = "RUNNING"
  BY DEF RunRunning
<1>1. ASSUME NEW w \in Workers, Poll(w) PROVE FALSE
  BY <1>0, <1>1 DEF Poll, PollRecover, PollReject, PollClaim, RecoverStale, RejectHead, ClaimHead,
                    MayStart, RunRunning, EndRuns
<1>2. ASSUME NEW w \in Workers, Terminate(w)
      PROVE  stopRequested[e] \/ (stopping[w] /\ mine[w] = e /\ token[w] = owner[e])
  <2>1. mine[w] = e /\ Owns(e, token[w]) /\ pc[w] = "stopped"
    BY <1>0, <1>2 DEF Terminate, EndRuns
  <2> QED BY <2>1 DEF ExecutionInv, StopsHaveReasons, Owns
<1>3. ASSUME NEW w \in Workers, Work(w), ~Terminate(w) PROVE FALSE
  <2>1. CASE CommitFinish(w)
    BY <1>0, <2>1 DEF CommitFinish, FinishDetection, TablesInv, TypeInv, RunTypeOK
  <2>2. CASE ~CommitFinish(w)
    <3>1. runStatus' = runStatus
      BY <1>3, <2>2
         DEF Work, Validate, BeginChunk, CommitChunk, AdvanceEvaluation, BeginBatch, CommitBatch,
             StoreOutcomes, BeginFinish, TouchAfterCommit, TouchJob, StopExecution, FailExecution,
             TerminationLost, Receipt, FinishJob, ExitLoop, SetAutomatic, runVars
    <3> QED BY <1>0, <3>1
  <2> QED BY <2>1, <2>2
<1>4. ASSUME \/ \E w \in Workers : \/ ExplicitStart(w) \/ Heartbeat(w)
                                   \/ StartService(w) \/ Crash(w) \/ Signal(w)
             \/ Tick \/ UNCHANGED vars
      PROVE  FALSE
  <2>1. ASSUME NEW w \in Workers, ExplicitStart(w) PROVE FALSE
    BY <1>0, <2>1 DEF ExplicitStart, ClaimEvaluation, RunRunning
  <2>2. ASSUME NEW w \in Workers, Heartbeat(w) \/ StartService(w) \/ Crash(w) \/ Signal(w)
        PROVE  FALSE
    BY <1>0, <2>2 DEF Heartbeat, TouchJob, TouchEvaluation, StartService, Crash, Signal, runVars
  <2>3. CASE Tick \/ UNCHANGED vars
    BY <1>0, <2>3 DEF Tick, vars, runVars
  <2> QED BY <1>4, <2>1, <2>2, <2>3
<1>5. CASE Client
  <2>1. runStatus'[e] = runStatus[e]
    BY <1>0, <1>5
       DEF Client, CreateRun, EnqueueEvaluation, SubmitJob, InsertEvaluation, CancelJob, CancelRunning,
           CancelQueued, EndRuns, SetAutomatic, ReorderWaiting, runVars, TablesInv, TypeInv, RunTypeOK
  <2> QED BY <1>0, <2>1
<1> QED BY <1>1, <1>2, <1>3, <1>4, <1>5 DEF Next

\* An execution ends CANCELLED only because somebody asked for it, under the
\* token of the process that was asked.
THEOREM CancelledWhenAsked == Spec => CancelledOnRequest
<1>1. TablesInv /\ ExecutionInv /\ [Next]_vars =>
        [\A e \in RunRunning : runStatus'[e] = "CANCELLED" =>
            \/ stopRequested[e]
            \/ \E w \in Workers : stopping[w] /\ mine[w] = e /\ token[w] = owner[e]]_vars
  BY CancelledStep
<1> QED BY <1>1, TablesInvAlways, ExecutionAlways, PTL DEF Spec, CancelledOnRequest

-------------------------------------------------------------------------------
(* The service implements SerialQueue: the initial tables map to the empty *)
(* queue, and every transaction to one step of the queue or to a stutter.  *)

\* Reordering and submission keep the positions of waiting jobs distinct, and
\* below the counter the next one is taken from.
PlacesInv ==
    /\ \A e \in Waiting : position[e] < nextPosition
    /\ \A e, f \in Waiting : position[e] = position[f] => e = f

QueueInv == TablesInv /\ PlacesInv

\* What the mapping reads.
shownVars == <<jobStatus, position, automatic>>

\* One step of the queue, as the tables show it.
Shown == Serial!Next \/ UNCHANGED <<Waiting, waitingOrder, activeJob, jobResult, automatic>>

-------------------------------------------------------------------------------
(* The mapped state.                                                       *)

LEMMA ActiveIsRunning ==
    ASSUME OwnershipInv
    PROVE  /\ JobRunning = {} => activeJob = NoEval
           /\ \A e \in JobRunning : activeJob = e /\ JobRunning = {e}
           /\ activeJob # NoEval => activeJob \in JobRunning
<1>1. \A e \in JobRunning : JobRunning = {e}
  BY DEF OwnershipInv, OneExecution
<1>2. JobRunning # {} => (CHOOSE e \in JobRunning : TRUE) \in JobRunning
  OBVIOUS
<1> QED BY <1>1, <1>2 DEF activeJob

LEMMA OrderMembers ==
    \A e, f : <<e, f>> \in waitingOrder
                  <=> e \in Waiting /\ f \in Waiting /\ position[e] < position[f]
BY DEF waitingOrder

LEMMA ShownStable ==
    ASSUME PlacesInv, UNCHANGED shownVars, nextPosition' = nextPosition
    PROVE  PlacesInv' /\ Shown
BY DEF PlacesInv, Shown, shownVars, Waiting, JobRunning, waitingOrder, activeJob, jobResult

\* Progression is enabled or disabled; rows are left alone.
LEMMA ShownSwitch ==
    ASSUME PlacesInv, UNCHANGED <<jobStatus, position, nextPosition>>, automatic' \in BOOLEAN
    PROVE  PlacesInv' /\ Shown
<1>1. UNCHANGED <<Waiting, waitingOrder, activeJob, jobResult>>
  BY DEF Waiting, JobRunning, waitingOrder, activeJob, jobResult
<1>2. Serial!SetAutomatic
  BY <1>1 DEF Serial!SetAutomatic
<1> QED BY <1>2 DEF PlacesInv, Waiting, Shown, Serial!Next

-------------------------------------------------------------------------------
(* One job changes its status.                                             *)

LEMMA OneResult ==
    ASSUME QueueTypeOK, NEW e \in Evals, NEW s \in JobStatuses,
           jobStatus' = [jobStatus EXCEPT ![e] = s]
    PROVE  jobResult' = [jobResult EXCEPT ![e] = IF s \in JobTerminal THEN s ELSE "none"]
BY DEF QueueTypeOK, jobResult

LEMMA OneLeaves ==
    ASSUME QueueTypeOK, PlacesInv, NEW e \in Waiting, NEW s \in JobStatuses \ {"QUEUED"},
           jobStatus' = [jobStatus EXCEPT ![e] = s], UNCHANGED <<position, nextPosition>>
    PROVE  PlacesInv' /\ Serial!Leaves(e)
<1>1. Waiting' = Waiting \ {e}
  BY DEF QueueTypeOK, Waiting
<1>2. waitingOrder' = waitingOrder \cap (Waiting' \X Waiting')
  BY <1>1 DEF waitingOrder
<1>3. PlacesInv'
  BY <1>1 DEF PlacesInv
<1> QED BY <1>1, <1>2, <1>3 DEF Serial!Leaves

\* The job ends that holds the active slot.
LEMMA ActiveEnds ==
    ASSUME QueueInv, NEW e \in JobRunning, NEW s \in JobTerminal,
           jobStatus' = [jobStatus EXCEPT ![e] = s], UNCHANGED <<position, nextPosition>>,
           automatic' \in {automatic, FALSE}, s # "COMPLETED" => automatic' = FALSE
    PROVE  PlacesInv' /\ Shown
<1> USE DEF QueueInv, TablesInv, TypeInv
<1>1. e \in Evals /\ e # NoEval /\ JobTerminal \subseteq JobStatuses
  BY NoEvalAssumption DEF JobRunning, JobTerminal, JobStatuses
<1>2. activeJob = e /\ JobRunning = {e}
  BY ActiveIsRunning
<1>3. Waiting' = Waiting /\ JobRunning' = {}
  BY <1>1, <1>2 DEF QueueTypeOK, Waiting, JobRunning, JobTerminal
<1>4. waitingOrder' = waitingOrder /\ activeJob' = NoEval /\ PlacesInv'
  BY <1>3 DEF waitingOrder, activeJob, PlacesInv
<1>5. jobResult' = [jobResult EXCEPT ![activeJob] = s]
  BY <1>1, <1>2, OneResult
<1>6. s \in {"COMPLETED", "CANCELLED", "FAILED"}
  BY DEF JobTerminal
<1>7. Serial!End
  BY <1>1, <1>2, <1>3, <1>4, <1>5, <1>6 DEF Serial!End
<1> QED BY <1>4, <1>7 DEF Shown, Serial!Next

-------------------------------------------------------------------------------
(* Clients.                                                                *)

LEMMA InsertJobShown ==
    ASSUME QueueInv, NEW e \in Evals, InsertJob(e) PROVE PlacesInv' /\ Shown
<1> USE DEF QueueInv, TablesInv, TypeInv
<1>1. Waiting' = Waiting \cup {e} /\ e \notin Waiting /\ JobRunning' = JobRunning
  BY DEF InsertJob, QueueTypeOK, Waiting, JobRunning
<1>2. \A f \in Waiting : position'[f] = position[f] /\ position[f] < nextPosition
  BY <1>1 DEF InsertJob, QueueTypeOK, Waiting, PlacesInv
<1>3. position'[e] = nextPosition /\ nextPosition' = nextPosition + 1 /\ nextPosition \in Nat
  BY DEF InsertJob, QueueTypeOK
<1>n. \A f \in Waiting : position[f] \in Nat
  BY DEF QueueTypeOK, Waiting
<1>4. PlacesInv'
  BY <1>1, <1>2, <1>3, <1>n DEF PlacesInv
<1>5. waitingOrder' = waitingOrder \cup (Waiting \X {e})
  <2>1. \A f, g \in Waiting' : position'[f] < position'[g]
            <=> (f # e /\ g # e /\ position[f] < position[g]) \/ (f # e /\ g = e)
    <3> SUFFICES ASSUME NEW f \in Waiting', NEW g \in Waiting'
                 PROVE  position'[f] < position'[g]
                          <=> (f # e /\ g # e /\ position[f] < position[g]) \/ (f # e /\ g = e)
      OBVIOUS
    <3>1. CASE f = e
      BY <3>1, <1>1, <1>2, <1>3, <1>n
    <3>2. CASE f # e
      BY <3>2, <1>1, <1>2, <1>3, <1>n
    <3> QED BY <3>1, <3>2
  <2> QED BY <2>1, <1>1 DEF waitingOrder
<1>6. activeJob' = activeJob /\ e \notin Waiting \cup {activeJob}
  <2>1. e \notin JobRunning /\ e # NoEval
    BY NoEvalAssumption DEF InsertJob, JobRunning
  <2> QED BY <1>1, <2>1, ActiveIsRunning DEF activeJob
<1>7. jobResult[e] = "none" /\ jobResult' = jobResult
  BY DEF InsertJob, QueueTypeOK, jobResult, JobTerminal
<1>8. Serial!Submit(e)
  BY <1>1, <1>5, <1>6, <1>7 DEF Serial!Submit, InsertJob
<1> QED BY <1>4, <1>8 DEF Shown, Serial!Next

LEMMA ReorderShown ==
    ASSUME QueueInv, ReorderWaiting PROVE PlacesInv' /\ Shown
<1> USE DEF QueueInv, TablesInv, TypeInv
<1> DEFINE n == Cardinality(Waiting)
<1>1. n \in Nat /\ nextPosition \in Nat
  BY WaitingFinite DEF QueueTypeOK
<1>2. PICK place \in Bijection(Waiting, nextPosition..(nextPosition + n - 1)) :
          position' = [e \in Evals |-> IF e \in Waiting THEN place[e] ELSE position[e]]
  BY DEF ReorderWaiting
<1>3. Waiting' = Waiting /\ Waiting \subseteq Evals
  BY DEF ReorderWaiting, Waiting
<1>4. \A e \in Waiting : /\ position'[e] \in nextPosition..(nextPosition + n - 1)
                         /\ position'[e] = place[e]
  BY <1>2, <1>3 DEF Bijection, Injection
<1>5. \A e, f \in Waiting : position'[e] = position'[f] => e = f
  BY <1>2, <1>4 DEF Bijection, Injection, IsInjective
<1>6. PlacesInv'
  <2>1. nextPosition' = nextPosition + n
    BY DEF ReorderWaiting
  <2>2. \A e \in Waiting : position'[e] < nextPosition'
    BY <1>1, <1>4, <2>1
  <2> HIDE DEF n
  <2> QED BY <1>3, <1>5, <2>2 DEF PlacesInv
<1>7. \A e \in Waiting : position'[e] \in Nat
  BY <1>1, <1>4
<1>8. Serial!Orders(waitingOrder', Waiting)
  BY <1>3, <1>5, <1>7 DEF Serial!Orders, waitingOrder
<1>9. UNCHANGED <<activeJob, jobResult, automatic>>
  BY DEF ReorderWaiting, activeJob, JobRunning, jobResult
<1>10. Serial!Reorder
  BY <1>3, <1>8, <1>9 DEF Serial!Reorder
<1> QED BY <1>6, <1>10 DEF Shown, Serial!Next

LEMMA CancelShown ==
    ASSUME QueueInv, NEW e \in Evals, CancelJob(e) PROVE PlacesInv' /\ Shown
<1> USE DEF QueueInv, TablesInv, TypeInv
<1>1. CASE CancelRunning(e)
  BY <1>1, ShownSwitch DEF CancelRunning, PauseAutomatic
<1>2. CASE CancelQueued(e)
  <2>1. e \in Waiting /\ e \notin JobRunning
    BY <1>2 DEF CancelQueued, Waiting, JobRunning
  <2>2. jobStatus' = [jobStatus EXCEPT ![e] = "CANCELLED"]
        /\ UNCHANGED <<position, nextPosition, automatic>>
    BY <1>2 DEF CancelQueued, queueVars
  <2>3. PlacesInv' /\ Serial!Leaves(e)
    BY <2>1, <2>2, OneLeaves DEF JobStatuses
  <2>4. jobResult' = [jobResult EXCEPT ![e] = "CANCELLED"]
    BY <2>2, OneResult DEF JobStatuses, JobTerminal
  <2>5. activeJob' = activeJob
    <3>1. JobRunning' = JobRunning
      BY <2>1, <2>2 DEF JobRunning, QueueTypeOK
    <3> QED BY <3>1 DEF activeJob
  <2>6. Serial!Remove(e)
    BY <2>2, <2>3, <2>4, <2>5 DEF Serial!Remove
  <2> QED BY <2>3, <2>6 DEF Shown, Serial!Next
<1> QED BY <1>1, <1>2 DEF CancelJob

LEMMA ClientShown == ASSUME QueueInv, Client PROVE PlacesInv' /\ Shown
<1>1. ASSUME NEW e \in Evals, CreateRun(e) PROVE PlacesInv' /\ Shown
  BY <1>1, ShownStable DEF QueueInv, CreateRun, shownVars, jobVars, queueVars
<1>2. ASSUME NEW e \in Evals, EnqueueEvaluation(e) \/ SubmitJob(e) PROVE PlacesInv' /\ Shown
  BY <1>2, InsertJobShown DEF EnqueueEvaluation, SubmitJob
<1>3. ASSUME NEW b \in BOOLEAN, SetAutomatic(b) PROVE PlacesInv' /\ Shown
  BY <1>3, ShownSwitch DEF QueueInv, SetAutomatic, jobVars
<1> QED BY <1>1, <1>2, <1>3, CancelShown, ReorderShown DEF Client

-------------------------------------------------------------------------------
(* The scheduler loop.                                                     *)

LEMMA HeadIsFirst ==
    ASSUME QueueInv, NEW e \in Evals, MayStart(e)
    PROVE  e \in Waiting /\ e # NoEval /\ Serial!MayStart(e)
<1> USE DEF QueueInv, TablesInv, TypeInv
<1>1. e \in Waiting /\ automatic /\ activeJob = NoEval /\ e # NoEval
  BY ActiveIsRunning, NoEvalAssumption DEF MayStart
<1>2. \A f \in Waiting : position[f] \in Nat /\ position[e] <= position[f] /\ position[e] \in Nat
  BY <1>1 DEF MayStart, QueueTypeOK, Waiting
<1>3. \A f \in Waiting : <<f, e>> \notin waitingOrder
  BY <1>2, OrderMembers
<1> QED BY <1>1, <1>3 DEF Serial!MayStart

LEMMA RejectHeadShown ==
    ASSUME QueueInv, NEW e \in Evals, RejectHead(e) PROVE PlacesInv' /\ Shown
<1> USE DEF QueueInv, TablesInv, TypeInv
<1>1. e \in Waiting /\ Serial!MayStart(e)
  BY HeadIsFirst DEF RejectHead
<1>2. /\ jobStatus' = [jobStatus EXCEPT ![e] = "FAILED"]
      /\ UNCHANGED <<position, nextPosition>>
      /\ automatic' = FALSE
  BY DEF RejectHead, PauseAutomatic
<1>3. PlacesInv' /\ Serial!Leaves(e)
  BY <1>1, <1>2, OneLeaves DEF JobStatuses
<1>4. jobResult' = [jobResult EXCEPT ![e] = "FAILED"]
  BY <1>2, OneResult DEF JobStatuses, JobTerminal
<1>5. activeJob' = activeJob
  <2>1. JobRunning' = JobRunning
    BY <1>1, <1>2 DEF JobRunning, Waiting, QueueTypeOK
  <2> QED BY <2>1 DEF activeJob
<1>6. Serial!Refuse(e)
  BY <1>1, <1>2, <1>3, <1>4, <1>5 DEF Serial!Refuse
<1> QED BY <1>3, <1>6 DEF Shown, Serial!Next

LEMMA ClaimHeadShown ==
    ASSUME QueueInv, NEW e \in Evals, ClaimHead(e) PROVE PlacesInv' /\ Shown
<1> USE DEF QueueInv, TablesInv, TypeInv
<1>1. e \in Waiting /\ Serial!MayStart(e) /\ JobRunning = {}
  BY HeadIsFirst DEF ClaimHead, MayStart
<1>2. /\ jobStatus' = [jobStatus EXCEPT ![e] = "RUNNING"]
      /\ UNCHANGED <<position, nextPosition, automatic>>
  BY DEF ClaimHead, queueVars
<1>3. PlacesInv' /\ Serial!Leaves(e)
  BY <1>1, <1>2, OneLeaves DEF JobStatuses
<1>4. jobResult' = jobResult
  BY <1>1, <1>2 DEF jobResult, Waiting, QueueTypeOK, JobTerminal
<1>5. JobRunning' = {e}
  BY <1>1, <1>2 DEF JobRunning, QueueTypeOK
<1>6. activeJob' = e
  BY <1>5 DEF activeJob
<1>7. Serial!Start(e)
  BY <1>1, <1>2, <1>3, <1>4, <1>6 DEF Serial!Start
<1> QED BY <1>3, <1>7 DEF Shown, Serial!Next

-------------------------------------------------------------------------------
(* Receipts and recovery.                                                  *)

LEMMA FinishJobShown ==
    ASSUME QueueInv, NEW e \in Evals, FinishJob(e) PROVE PlacesInv' /\ Shown
<1>1. e \in JobRunning /\ JobEnd(runStatus[e]) \in JobTerminal
  BY JobEndType DEF FinishJob, JobRunning
<1>2. /\ jobStatus' = [jobStatus EXCEPT ![e] = JobEnd(runStatus[e])]
      /\ UNCHANGED <<position, nextPosition>>
      /\ automatic' \in {automatic, FALSE}
      /\ JobEnd(runStatus[e]) # "COMPLETED" => automatic' = FALSE
  BY DEF FinishJob, PauseAutomatic
<1> QED BY <1>1, <1>2, ActiveEnds

\* Recovery takes away at most the one active job.
LEMMA RecoverStaleShown == ASSUME QueueInv, RecoverStale PROVE PlacesInv' /\ Shown
<1> USE DEF QueueInv, TablesInv, TypeInv
<1>1. UNCHANGED <<position, nextPosition>> /\ automatic' = FALSE
  BY DEF RecoverStale, PauseAutomatic
<1>2. \A e \in Evals : e \notin StaleJobs => RecoveredJob(e) = jobStatus[e]
  <2> SUFFICES ASSUME NEW e \in Evals, e \notin StaleJobs PROVE RecoveredJob(e) = jobStatus[e]
    OBVIOUS
  <2>1. ~(e \in Orphans /\ jobStatus[e] = "QUEUED")
    BY DEF Orphans, OwnershipInv, JobOwnsRun, JobRunning, RunRunning, Waiting
  <2> QED BY <2>1 DEF RecoveredJob
<1>3. jobStatus' = [e \in Evals |-> RecoveredJob(e)] /\ jobStatus = [e \in Evals |-> jobStatus[e]]
  BY DEF RecoverStale, QueueTypeOK
<1>4. CASE StaleJobs = {}
  <2>1. jobStatus' = jobStatus
    BY <1>2, <1>3, <1>4
  <2> QED BY <1>1, <2>1, ShownSwitch
<1>5. CASE StaleJobs # {}
  <2>1. PICK e \in StaleJobs : TRUE
    BY <1>5
  <2>2. e \in JobRunning /\ e \in Evals /\ StaleJobs = {e}
    BY <2>1, ActiveIsRunning DEF StaleJobs, JobRunning
  <2>3. RecoveredJob(e) \in JobTerminal
    <3>1. ~(e \in Orphans /\ jobStatus[e] = "QUEUED")
      BY <2>2 DEF Orphans, JobRunning
    <3> QED BY <2>1, <3>1, JobEndType DEF RecoveredJob
  <2>4. jobStatus' = [jobStatus EXCEPT ![e] = RecoveredJob(e)]
    BY <1>2, <1>3, <2>2
  <2> QED BY <1>1, <2>2, <2>3, <2>4, ActiveEnds
<1> QED BY <1>4, <1>5

-------------------------------------------------------------------------------
(* Every step.                                                             *)

LEMMA PollShown == ASSUME QueueInv, NEW w \in Workers, Poll(w) PROVE PlacesInv' /\ Shown
BY RecoverStaleShown, RejectHeadShown, ClaimHeadShown DEF Poll, PollRecover, PollReject, PollClaim

\* Executing, explicitly or not, and refreshing leases are stutters.
LEMMA ProcessShown ==
    ASSUME QueueInv, NEW w \in Workers,
           \/ ExplicitStart(w) \/ Heartbeat(w) \/ StartService(w) \/ Crash(w) \/ Signal(w)
           \/ Work(w) /\ ~Receipt(w) /\ ~ExitLoop(w)
    PROVE  PlacesInv' /\ Shown
<1>1. UNCHANGED shownVars /\ nextPosition' = nextPosition
  <2>1. CASE ExplicitStart(w) \/ StartService(w) \/ Crash(w) \/ Signal(w)
    BY <2>1 DEF ExplicitStart, StartService, Crash, Signal, shownVars, jobVars, queueVars
  <2>2. CASE Heartbeat(w) \/ TouchAfterCommit(w)
    BY <2>2 DEF Heartbeat, TouchAfterCommit, TouchJob, shownVars, jobVars, queueVars
  <2>3. CASE Work(w) /\ ~Receipt(w) /\ ~ExitLoop(w) /\ ~TouchAfterCommit(w)
    BY <2>3 DEF Work, Validate, BeginChunk, CommitChunk, BeginBatch, CommitBatch, BeginFinish,
                CommitFinish, StopExecution, FailExecution, Terminate, TerminationLost,
                shownVars, jobVars, queueVars
  <2> QED BY <2>1, <2>2, <2>3
<1> QED BY <1>1, ShownStable DEF QueueInv

LEMMA WorkShown == ASSUME QueueInv, NEW w \in Workers, Work(w) PROVE PlacesInv' /\ Shown
<1>1. CASE Receipt(w)
  <2>1. CASE FinishJob(mine[w])
    <3>1. mine[w] \in Evals
      BY <1>1 DEF Receipt, QueueInv, TablesInv, TypeInv, ProcInv, ServiceTypeOK, Busy
    <3> QED BY <2>1, <3>1, FinishJobShown
  <2>2. CASE UNCHANGED <<runVars, jobVars, queueVars>>
    BY <2>2, ShownStable DEF QueueInv, shownVars, jobVars, queueVars
  <2> QED BY <1>1, <2>1, <2>2 DEF Receipt
<1>2. CASE ExitLoop(w)
  BY <1>2, ShownSwitch DEF QueueInv, ExitLoop, SetAutomatic, jobVars
<1> QED BY <1>1, <1>2, ProcessShown

LEMMA StepShown == ASSUME QueueInv, [Next]_vars PROVE PlacesInv' /\ Shown
<1>1. CASE UNCHANGED vars \/ Tick
  BY <1>1, ShownStable DEF QueueInv, vars, Tick, shownVars, jobVars, queueVars
<1>2. CASE Next /\ ~Tick
  BY <1>2, PollShown, WorkShown, ProcessShown, ClientShown DEF Next
<1> QED BY <1>1, <1>2

LEMMA InitShown == ASSUME Init PROVE PlacesInv /\ Serial!Init
<1>1. Waiting = {} /\ JobRunning = {}
  BY DEF Init, QueueInit, Waiting, JobRunning
<1>2. waitingOrder = {} /\ activeJob = NoEval /\ PlacesInv
  BY <1>1 DEF waitingOrder, activeJob, PlacesInv
<1>3. jobResult = [e \in Evals |-> "none"] /\ automatic = FALSE
  BY DEF Init, QueueInit, jobResult, JobTerminal
<1> QED BY <1>1, <1>2, <1>3 DEF Serial!Init

LEMMA QueueInvAlways == Spec => []QueueInv
<1>1. Init => QueueInv
  BY TablesInvInit, InitShown DEF QueueInv
<1>2. QueueInv /\ [Next]_vars => QueueInv'
  BY TablesInvStep, StepShown DEF QueueInv
<1> QED BY <1>1, <1>2, PTL DEF Spec

\* The evaluation service, whatever its processes, leases and crashes do, shows
\* its users the serial queue: every step of the tables is one of its steps.
THEOREM RefinesSerialQueue == Spec => ImplementsSerialQueue
<1>1. Init => Serial!Init
  BY InitShown
<1>2. QueueInv /\ [Next]_vars => [Serial!Next]_(Serial!vars)
  BY StepShown DEF Shown, Serial!vars
<1> QED BY <1>1, <1>2, QueueInvAlways, PTL DEF Spec, ImplementsSerialQueue, Serial!Spec

===============================================================================
