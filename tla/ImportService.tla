----------------------------- MODULE ImportService -----------------------------
(***************************************************************************)
(* The import worker (application/worker.py) running advance_import        *)
(* (application/historical_import.py), its clients, crashes and restarts.  *)
(*                                                                         *)
(* advance_import is a read of the job row, a provider page with its batch *)
(* file, a checkpoint transaction and, on the last page, a publication     *)
(* transaction; anything may happen between these.  The checkpoint reads   *)
(* its row before it updates it, and the update repeats only part of what  *)
(* was read, so these are two steps as well.                               *)
(***************************************************************************)
EXTENDS HistoryRanges

CONSTANTS Workers,       \* import worker processes
          ManualRanges,  \* [from, to] that clients import by hand
          MaxManual      \* bound of the model on such imports

ASSUME ManualAssumption ==
    \A range \in ManualRanges : range.from \in 0..Horizon /\ range.to \in 0..Horizon
                                 /\ range.from < range.to

VARIABLES pc,        \* where each worker is
          mine,      \* the job it advances
          seen,      \* what it last read of the job row
          fresh,     \* bars of its staged page
          stopping   \* SIGTERM/SIGINT received

procVars == <<pc, mine, seen, fresh, stopping>>
vars == <<importVars, historyVars, procVars>>

(***************************************************************************)
(* idle        between polls            begin     account, calendar checks *)
(* scan        the slot was found free                                     *)
(* read        about to read the job                                       *)
(* fetch       about to fetch a page    page      batch file written       *)
(* checkpoint  checkpoint row read      finalize  about to publish         *)
(* publish     revision directory made, transaction not committed          *)
(* turn        between pages            failing   about to record a failure*)
(***************************************************************************)
PcValues == {"down", "idle", "scan", "begin", "read", "fetch", "page", "checkpoint", "finalize",
             "publish", "turn", "failing"}
Busy == PcValues \ {"down", "idle", "scan"}
Rows == [token : 0..Horizon, pages : Nat, last : -1..Horizon]
NoRow == [token |-> 0, pages |-> 0, last |-> -1]

\* Type correctness of the tables, the files and the workers; a busy worker
\* always has a job that exists.
TypeOK ==
    /\ ImportTypeOK
    /\ HistoryTypeOK
    /\ pc \in [Workers -> PcValues]
    /\ \A w \in Workers : pc[w] \in Busy => mine[w] \in Known
    /\ seen \in [Workers -> Rows]
    /\ fresh \in [Workers -> SUBSET Minutes]
    /\ stopping \in [Workers -> BOOLEAN]

Init ==
    /\ ImportInit
    /\ HistoryInit
    /\ pc = [w \in Workers |-> "down"]
    /\ mine = [w \in Workers |-> CHOOSE j \in Jobs : TRUE]
    /\ seen = [w \in Workers |-> NoRow]
    /\ fresh = [w \in Workers |-> {}]
    /\ stopping = [w \in Workers |-> FALSE]

\* A worker forgets what it read whenever it moves to a new page.
Goto(w, label) ==
    /\ pc' = [pc EXCEPT ![w] = label]
    /\ UNCHANGED <<mine, seen, fresh, stopping>>

Forget(w, label) ==
    /\ pc' = [pc EXCEPT ![w] = label]
    /\ seen' = [seen EXCEPT ![w] = NoRow]
    /\ fresh' = [fresh EXCEPT ![w] = {}]
    /\ stopping' = [stopping EXCEPT ![w] = IF label = "down" THEN FALSE ELSE @]
    /\ UNCHANGED mine

Take(w, j) ==
    /\ pc' = [pc EXCEPT ![w] = "begin"]
    /\ mine' = [mine EXCEPT ![w] = j]
    /\ UNCHANGED <<seen, fresh, stopping>>

-------------------------------------------------------------------------------
(* The worker loop: schedule_history_import and claim_import_job are one   *)
(* transaction, whose statements each see what others committed before     *)
(* them.  Of these, the read of the slot is a step of its own.             *)

Start(w) ==
    /\ pc[w] = "down"
    /\ InterruptRunningImports
    /\ Forget(w, "idle")
    /\ UNCHANGED <<requestVars, progressVars, staged, directory, historyVars>>

\* claim_import_job.
Claim(w) ==
    /\ \E j \in Jobs :
           /\ status[j] = "queued"
           /\ status' = [status EXCEPT ![j] = "running"]
           /\ Take(w, j)
    /\ UNCHANGED <<requestVars, progressVars, staged, directory>>

\* The slot is taken by a queued job, so nothing is scheduled.
PollClaim(w) ==
    /\ pc[w] = "idle" /\ ~stopping[w]
    /\ Claim(w)
    /\ UNCHANGED historyVars

\* The slot is free.  (A poll without unsettled requests does nothing.)
PollSlot(w) ==
    /\ pc[w] = "idle" /\ ~stopping[w]
    /\ NoActiveImport /\ Scan # {}
    /\ Goto(w, "scan")
    /\ UNCHANGED <<importVars, historyVars>>

PollSchedule(w) ==
    /\ pc[w] = "scan"
    /\ \E j \in Jobs : ScheduleHistoryImport(j) /\ Take(w, j)

\* Nothing is scheduled and nothing queued, or a job that runs already.
PollNothing(w) ==
    /\ pc[w] = "scan"
    /\ \A j \in Jobs : status[j] # "queued"
    /\ ScheduleNothing
    /\ Goto(w, "idle")
    /\ UNCHANGED importVars

\* Nothing is scheduled, and what was queued since the slot was read is claimed.
PollOvertaken(w) ==
    /\ pc[w] = "scan"
    /\ ScheduleNothing
    /\ Claim(w)

ExitLoop(w) ==
    /\ pc[w] = "idle" /\ stopping[w]
    /\ Forget(w, "down")
    /\ UNCHANGED <<importVars, historyVars>>

-------------------------------------------------------------------------------
(* advance_import.                                                         *)

Fail(w) == Goto(w, "failing")

\* Whatever is not running any more cannot be advanced.
ReadRow(w) ==
    /\ pc[w] = "read"
    /\ LET j == mine[w] IN
       IF status[j] # "running" THEN Fail(w)
       ELSE IF complete[j] THEN Goto(w, "finalize")
       ELSE /\ pc' = [pc EXCEPT ![w] = "fetch"]
            /\ seen' = [seen EXCEPT ![w] =
                   [token |-> token[j], pages |-> pages[j],
                    last |-> IF BarsOf(j) = {} THEN -1 ELSE Max(BarsOf(j))]]
            /\ UNCHANGED <<mine, fresh, stopping>>
    /\ UNCHANGED <<importVars, historyVars>>

\* The bar a page repeats from the batch before it is dropped.
FetchPage(w) ==
    /\ pc[w] = "fetch"
    /\ LET j == mine[w]
           bars == Fetched(j, seen[w].token, PageEnd(j, seen[w].token))
           new == bars \ {seen[w].last} IN
       /\ StageBatch(j, seen[w].pages, new)
       /\ fresh' = [fresh EXCEPT ![w] = new]
    /\ pc' = [pc EXCEPT ![w] = "page"]
    /\ UNCHANGED <<status, requestVars, progressVars, directory, historyVars,
                   mine, seen, stopping>>

OpenCheckpoint(w) ==
    /\ pc[w] = "page"
    /\ IF CheckpointAllowed(mine[w], seen[w].token, fresh[w], seen[w].pages)
       THEN /\ pc' = [pc EXCEPT ![w] = "checkpoint"]
            /\ seen' = [seen EXCEPT ![w].pages = pages[mine[w]]]
            /\ UNCHANGED <<mine, fresh, stopping>>
       ELSE Fail(w)
    /\ UNCHANGED <<importVars, historyVars>>

CommitCheckpoint(w) ==
    /\ pc[w] = "checkpoint"
    /\ LET next == PageEnd(mine[w], seen[w].token) IN
       /\ CheckpointPage(mine[w], seen[w].pages, fresh[w], next)
       /\ Forget(w, IF next = to[mine[w]] THEN "finalize" ELSE "turn")
    /\ UNCHANGED historyVars

\* _finalize up to the revision directory.
OpenPublication(w) ==
    /\ pc[w] = "finalize"
    /\ status[mine[w]] = "running" /\ complete[mine[w]]
    /\ Publish(mine[w])
    /\ Goto(w, "publish")
    /\ UNCHANGED <<status, requestVars, progressVars, staged, historyVars>>

\* The rest of it: revision and lineage rows and complete_import_job.
CommitPublication(w) ==
    /\ pc[w] = "publish"
    /\ status[mine[w]] = "running" /\ complete[mine[w]]
    /\ status' = [status EXCEPT ![mine[w]] = "completed"]
    /\ Forget(w, "idle")
    /\ UNCHANGED <<requestVars, progressVars, staged, directory, historyVars>>

\* Any error of the provider, the files, the calendar or the database, and
\* every check above that did not pass.
GiveUp(w) ==
    /\ pc[w] \in Busy \ {"failing", "turn"}
    /\ Fail(w)
    /\ UNCHANGED <<importVars, historyVars>>

\* should_stop() is asked between pages; stopping interrupts what runs.
NextPage(w) ==
    /\ pc[w] \in {"begin", "turn"} /\ ~stopping[w]
    /\ Goto(w, "read")
    /\ UNCHANGED <<importVars, historyVars>>

StopBetweenPages(w) ==
    /\ pc[w] \in {"begin", "turn"} /\ stopping[w]
    /\ InterruptRunningImports
    /\ Forget(w, "idle")
    /\ UNCHANGED <<requestVars, progressVars, staged, directory, historyVars>>

\* Mistake: whatever became of the job, it is marked failed.
RecordFailureBlindly(w) ==
    /\ pc[w] = "failing"
    /\ status' = [status EXCEPT ![mine[w]] = "failed"]
    /\ Forget(w, "idle")
    /\ UNCHANGED <<requestVars, progressVars, staged, directory, historyVars>>

\* fail_import_job; it raises, and the worker dies, when the job does not run
\* any more.
RecordFailure(w) ==
    /\ pc[w] = "failing"
    /\ status' = SetRunning({mine[w]}, "failed")
    /\ Forget(w, IF status[mine[w]] = "running" THEN "idle" ELSE "down")
    /\ UNCHANGED <<requestVars, progressVars, staged, directory, historyVars>>

-------------------------------------------------------------------------------
(* Clients and failures.                                                   *)

ManualImport ==
    /\ Cardinality({j \in Known : kind[j] = "manual"}) < MaxManual
    /\ \E j \in Jobs, range \in ManualRanges, again \in BOOLEAN :
           CreateImportJob(j, "manual", range.from, range.to, again, "queued")
    /\ UNCHANGED <<historyVars, procVars>>

Client ==
    \/ ManualImport
    \/ \E j \in Jobs : ResumeImportJob(j) /\ UNCHANGED <<historyVars, procVars>>
    \/ \E r \in Requests : RequestHistory(r) /\ UNCHANGED procVars

Crash(w) ==
    /\ pc[w] # "down"
    /\ Forget(w, "down")
    /\ UNCHANGED <<importVars, historyVars>>

Signal(w) ==
    /\ pc[w] # "down" /\ ~stopping[w]
    /\ stopping' = [stopping EXCEPT ![w] = TRUE]
    /\ UNCHANGED <<importVars, historyVars, pc, mine, seen, fresh>>

Poll(w) ==
    PollClaim(w) \/ PollSlot(w) \/ PollSchedule(w) \/ PollNothing(w) \/ PollOvertaken(w)

Work(w) ==
    \/ ReadRow(w) \/ FetchPage(w) \/ OpenCheckpoint(w) \/ CommitCheckpoint(w)
    \/ OpenPublication(w) \/ CommitPublication(w) \/ GiveUp(w) \/ NextPage(w)
    \/ StopBetweenPages(w) \/ RecordFailure(w) \/ ExitLoop(w)

Next ==
    \/ \E w \in Workers : Poll(w) \/ Work(w) \/ Start(w) \/ Crash(w) \/ Signal(w)
    \/ Client

Spec == Init /\ [][Next]_vars

\* A live worker keeps polling and working; nobody promises restarts, resumes
\* or requests.
FairSpec == Spec /\ \A w \in Workers : WF_vars(Poll(w)) /\ WF_vars(Work(w))

-------------------------------------------------------------------------------
(* Safety.                                                                 *)

\* Exactly-once page checkpoints: what an import retains is always the bars the
\* provider has up to its token, each counted once and each in a durable file;
\* a completed import's revision holds the bars of its whole range.  No crash,
\* resume or second worker loses, repeats or invents a bar.
ExactAcquisition ==
    \A j \in Known :
        /\ BarsOf(j) = Traded \cap from[j]..(token[j] - 1)
        /\ barCount[j] = Cardinality(BarsOf(j))
        /\ {b \in batches : b.job = j} \subseteq staged
        /\ status[j] = "completed" => directory[j].bars = Traded \cap Requested(j)

\* No two imports the scheduler made overlap.
SharedApart ==
    \A i, j \in Known : i # j /\ kind[i] = "shared" /\ kind[j] = "shared"
                            => Requested(i) \cap Requested(j) = {}

\* A completed import delivers the minute, or all imports that were asked for it
\* have stopped: failed, interrupted, or completed without it.
Answered(m) ==
    \/ \E j \in Covering(m) : status[j] = "completed" /\ m \in directory[j].bars
    \/ Covering(m) # {} /\ \A j \in Covering(m) : status[j] \notin {"queued", "running"}

\* The scheduler asks the provider for a minute at most once, so that a failed or
\* empty range is never fetched in a loop.  And it settles a request, unless it
\* refuses it, only when every open minute of it is answered: it skips none, and
\* waits for every import that could still deliver one, even an import that took
\* the slot after the scheduler had found it free.
ServedOnce ==
    /\ []SharedApart
    /\ [][\A r \in (settled' \ settled) \ refused' :
             \A m \in RequestMinutes(r) \cap Open : Answered(m)]_vars

\* An ended import stays what it is, and the revision it published stays as it
\* was, whatever a superseded worker still does.
EndedImportStays ==
    [][\A j \in Jobs :
          /\ status[j] \in Terminal => status'[j] = status[j]
          /\ status[j] = "completed" => directory'[j] = directory[j]]_vars

\* A retry of an interrupted publication always finds the directory it would
\* make itself: the crash between directory and commit never blocks a resume.
\* (Of a single worker process at a time, which is how the service is deployed.)
RetryFindsItsOwn ==
    \A j \in Known : directory[j] # NoDirectory => directory[j] = Manifest(j)

-------------------------------------------------------------------------------
(* Liveness, while the one worker w is eventually always up.               *)

StaysUp(w) == <>[](pc[w] # "down")

\* Every durable request is eventually settled: behind manual imports, failed
\* imports and refused requests alike, and whatever import of a process that
\* died occupies the single running slot.
RequestsSettle ==
    \A w \in Workers : StaysUp(w) =>
        \A r \in Requests : r \in Range(asked) ~> r \in settled

===============================================================================
