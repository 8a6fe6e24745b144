------------------------------ MODULE ImportJobs ------------------------------
(***************************************************************************)
(* The import_jobs and import_batches tables (persistence/import_jobs.py), *)
(* the staged batch files (persistence/import_batches.py) and the revision *)
(* directories of DatasetStore.publish.  Each operator on the tables is    *)
(* the effect of one function; HistoryRanges and ImportService combine     *)
(* them into transactions.                                                 *)
(*                                                                         *)
(* Data abstraction.  Time is minutes 0..Horizon-1 and a bar is its        *)
(* minute; the provider has a bar for every minute of Traded.  A page      *)
(* token is the minute its cursor stands at.  active_slot is 1 exactly     *)
(* while a job is queued or running (a CHECK constraint), and its unique   *)
(* index is the guard NoActiveImport.  dataset_revisions has a row for a   *)
(* job exactly when the job is completed: one transaction writes both.     *)
(***************************************************************************)
EXTENDS Integers, FiniteSets, FiniteSetsExt

CONSTANTS MaxJobs,   \* bound of the model on the number of import jobs
          Horizon,   \* minutes of the modelled market
          Traded,    \* minutes the provider has a complete bar for
          Window,    \* minutes of one provider request (_WINDOW_CANDLES)
          Overlap    \* does a page repeat the bar before its cursor?

Jobs == 1..MaxJobs
Minutes == 0..(Horizon - 1)

ASSUME JobsAssumption == MaxJobs \in Nat \ {0}
ASSUME HorizonAssumption == Horizon \in Nat \ {0}
ASSUME TradedAssumption == Traded \subseteq Minutes
ASSUME WindowAssumption == Window \in Nat \ {0} /\ Overlap \in BOOLEAN

VARIABLES status,     \* [Jobs -> ImportStatuses]; none is "no row"
          kind,       \* dataset_id: asked for by hand, or shared-history-...
          from, to,   \* requested_start, requested_end
          token,      \* next_page_token
          complete,   \* fetch_complete
          pages,      \* pages_committed
          barCount,   \* bar_count
          retrieved,  \* retrieved_at, as the number of terminal checkpoints
          batches,    \* rows of import_batches
          staged,     \* batch files under imports/
          directory   \* revision directories under datasets/

progressVars == <<token, complete, pages, barCount, retrieved, batches>>
requestVars == <<kind, from, to>>
importVars == <<status, requestVars, progressVars, staged, directory>>

ImportStatuses == {"none", "queued", "running", "interrupted", "failed", "completed"}
Terminal == {"failed", "completed"}

\* A batch row and its file: content-addressed, so the bars name the file.
Batches == [job : Jobs, index : Nat, bars : SUBSET Minutes]

\* What a revision directory's manifest pins, or nothing.
NoDirectory == [bars |-> {}, stamp |-> 0]
Manifests == [bars : SUBSET Minutes, stamp : Nat]

ImportTypeOK ==
    /\ status \in [Jobs -> ImportStatuses]
    /\ kind \in [Jobs -> {"manual", "shared"}]
    /\ from \in [Jobs -> 0..Horizon] /\ to \in [Jobs -> 0..Horizon]
    /\ token \in [Jobs -> 0..Horizon]
    /\ complete \in [Jobs -> BOOLEAN]
    /\ pages \in [Jobs -> Nat] /\ barCount \in [Jobs -> Nat]
    /\ retrieved \in [Jobs -> Nat]
    /\ batches \subseteq Batches /\ staged \subseteq Batches
    /\ directory \in [Jobs -> Manifests]

ImportInit ==
    /\ status = [j \in Jobs |-> "none"]
    /\ kind = [j \in Jobs |-> "manual"]
    /\ from = [j \in Jobs |-> 0] /\ to = [j \in Jobs |-> 0]
    /\ token = [j \in Jobs |-> 0]
    /\ complete = [j \in Jobs |-> FALSE]
    /\ pages = [j \in Jobs |-> 0] /\ barCount = [j \in Jobs |-> 0]
    /\ retrieved = [j \in Jobs |-> 0]
    /\ batches = {} /\ staged = {}
    /\ directory = [j \in Jobs |-> NoDirectory]

Known == {j \in Jobs : status[j] # "none"}
NoActiveImport == \A j \in Jobs : status[j] \notin {"queued", "running"}
Requested(j) == from[j]..(to[j] - 1)
BarsOf(j) == UNION {b.bars : b \in {c \in batches : c.job = j}}

-------------------------------------------------------------------------------
(* The provider (external): one deterministic page per token.              *)

Fetched(j, t, end) ==
    (Traded \cap t..(end - 1)) \cup
    (IF Overlap /\ t > from[j] THEN Traded \cap {t - 1} ELSE {})

\* Windows without bars are skipped; a page without bars is the terminal one.
PageEnd(j, t) ==
    Min({end \in t..to[j] : /\ end = to[j] \/ (end > t /\ (end - t) % Window = 0)
                            /\ end = to[j] \/ Fetched(j, t, end) # {}})

-------------------------------------------------------------------------------
(* Lifecycle.                                                              *)

SameRequest(j, k, a, b) == kind[j] = k /\ from[j] = a /\ to[j] = b

\* Without fresh_attempt a known request returns its job instead.  Jobs are
\* numbered as they are created; slot is what the job is left in at the end of
\* the transaction: queued, or running when the same transaction claims it.
CreateImportJob(j, k, a, b, again, slot) ==
    /\ Jobs \ Known # {} /\ j = Min(Jobs \ Known)
    /\ again \/ \A i \in Known : ~SameRequest(i, k, a, b)
    /\ NoActiveImport
    /\ status' = [status EXCEPT ![j] = slot]
    /\ kind' = [kind EXCEPT ![j] = k]
    /\ from' = [from EXCEPT ![j] = a]
    /\ to' = [to EXCEPT ![j] = b]
    /\ token' = [token EXCEPT ![j] = a]
    /\ UNCHANGED <<complete, pages, barCount, retrieved, batches, staged, directory>>

SetRunning(S, new) == [j \in Jobs |-> IF j \in S /\ status[j] = "running" THEN new ELSE status[j]]

\* Every running job, whoever runs it.
InterruptRunningImports == status' = SetRunning(Jobs, "interrupted")

ResumeImportJob(j) ==
    /\ status[j] = "interrupted"
    /\ NoActiveImport
    /\ status' = [status EXCEPT ![j] = "queued"]
    /\ UNCHANGED <<requestVars, progressVars, staged, directory>>

-------------------------------------------------------------------------------
(* Progress.                                                               *)

\* The batch file is written and linked before anything is recorded.
StageBatch(j, index, fresh) ==
    staged' = IF fresh = {} THEN staged
              ELSE staged \cup {[job |-> j, index |-> index, bars |-> fresh]}

\* The checks checkpoint_import_page makes on the row it has read.
CheckpointAllowed(j, expected, fresh, index) ==
    /\ status[j] = "running" /\ ~complete[j]
    /\ token[j] = expected
    /\ fresh # {} => /\ index = pages[j]
                     /\ \A old \in BarsOf(j), new \in fresh : old < new

\* Mistake: the UPDATE trusts the row that was read.
CheckpointBlindly(j, readPages, fresh, next) ==
    /\ batches' = IF fresh = {} THEN batches
                  ELSE batches \cup {[job |-> j, index |-> readPages, bars |-> fresh]}
    /\ token' = [token EXCEPT ![j] = next]
    /\ complete' = [complete EXCEPT ![j] = (next = to[j])]
    /\ pages' = [pages EXCEPT ![j] = IF fresh = {} THEN @ ELSE @ + 1]
    /\ barCount' = [barCount EXCEPT ![j] = @ + Cardinality(fresh)]
    /\ retrieved' = [retrieved EXCEPT ![j] = IF next = to[j] THEN @ + 1 ELSE @]
    /\ UNCHANGED <<status, requestVars, staged, directory>>

\* Its INSERT and UPDATE; the UPDATE repeats only status and pages_committed.
CheckpointPage(j, readPages, fresh, next) ==
    /\ status[j] = "running" /\ pages[j] = readPages
    /\ fresh # {} => \A b \in batches : b.job = j => b.index # readPages
    /\ batches' = IF fresh = {} THEN batches
                  ELSE batches \cup {[job |-> j, index |-> readPages, bars |-> fresh]}
    /\ token' = [token EXCEPT ![j] = next]
    /\ complete' = [complete EXCEPT ![j] = (next = to[j])]
    /\ pages' = [pages EXCEPT ![j] = IF fresh = {} THEN @ ELSE @ + 1]
    /\ barCount' = [barCount EXCEPT ![j] = @ + Cardinality(fresh)]
    /\ retrieved' = [retrieved EXCEPT ![j] = IF next = to[j] THEN @ + 1 ELSE @]
    /\ UNCHANGED <<status, requestVars, staged, directory>>

\* The revision and lineage _publication derives from the row and its batches.
Manifest(j) == [bars |-> BarsOf(j), stamp |-> retrieved[j]]

\* Mistake: the manifest records the time of publication.
PublishDated(j) ==
    directory' = [directory EXCEPT ![j] = [bars |-> BarsOf(j), stamp |-> retrieved[j] + 1]]

\* DatasetStore.publish: a directory is created once and only ever reused by
\* an identical revision.
Publish(j) ==
    /\ directory[j] \in {NoDirectory, Manifest(j)}
    /\ directory' = [directory EXCEPT ![j] = Manifest(j)]

===============================================================================
