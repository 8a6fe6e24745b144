-------------------------- MODULE ImportServiceProofs --------------------------
(***************************************************************************)
(* Imports for any number of workers, jobs and requests, any market, any   *)
(* page size and any scan limit: what an import retains is what the        *)
(* provider has, an ended import stays, and a minute is asked for once.    *)
(***************************************************************************)
EXTENDS ImportService, FiniteSetTheorems, TLAPS

-------------------------------------------------------------------------------
(* Least and greatest elements.                                            *)

LEMMA LeastExists ==
    ASSUME NEW S, S \subseteq Nat, S # {} PROVE \E x \in S : \A y \in S : x <= y
<1> DEFINE Below == {0..x : x \in S}
           R == StrictSubsetOrdering(Nat)
<1>1. Below \subseteq FiniteSubsetsOf(Nat) /\ Below # {}
  <2>1. \A x \in S : 0..x \in FiniteSubsetsOf(Nat)
    <3> SUFFICES ASSUME NEW x \in S PROVE 0..x \in FiniteSubsetsOf(Nat)
      OBVIOUS
    <3>1. x \in Int /\ 0 \in Int /\ 0..x \subseteq Nat
      OBVIOUS
    <3>2. IsFiniteSet(0..x)
      BY <3>1, FS_Interval
    <3> QED BY <3>1, <3>2 DEF FiniteSubsetsOf
  <2> QED BY <2>1
<1>2. IsWellFoundedOn(R, FiniteSubsetsOf(Nat))
  BY FS_StrictSubsetOrderingWellFounded
<1>3. \A x, y \in S : y < x => <<0..y, 0..x>> \in R
  <2> SUFFICES ASSUME NEW x \in S, NEW y \in S, y < x PROVE <<0..y, 0..x>> \in R
    OBVIOUS
  <2>1. 0..y \subseteq 0..x /\ x \in 0..x /\ x \notin 0..y /\ 0..x \subseteq Nat
    OBVIOUS
  <2>2. 0..y # 0..x
    BY <2>1
  <2> QED BY <2>1, <2>2 DEF StrictSubsetOrdering
<1> HIDE DEF R
<1>4. PICK B \in Below : \A C \in Below : <<C, B>> \notin R
  <2> HIDE DEF Below
  <2> QED BY <1>1, <1>2, WFMin
<1>5. PICK x \in S : B = 0..x
  OBVIOUS
<1>6. \A y \in S : ~(y < x)
  BY <1>3, <1>4, <1>5
<1> QED BY <1>6

LEMMA MinIsLeast ==
    ASSUME NEW S, S \subseteq Nat, S # {} PROVE Min(S) \in S /\ \A y \in S : Min(S) <= y
BY LeastExists DEF Min

LEMMA MaxIsGreatest ==
    ASSUME NEW N \in Nat, NEW S, S \subseteq 0..N, S # {}
    PROVE  Max(S) \in S /\ \A y \in S : Max(S) >= y
<1> DEFINE T == {k \in 0..N : N - k \in S}
<1>1. T \subseteq Nat /\ T # {}
  <2>1. PICK x : x \in S
    OBVIOUS
  <2>2. N - x \in 0..N /\ N - (N - x) = x
    BY <2>1
  <2>3. N - x \in T
    BY <2>1, <2>2
  <2> QED BY <2>3
<1>2. PICK k \in T : \A m \in T : k <= m
  BY <1>1, LeastExists
<1>3. \A y \in S : N - y \in T
  OBVIOUS
<1>4. N - k \in S /\ \A y \in S : N - k >= y
  BY <1>2, <1>3
<1> HIDE DEF T
<1> QED BY <1>4 DEF Max

-------------------------------------------------------------------------------
(* Pages: what lies between two tokens, for a range a..b.                  *)

Between(a, t) == Traded \cap a..(t - 1)
LastOf(S) == IF S = {} THEN -1 ELSE Max(S)

\* Fetched and PageEnd of a range, without the row they are read from.
PageBars(a, t, end) ==
    Between(t, end) \cup (IF Overlap /\ t > a THEN Traded \cap {t - 1} ELSE {})

PageEnds(a, b, t) ==
    {end \in t..b : /\ end = b \/ (end > t /\ (end - t) % Window = 0)
                    /\ end = b \/ PageBars(a, t, end) # {}}

PageOf(a, b, t) == Min(PageEnds(a, b, t))

LEMMA PageIsPageOf ==
    ASSUME NEW j, NEW t
    PROVE  /\ \A end : Fetched(j, t, end) = PageBars(from[j], t, end)
           /\ PageEnd(j, t) = PageOf(from[j], to[j], t)
BY DEF Fetched, PageBars, Between, PageEnd, PageOf, PageEnds

LEMMA Market == Horizon \in Nat /\ Traded \subseteq 0..(Horizon - 1) /\ Traded \subseteq Int
BY HorizonAssumption, TradedAssumption DEF Minutes

LEMMA PageInRange ==
    ASSUME NEW a \in Nat, NEW b \in Nat, NEW t \in a..b PROVE PageOf(a, b, t) \in t..b
<1>1. PageEnds(a, b, t) \subseteq t..b /\ b \in PageEnds(a, b, t) /\ t..b \subseteq Nat
  BY DEF PageEnds
<1>2. PageEnds(a, b, t) \subseteq Nat /\ PageEnds(a, b, t) # {}
  BY <1>1
<1>3. Min(PageEnds(a, b, t)) \in PageEnds(a, b, t)
  BY <1>2, MinIsLeast
<1> QED BY <1>1, <1>3 DEF PageOf

LEMMA LastIsLast ==
    ASSUME NEW a \in Nat, NEW t \in Nat
    PROVE  /\ Between(a, t) = {} => LastOf(Between(a, t)) = -1
           /\ Between(a, t) # {} => /\ LastOf(Between(a, t)) \in Between(a, t)
                                    /\ \A m \in Between(a, t) : m <= LastOf(Between(a, t))
<1>1. Between(a, t) \subseteq 0..Horizon
  BY Market DEF Between
<1>2. ASSUME Between(a, t) # {}
      PROVE  /\ Max(Between(a, t)) \in Between(a, t)
             /\ \A m \in Between(a, t) : Max(Between(a, t)) >= m
  BY <1>1, <1>2, Market, MaxIsGreatest
<1>3. \A m \in Between(a, t) : m \in Int
  BY <1>1
<1> QED BY <1>2, <1>3 DEF LastOf

\* Without the bar it repeats, a page is exactly what follows its token.
LEMMA PageWithoutRepeat ==
    ASSUME NEW a \in Nat, NEW t \in Nat, a <= t, NEW end
    PROVE  PageBars(a, t, end) \ {LastOf(Between(a, t))} = Between(t, end)
<1>1. \A m \in Between(t, end) : m \in Int /\ t <= m
  BY Market DEF Between
<1>2. LastOf(Between(a, t)) \notin Between(t, end)
  <2>1. CASE Between(a, t) = {}
    <3>1. LastOf(Between(a, t)) = -1 /\ ~(t <= -1)
      BY <2>1, LastIsLast
    <3> QED BY <1>1, <3>1
  <2>2. CASE Between(a, t) # {}
    <3>1. LastOf(Between(a, t)) \in Between(a, t)
      BY <2>2, LastIsLast
    <3>2. LastOf(Between(a, t)) < t
      BY <3>1, Market DEF Between
    <3> QED BY <1>1, <3>2
  <2> QED BY <2>1, <2>2
<1>3. ASSUME t > a, t - 1 \in Traded PROVE LastOf(Between(a, t)) = t - 1
  <2>1. t - 1 \in Between(a, t)
    BY <1>3 DEF Between
  <2>2. LastOf(Between(a, t)) \in Between(a, t) /\ t - 1 <= LastOf(Between(a, t))
    BY <2>1, LastIsLast
  <2>3. LastOf(Between(a, t)) \in Int /\ LastOf(Between(a, t)) <= t - 1
    BY <2>2, Market DEF Between
  <2> QED BY <2>2, <2>3
<1> QED BY <1>2, <1>3 DEF PageBars

\* Consecutive pages join without a hole or a repeat.
LEMMA PagesJoin ==
    ASSUME NEW a \in Nat, NEW t \in Nat, NEW u \in Nat, a <= t, t <= u
    PROVE  /\ Between(a, t) \cup Between(t, u) = Between(a, u)
           /\ Between(a, t) \cap Between(t, u) = {}
           /\ IsFiniteSet(Between(a, t)) /\ IsFiniteSet(Between(t, u))
           /\ Between(a, t) \subseteq Minutes /\ Between(t, u) \subseteq Minutes
<1>1. Between(a, t) \cup Between(t, u) = Between(a, u) /\ Between(a, t) \cap Between(t, u) = {}
  BY Market DEF Between
<1>2. IsFiniteSet(Traded)
  <2>1. 0 \in Int /\ Horizon - 1 \in Int
    BY Market
  <2>2. IsFiniteSet(0..(Horizon - 1))
    BY <2>1, FS_Interval
  <2> QED BY <2>2, Market, FS_Subset
<1>3. IsFiniteSet(Between(a, t)) /\ IsFiniteSet(Between(t, u))
  BY <1>2, FS_Subset DEF Between
<1> QED BY <1>1, <1>3, TradedAssumption DEF Between

-------------------------------------------------------------------------------
(* The invariant.                                                          *)

ImportTypes ==
    /\ ImportTypeOK /\ HistoryTypeOK
    /\ pc \in [Workers -> PcValues]
    /\ mine \in [Workers -> Jobs]
    /\ seen \in [Workers -> Rows]
    /\ fresh \in [Workers -> SUBSET Minutes]
    /\ stopping \in [Workers -> BOOLEAN]

\* A row, its batches and its revision; an unused row is blank.
JobInv(j) ==
    /\ j \in Known =>
           /\ token[j] \in from[j]..to[j]
           /\ BarsOf(j) = Between(from[j], token[j])
           /\ barCount[j] = Cardinality(BarsOf(j))
           /\ {b \in batches : b.job = j} \subseteq staged
           /\ complete[j] => token[j] = to[j]
           /\ status[j] = "completed" => directory[j].bars = Between(from[j], to[j])
    /\ j \notin Known => barCount[j] = 0 /\ ~complete[j] /\ \A b \in batches : b.job # j

Record(w) == [job |-> mine[w], index |-> seen[w].pages, bars |-> fresh[w]]

\* What a worker holds follows from the token it read.  Once its checkpoint is
\* open, a row without a new batch still holds what precedes that token: the
\* UPDATE, which repeats only pages_committed, needs no more than that.
WorkerInv(w) ==
    /\ pc[w] \in Busy => mine[w] \in Known
    /\ pc[w] \in {"fetch", "page", "checkpoint"} => seen[w].token \in from[mine[w]]..to[mine[w]]
    /\ pc[w] = "fetch" => seen[w].last = LastOf(Between(from[mine[w]], seen[w].token))
    /\ pc[w] \in {"page", "checkpoint"} =>
           /\ fresh[w] = Between(seen[w].token,
                                 PageOf(from[mine[w]], to[mine[w]], seen[w].token))
           /\ fresh[w] # {} => Record(w) \in staged
    /\ pc[w] = "checkpoint" =>
           /\ seen[w].pages <= pages[mine[w]]
           /\ seen[w].pages = pages[mine[w]] =>
                  BarsOf(mine[w]) = Between(from[mine[w]], seen[w].token)
    /\ pc[w] = "publish" =>
           directory[mine[w]].bars = Between(from[mine[w]], to[mine[w]])

ImportInv ==
    /\ ImportTypes
    /\ \A j \in Jobs : JobInv(j)
    /\ \A w \in Workers : WorkerInv(w)

-------------------------------------------------------------------------------
(* What the actions leave alone.                                           *)

LEMMA JobNumbers ==
    ASSUME ImportTypeOK, NEW j \in Jobs
    PROVE  /\ from[j] \in Nat /\ to[j] \in Nat /\ token[j] \in Nat /\ pages[j] \in Nat
           /\ Horizon \in Nat /\ Jobs \subseteq Nat
BY Market, JobsAssumption DEF ImportTypeOK, Jobs

\* Rows keep their progress; a revision is whole when its job is completed.
LEMMA JobsFrame ==
    ASSUME ImportInv, UNCHANGED requestVars, UNCHANGED progressVars, staged \subseteq staged',
           \A j \in Jobs : /\ status'[j] = "none" <=> status[j] = "none"
                           /\ status'[j] = "completed" =>
                                  \/ status[j] = "completed" /\ directory'[j] = directory[j]
                                  \/ directory'[j].bars = Between(from[j], to[j])
    PROVE  \A j \in Jobs : JobInv(j)'
<1> SUFFICES ASSUME NEW j \in Jobs PROVE JobInv(j)'
  OBVIOUS
<1>1. /\ from' = from /\ to' = to /\ token' = token /\ complete' = complete
      /\ barCount' = barCount /\ batches' = batches /\ BarsOf(j)' = BarsOf(j)
  BY DEF requestVars, progressVars, BarsOf
<1>2. j \in Known' <=> j \in Known
  BY DEF Known
<1> QED BY <1>1, <1>2 DEF ImportInv, JobInv

\* As far as other workers look, rows and files only grow.
RowsGrow ==
    /\ staged \subseteq staged'
    /\ \A j \in Known :
           /\ j \in Known' /\ from'[j] = from[j] /\ to'[j] = to[j]
           /\ pages'[j] \in Nat /\ pages[j] <= pages'[j]
           /\ pages'[j] = pages[j] => BarsOf(j)' = BarsOf(j)
           /\ directory'[j] = directory[j] \/ directory'[j].bars = Between(from[j], to[j])

LEMMA ProgressGrows ==
    ASSUME ImportInv, UNCHANGED requestVars, UNCHANGED progressVars, staged \subseteq staged',
           \A j \in Known : status'[j] # "none",
           \A j \in Known : directory'[j] = directory[j] \/ directory'[j].bars = Between(from[j], to[j])
    PROVE  RowsGrow
<1>1. /\ from' = from /\ to' = to /\ pages' = pages /\ batches' = batches
      /\ \A j : BarsOf(j)' = BarsOf(j)
  BY DEF requestVars, progressVars, BarsOf
<1>2. \A j \in Known : pages[j] \in Nat /\ pages[j] <= pages[j]
  BY JobNumbers DEF ImportInv, ImportTypes, Known
<1> QED BY <1>1, <1>2 DEF RowsGrow, Known

LEMMA QuietWorker ==
    ASSUME ImportInv, RowsGrow, NEW v \in Workers,
           pc'[v] = pc[v], mine'[v] = mine[v], seen'[v] = seen[v], fresh'[v] = fresh[v]
    PROVE  WorkerInv(v)'
<1>1. CASE pc[v] \notin Busy
  BY <1>1 DEF WorkerInv, Busy, PcValues
<1>2. CASE pc[v] \in Busy
  <2> DEFINE j == mine[v]
  <2>1. j \in Known /\ j \in Jobs /\ WorkerInv(v)
    BY <1>2 DEF ImportInv, ImportTypes, WorkerInv
  <2>2. /\ j \in Known' /\ from'[j] = from[j] /\ to'[j] = to[j]
        /\ pages'[j] \in Nat /\ pages[j] <= pages'[j] /\ (pages'[j] = pages[j] => BarsOf(j)' = BarsOf(j))
        /\ directory'[j] = directory[j] \/ directory'[j].bars = Between(from[j], to[j])
    BY <2>1 DEF RowsGrow
  <2>3. /\ pc'[v] \in {"fetch", "page", "checkpoint"} => seen'[v].token \in from'[j]..to'[j]
        /\ pc'[v] = "fetch" => seen'[v].last = LastOf(Between(from'[j], seen'[v].token))
    BY <2>1, <2>2 DEF WorkerInv
  <2>4. pc'[v] \in {"page", "checkpoint"} =>
           /\ fresh'[v] = Between(seen'[v].token, PageOf(from'[j], to'[j], seen'[v].token))
           /\ fresh'[v] # {} => Record(v)' \in staged'
    BY <2>1, <2>2 DEF WorkerInv, RowsGrow, Record
  <2>5. pc'[v] = "checkpoint" =>
           /\ seen'[v].pages <= pages'[j]
           /\ seen'[v].pages = pages'[j] => BarsOf(j)' = Between(from'[j], seen'[v].token)
    <3>1. seen[v].pages \in Nat /\ pages[j] \in Nat
      BY <2>1, JobNumbers DEF ImportInv, ImportTypes, Rows
    <3>2. ASSUME pc[v] = "checkpoint"
          PROVE  /\ seen[v].pages <= pages[j]
                 /\ seen[v].pages = pages[j] => BarsOf(j) = Between(from[j], seen[v].token)
      BY <2>1, <3>2 DEF WorkerInv
    <3> QED BY <2>2, <3>1, <3>2
  <2>6. pc'[v] = "publish" => directory'[j].bars = Between(from'[j], to'[j])
    BY <2>1, <2>2 DEF WorkerInv
  <2> QED BY <2>1, <2>2, <2>3, <2>4, <2>5, <2>6 DEF WorkerInv
<1> QED BY <1>1, <1>2

\* Where a worker holds nothing but a job.
LEMMA LightWorker ==
    ASSUME NEW w \in Workers, pc'[w] \in PcValues \ {"fetch", "page", "checkpoint", "publish"},
           pc'[w] \in Busy => mine'[w] \in Known'
    PROVE  WorkerInv(w)'
BY DEF WorkerInv

ProcTypes ==
    /\ pc \in [Workers -> PcValues] /\ mine \in [Workers -> Jobs] /\ seen \in [Workers -> Rows]
    /\ fresh \in [Workers -> SUBSET Minutes] /\ stopping \in [Workers -> BOOLEAN]

LEMMA OthersQuiet ==
    ASSUME ImportInv, RowsGrow, NEW w \in Workers, WorkerInv(w)',
           \A v \in Workers : v # w => /\ pc'[v] = pc[v] /\ mine'[v] = mine[v]
                                       /\ seen'[v] = seen[v] /\ fresh'[v] = fresh[v]
    PROVE  \A v \in Workers : WorkerInv(v)'
BY QuietWorker

LEMMA SameProcsQuiet ==
    ASSUME ImportInv, RowsGrow, UNCHANGED procVars
    PROVE  (\A v \in Workers : WorkerInv(v)') /\ ProcTypes'
BY QuietWorker DEF procVars, ProcTypes, ImportInv, ImportTypes

LEMMA GotoMoves ==
    ASSUME ImportInv, RowsGrow, NEW w \in Workers,
           NEW label \in PcValues \ {"fetch", "page", "checkpoint", "publish"},
           label \in Busy => pc[w] \in Busy, Goto(w, label)
    PROVE  (\A v \in Workers : WorkerInv(v)') /\ ProcTypes'
<1>1. pc'[w] = label /\ mine' = mine /\ seen' = seen /\ fresh' = fresh /\ ProcTypes'
  BY DEF Goto, ProcTypes, ImportInv, ImportTypes
<1>2. label \in Busy => mine'[w] \in Known'
  BY <1>1 DEF ImportInv, WorkerInv, RowsGrow
<1>3. WorkerInv(w)'
  BY <1>1, <1>2, LightWorker
<1> QED BY <1>1, <1>3, OthersQuiet DEF Goto, ImportInv, ImportTypes

LEMMA ForgetMoves ==
    ASSUME ImportInv, RowsGrow, NEW w \in Workers,
           NEW label \in PcValues \ {"fetch", "page", "checkpoint", "publish"}, Forget(w, label),
           label \in Busy => pc[w] \in Busy
    PROVE  (\A v \in Workers : WorkerInv(v)') /\ ProcTypes'
<1>0. NoRow \in Rows
  BY Market DEF NoRow, Rows
<1>1. pc'[w] = label /\ mine' = mine /\ ProcTypes'
  BY <1>0 DEF Forget, ProcTypes, ImportInv, ImportTypes
<1>2. label \in Busy => mine'[w] \in Known'
  BY <1>1 DEF ImportInv, WorkerInv, RowsGrow
<1>3. WorkerInv(w)'
  BY <1>1, <1>2, LightWorker
<1> QED BY <1>1, <1>3, OthersQuiet DEF Forget, ImportInv, ImportTypes

LEMMA TakeMoves ==
    ASSUME ImportInv, RowsGrow, NEW w \in Workers, NEW j \in Jobs, j \in Known', Take(w, j)
    PROVE  (\A v \in Workers : WorkerInv(v)') /\ ProcTypes'
<1>1. pc'[w] = "begin" /\ mine'[w] = j /\ ProcTypes'
  BY DEF Take, ProcTypes, ImportInv, ImportTypes, PcValues
<1>2. WorkerInv(w)'
  BY <1>1, LightWorker DEF PcValues
<1> QED BY <1>1, <1>2, OthersQuiet DEF Take, ImportInv, ImportTypes

\* Of the imports only statuses change; what becomes completed has its revision.
LEMMA RowsMove ==
    ASSUME ImportInv, UNCHANGED <<requestVars, progressVars, staged, directory>>,
           status' \in [Jobs -> ImportStatuses],
           \A j \in Jobs : /\ status'[j] = "none" <=> status[j] = "none"
                           /\ status'[j] = "completed" =>
                                  status[j] = "completed" \/ directory[j].bars = Between(from[j], to[j])
    PROVE  (\A j \in Jobs : JobInv(j)') /\ RowsGrow /\ ImportTypeOK'
<1>1. \A j \in Jobs : JobInv(j)'
  BY JobsFrame
<1>2. RowsGrow
  BY ProgressGrows DEF Known
<1>3. ImportTypeOK'
  BY DEF ImportInv, ImportTypes, ImportTypeOK, requestVars, progressVars
<1> QED BY <1>1, <1>2, <1>3

LEMMA StatusMoves ==
    ASSUME ImportInv, UNCHANGED <<requestVars, progressVars, staged, directory, historyVars>>,
           status' \in [Jobs -> ImportStatuses],
           \A j \in Jobs : /\ status'[j] = "none" <=> status[j] = "none"
                           /\ status'[j] = "completed" =>
                                  status[j] = "completed" \/ directory[j].bars = Between(from[j], to[j])
    PROVE  /\ (\A j \in Jobs : JobInv(j)') /\ RowsGrow
           /\ ImportTypeOK' /\ HistoryTypeOK'
<1>1. (\A j \in Jobs : JobInv(j)') /\ RowsGrow /\ ImportTypeOK'
  BY RowsMove
<1>2. HistoryTypeOK'
  BY DEF ImportInv, ImportTypes, HistoryTypeOK, historyVars
<1> QED BY <1>1, <1>2

LEMMA SetRunningTypes ==
    ASSUME ImportInv, NEW S, NEW new \in {"interrupted", "failed"}, status' = SetRunning(S, new)
    PROVE  /\ status' \in [Jobs -> ImportStatuses]
           /\ \A j \in Jobs : /\ status'[j] = "none" <=> status[j] = "none"
                              /\ status'[j] = "completed" => status[j] = "completed"
BY DEF SetRunning, ImportInv, ImportTypes, ImportTypeOK, ImportStatuses

LEMMA Assembled ==
    ASSUME ImportTypeOK', HistoryTypeOK', ProcTypes', \A j \in Jobs : JobInv(j)',
           \A v \in Workers : WorkerInv(v)'
    PROVE  ImportInv'
BY DEF ImportInv, ImportTypes, ProcTypes

LEMMA LightPcs ==
    /\ {"idle", "scan", "down", "begin", "read", "finalize", "turn", "failing"}
           \subseteq PcValues \ {"fetch", "page", "checkpoint", "publish"}
    /\ Busy = PcValues \ {"idle", "down", "scan"}
BY DEF PcValues, Busy

-------------------------------------------------------------------------------
(* The invariant is kept, action by action.                                *)

LEMMA StatusActions ==
    ASSUME ImportInv, NEW w \in Workers, Start(w) \/ StopBetweenPages(w) \/ RecordFailure(w)
    PROVE  ImportInv'
<1>1. /\ status' \in [Jobs -> ImportStatuses]
      /\ \A j \in Jobs : /\ status'[j] = "none" <=> status[j] = "none"
                         /\ status'[j] = "completed" => status[j] = "completed"
  <2>1. CASE status' = SetRunning(Jobs, "interrupted")
    BY <2>1, SetRunningTypes
  <2>2. CASE status' = SetRunning({mine[w]}, "failed")
    BY <2>2, SetRunningTypes
  <2> QED BY <2>1, <2>2 DEF Start, StopBetweenPages, RecordFailure, InterruptRunningImports
<1>2. UNCHANGED <<requestVars, progressVars, staged, directory, historyVars>>
  BY DEF Start, StopBetweenPages, RecordFailure
<1>3. /\ (\A j \in Jobs : JobInv(j)') /\ RowsGrow /\ ImportTypeOK' /\ HistoryTypeOK'
  BY <1>1, <1>2, StatusMoves
<1>4. PICK label \in {"idle", "down"} : Forget(w, label)
  BY DEF Start, StopBetweenPages, RecordFailure
<1>5. (\A v \in Workers : WorkerInv(v)') /\ ProcTypes'
  BY <1>3, <1>4, ForgetMoves, LightPcs
<1> QED BY <1>3, <1>5, Assembled

LEMMA ClaimMoves ==
    ASSUME ImportInv, NEW w \in Workers, Claim(w)
    PROVE  /\ (\A i \in Jobs : JobInv(i)') /\ ImportTypeOK'
           /\ (\A v \in Workers : WorkerInv(v)') /\ ProcTypes'
<1>1. PICK j \in Jobs : /\ status[j] = "queued" /\ Take(w, j)
                        /\ status' = [status EXCEPT ![j] = "running"]
  BY DEF Claim
<1>2. /\ status' \in [Jobs -> ImportStatuses] /\ j \in Known'
      /\ \A i \in Jobs : /\ status'[i] = "none" <=> status[i] = "none"
                         /\ status'[i] = "completed" => status[i] = "completed"
  BY <1>1 DEF ImportInv, ImportTypes, ImportTypeOK, ImportStatuses, Known
<1>3. (\A i \in Jobs : JobInv(i)') /\ RowsGrow /\ ImportTypeOK'
  BY <1>2, RowsMove DEF Claim
<1> QED BY <1>1, <1>2, <1>3, TakeMoves

LEMMA PollClaimActs == ASSUME ImportInv, NEW w \in Workers, PollClaim(w) PROVE ImportInv'
<1>1. HistoryTypeOK'
  BY DEF PollClaim, historyVars, ImportInv, ImportTypes, HistoryTypeOK
<1> QED BY <1>1, ClaimMoves, Assembled DEF PollClaim

LEMMA ResumeActs ==
    ASSUME ImportInv, NEW j \in Jobs, ResumeImportJob(j), UNCHANGED <<historyVars, procVars>>
    PROVE  ImportInv'
<1>1. /\ status' \in [Jobs -> ImportStatuses]
      /\ \A i \in Jobs : /\ status'[i] = "none" <=> status[i] = "none"
                         /\ status'[i] = "completed" => status[i] = "completed"
  BY DEF ResumeImportJob, ImportInv, ImportTypes, ImportTypeOK, ImportStatuses
<1>2. /\ (\A i \in Jobs : JobInv(i)') /\ RowsGrow /\ ImportTypeOK' /\ HistoryTypeOK'
  BY <1>1, StatusMoves DEF ResumeImportJob
<1> QED BY <1>2, SameProcsQuiet, Assembled

LEMMA CommitPublicationActs ==
    ASSUME ImportInv, NEW w \in Workers, CommitPublication(w) PROVE ImportInv'
<1>1. pc[w] = "publish" /\ mine[w] \in Jobs /\ status[mine[w]] = "running"
      /\ directory[mine[w]].bars = Between(from[mine[w]], to[mine[w]])
  BY DEF CommitPublication, ImportInv, ImportTypes, WorkerInv
<1>2. /\ status' \in [Jobs -> ImportStatuses]
      /\ \A i \in Jobs : /\ status'[i] = "none" <=> status[i] = "none"
                         /\ status'[i] = "completed" => status[i] = "completed" \/ i = mine[w]
  BY <1>1 DEF CommitPublication, ImportInv, ImportTypes, ImportTypeOK, ImportStatuses
<1>3. /\ (\A i \in Jobs : JobInv(i)') /\ RowsGrow /\ ImportTypeOK' /\ HistoryTypeOK'
  BY <1>1, <1>2, StatusMoves DEF CommitPublication
<1>4. (\A v \in Workers : WorkerInv(v)') /\ ProcTypes'
  BY <1>3, ForgetMoves, LightPcs DEF CommitPublication
<1> QED BY <1>3, <1>4, Assembled

\* Nothing of the tables and files changes.
LEMMA TablesStay ==
    ASSUME ImportInv, UNCHANGED <<importVars, historyVars>>
    PROVE  /\ (\A j \in Jobs : JobInv(j)') /\ RowsGrow
           /\ ImportTypeOK' /\ HistoryTypeOK'
<1>1. UNCHANGED <<requestVars, progressVars, staged, directory, historyVars>> /\ status' = status
  BY DEF importVars
<1> QED BY <1>1, StatusMoves DEF ImportInv, ImportTypes, ImportTypeOK

LEMMA IdleActions ==
    ASSUME ImportInv, NEW w \in Workers,
           ExitLoop(w) \/ GiveUp(w) \/ NextPage(w) \/ Crash(w) \/ Signal(w) \/ PollSlot(w)
    PROVE  ImportInv'
<1>1. /\ (\A j \in Jobs : JobInv(j)') /\ RowsGrow /\ ImportTypeOK' /\ HistoryTypeOK'
  BY TablesStay DEF ExitLoop, GiveUp, NextPage, Crash, Signal, PollSlot
<1>2. (\A v \in Workers : WorkerInv(v)') /\ ProcTypes'
  <2>1. CASE ExitLoop(w) \/ Crash(w)
    BY <1>1, <2>1, ForgetMoves, LightPcs DEF ExitLoop, Crash
  <2>2. CASE GiveUp(w)
    BY <1>1, <2>2, GotoMoves, LightPcs DEF GiveUp, Fail
  <2>3. CASE NextPage(w)
    <3>1. pc[w] \in Busy
      BY <2>3 DEF NextPage, Busy, PcValues
    <3> QED BY <1>1, <2>3, <3>1, GotoMoves, LightPcs DEF NextPage
  <2>4. CASE Signal(w)
    <3>1. ProcTypes'
      BY <2>4 DEF Signal, ProcTypes, ImportInv, ImportTypes
    <3>2. \A v \in Workers : WorkerInv(v)'
      BY <1>1, <2>4, QuietWorker DEF Signal
    <3> QED BY <3>1, <3>2
  <2>5. CASE PollSlot(w)
    BY <1>1, <2>5, GotoMoves, LightPcs DEF PollSlot
  <2> QED BY <2>1, <2>2, <2>3, <2>4, <2>5
<1> QED BY <1>1, <1>2, Assembled

LEMMA ReadRowActs == ASSUME ImportInv, NEW w \in Workers, ReadRow(w) PROVE ImportInv'
<1> DEFINE j == mine[w]
<1>1. /\ (\A i \in Jobs : JobInv(i)') /\ RowsGrow /\ ImportTypeOK' /\ HistoryTypeOK'
  BY TablesStay DEF ReadRow
<1>2. pc[w] = "read" /\ pc[w] \in Busy /\ j \in Known /\ j \in Jobs
  BY DEF ReadRow, ImportInv, ImportTypes, WorkerInv, Busy, PcValues
<1>3. CASE \E label \in {"failing", "finalize"} : Goto(w, label)
  BY <1>1, <1>2, <1>3, GotoMoves, LightPcs, Assembled
<1>4. CASE ~\E label \in {"failing", "finalize"} : Goto(w, label)
  <2>1. /\ pc' = [pc EXCEPT ![w] = "fetch"] /\ UNCHANGED <<mine, fresh, stopping>>
        /\ seen' = [seen EXCEPT ![w] = [token |-> token[j], pages |-> pages[j],
                       last |-> IF BarsOf(j) = {} THEN -1 ELSE Max(BarsOf(j))]]
    BY <1>4 DEF ReadRow, Fail
  <2>2. /\ BarsOf(j) = Between(from[j], token[j]) /\ token[j] \in from[j]..to[j]
        /\ from[j] \in Nat /\ token[j] \in Nat /\ token[j] \in 0..Horizon /\ pages[j] \in Nat
    BY <1>2, JobNumbers DEF ImportInv, ImportTypes, JobInv, ImportTypeOK
  <2>3. /\ pc'[w] = "fetch" /\ mine'[w] = j
        /\ seen'[w].token = token[j]
        /\ seen'[w].last = LastOf(Between(from[j], token[j]))
    BY <2>1, <2>2 DEF ImportInv, ImportTypes, LastOf
  <2>4. from' = from /\ to' = to /\ j \in Known'
    BY <1>1, <1>2 DEF ReadRow, importVars, requestVars, RowsGrow
  <2>5. WorkerInv(w)'
    BY <2>2, <2>3, <2>4 DEF WorkerInv
  <2>6. ProcTypes'
    <3>1. LastOf(Between(from[j], token[j])) \in -1..Horizon
      <4>1. CASE Between(from[j], token[j]) = {}
        <5>1. LastOf(Between(from[j], token[j])) = -1
          BY <4>1 DEF LastOf
        <5>2. -1 \in -1..Horizon
          BY Market
        <5> QED BY <5>1, <5>2
      <4>2. CASE Between(from[j], token[j]) # {}
        <5>1. LastOf(Between(from[j], token[j])) \in Traded
          BY <2>2, <4>2, LastIsLast DEF Between
        <5>2. LastOf(Between(from[j], token[j])) \in 0..(Horizon - 1) /\ Horizon \in Nat
          BY <5>1, Market
        <5>3. \A x \in 0..(Horizon - 1) : x \in -1..Horizon
          BY <5>2
        <5> QED BY <5>2, <5>3
      <4> QED BY <4>1, <4>2
    <3>2. seen'[w] \in Rows
      BY <2>1, <2>2, <3>1 DEF ImportInv, ImportTypes, Rows, LastOf
    <3> QED BY <2>1, <3>2 DEF ProcTypes, ImportInv, ImportTypes, PcValues
  <2> QED BY <1>1, <2>1, <2>5, <2>6, OthersQuiet, Assembled DEF ImportInv, ImportTypes
<1> QED BY <1>3, <1>4

LEMMA FetchPageActs == ASSUME ImportInv, NEW w \in Workers, FetchPage(w) PROVE ImportInv'
<1> DEFINE j == mine[w]
           t == seen[w].token
           new == Between(t, PageOf(from[j], to[j], t))
<1>1. /\ pc[w] = "fetch" /\ j \in Known /\ j \in Jobs /\ t \in from[j]..to[j]
      /\ seen[w].last = LastOf(Between(from[j], t))
      /\ from[j] \in Nat /\ to[j] \in Nat /\ t \in Nat /\ seen[w].pages \in Nat
  <2>1. pc[w] = "fetch" /\ pc[w] \in Busy /\ WorkerInv(w)
    BY DEF FetchPage, ImportInv, Busy, PcValues
  <2> QED BY <2>1, JobNumbers DEF ImportInv, ImportTypes, WorkerInv, Known, Rows
<1>2. Fetched(j, t, PageEnd(j, t)) \ {seen[w].last} = new
  BY <1>1, PageIsPageOf, PageWithoutRepeat
<1>3. /\ StageBatch(j, seen[w].pages, new)
      /\ fresh' = [fresh EXCEPT ![w] = new] /\ pc' = [pc EXCEPT ![w] = "page"]
      /\ UNCHANGED <<mine, seen, stopping>>
  BY <1>2 DEF FetchPage
<1>4. new \subseteq Minutes
  BY TradedAssumption DEF Between
<1>5. /\ staged \subseteq staged' /\ staged' \subseteq Batches
      /\ new # {} => [job |-> j, index |-> seen[w].pages, bars |-> new] \in staged'
  <2> HIDE DEF new
  <2>1. [job |-> j, index |-> seen[w].pages, bars |-> new] \in Batches
    BY <1>1, <1>4 DEF Batches
  <2> QED BY <1>3, <2>1 DEF StageBatch, ImportInv, ImportTypes, ImportTypeOK
<1>6. UNCHANGED <<status, requestVars, progressVars, directory, historyVars>>
  BY DEF FetchPage
<1>7. /\ (\A i \in Jobs : JobInv(i)') /\ RowsGrow
  BY <1>5, <1>6, JobsFrame, ProgressGrows DEF Known
<1>8. ImportTypeOK' /\ HistoryTypeOK'
  BY <1>5, <1>6 DEF ImportInv, ImportTypes, ImportTypeOK, HistoryTypeOK, requestVars, progressVars,
                    historyVars
<1>9. WorkerInv(w)'
  <2>1. /\ pc'[w] = "page" /\ mine'[w] = j /\ seen'[w] = seen[w] /\ fresh'[w] = new
        /\ from' = from /\ to' = to /\ j \in Known'
    BY <1>1, <1>3, <1>6 DEF ImportInv, ImportTypes, requestVars, Known
  <2>2. Record(w)' = [job |-> j, index |-> seen[w].pages, bars |-> new]
    BY <2>1 DEF Record
  <2> QED BY <1>1, <1>5, <2>1, <2>2 DEF WorkerInv
<1>10. ProcTypes'
  BY <1>3, <1>4 DEF ProcTypes, ImportInv, ImportTypes, PcValues
<1> QED BY <1>3, <1>7, <1>8, <1>9, <1>10, OthersQuiet, Assembled DEF ImportInv, ImportTypes

\* The row that is read again has the token the page was fetched for.
LEMMA OpenCheckpointActs == ASSUME ImportInv, NEW w \in Workers, OpenCheckpoint(w) PROVE ImportInv'
<1> DEFINE j == mine[w]
<1>1. /\ (\A i \in Jobs : JobInv(i)') /\ RowsGrow /\ ImportTypeOK' /\ HistoryTypeOK'
  BY TablesStay DEF OpenCheckpoint
<1>2. pc[w] = "page" /\ pc[w] \in Busy /\ j \in Known /\ j \in Jobs /\ WorkerInv(w)
  BY DEF OpenCheckpoint, ImportInv, ImportTypes, WorkerInv, Busy, PcValues
<1>3. CASE Goto(w, "failing")
  BY <1>1, <1>2, <1>3, GotoMoves, LightPcs, Assembled
<1>4. CASE ~Goto(w, "failing")
  <2>1. /\ CheckpointAllowed(j, seen[w].token, fresh[w], seen[w].pages)
        /\ pc' = [pc EXCEPT ![w] = "checkpoint"] /\ UNCHANGED <<mine, fresh, stopping>>
        /\ seen' = [seen EXCEPT ![w].pages = pages[j]]
    BY <1>4 DEF OpenCheckpoint, Fail
  <2>2. token[j] = seen[w].token /\ (fresh[w] # {} => seen[w].pages = pages[j])
    BY <2>1 DEF CheckpointAllowed
  <2>3. /\ pc'[w] = "checkpoint" /\ mine'[w] = j /\ fresh'[w] = fresh[w]
        /\ seen'[w].token = seen[w].token /\ seen'[w].pages = pages[j] /\ seen'[w] \in Rows
    BY <1>2, <2>1, JobNumbers DEF ImportInv, ImportTypes, Rows
  <2>4. /\ from' = from /\ to' = to /\ pages' = pages /\ staged' = staged /\ j \in Known'
        /\ batches' = batches
    BY <1>1, <1>2 DEF OpenCheckpoint, importVars, requestVars, progressVars, RowsGrow
  <2>5. (\A i : BarsOf(i)' = BarsOf(i)) /\ mine' = mine /\ BarsOf(j) = Between(from[j], seen[w].token) /\ pages[j] \in Nat
    <3>1. (\A i : BarsOf(i)' = BarsOf(i)) /\ mine' = mine
      BY <2>1, <2>4 DEF BarsOf
    <3> QED BY <1>2, <2>2, <3>1, JobNumbers DEF ImportInv, ImportTypes, JobInv
  <2>6. WorkerInv(w)'
    <3>1. fresh'[w] # {} => Record(w)' = Record(w)
      BY <2>2, <2>3 DEF Record
    <3> QED BY <1>2, <2>3, <2>4, <2>5, <3>1 DEF WorkerInv
  <2>7. ProcTypes'
    BY <2>1, <2>3 DEF ProcTypes, ImportInv, ImportTypes, PcValues
  <2> QED BY <1>1, <2>1, <2>6, <2>7, OthersQuiet, Assembled DEF ImportInv, ImportTypes
<1> QED BY <1>3, <1>4

\* The bars of the page follow what the row holds, whoever else worked on it.
LEMMA CommitCheckpointActs ==
    ASSUME ImportInv, NEW w \in Workers, CommitCheckpoint(w) PROVE ImportInv'
<1> DEFINE t == seen[w].token
<1>0. PICK j \in Jobs : j = mine[w]
  BY DEF ImportInv, ImportTypes
<1> DEFINE next == PageOf(from[j], to[j], t)
           new == Between(t, next)
<1>1. /\ pc[w] = "checkpoint" /\ pc[w] \in Busy /\ j \in Known /\ WorkerInv(w)
      /\ from[j] \in Nat /\ to[j] \in Nat /\ t \in from[j]..to[j] /\ t \in Nat
  <2>1. pc[w] = "checkpoint" /\ pc[w] \in Busy /\ WorkerInv(w)
    BY DEF CommitCheckpoint, ImportInv, Busy, PcValues
  <2>2. t \in from[j]..to[j] /\ j \in Known
    BY <1>0, <2>1 DEF WorkerInv
  <2> QED BY <2>1, <2>2, JobNumbers DEF ImportInv, ImportTypes
<1>2. next \in t..to[j] /\ next \in Nat /\ next \in 0..Horizon
  <2>1. next \in t..to[j]
    BY <1>1, PageInRange
  <2> HIDE DEF next
  <2> QED BY <1>1, <2>1, Market DEF ImportInv, ImportTypes, ImportTypeOK
<1>3. fresh[w] = new /\ (new # {} => Record(w) \in staged)
  BY <1>0, <1>1 DEF WorkerInv
<1>4. CheckpointPage(j, seen[w].pages, new, next)
  BY <1>0, <1>3, PageIsPageOf DEF CommitCheckpoint
<1> HIDE DEF next
<1>5. /\ status[j] = "running" /\ pages[j] = seen[w].pages /\ pages[j] \in Nat
      /\ BarsOf(j) = Between(from[j], t)
  BY <1>0, <1>1, <1>4, JobNumbers DEF CheckpointPage, WorkerInv, ImportInv, ImportTypes
<1>6. /\ BarsOf(j) \cup new = Between(from[j], next) /\ BarsOf(j) \cap new = {}
      /\ IsFiniteSet(BarsOf(j)) /\ IsFiniteSet(new) /\ new \subseteq Minutes
  BY <1>1, <1>2, <1>5, PagesJoin
<1> HIDE DEF new
<1> DEFINE row == [job |-> j, index |-> pages[j], bars |-> new]
<1>7. /\ batches' = IF new = {} THEN batches ELSE batches \cup {row}
      /\ UNCHANGED <<status, requestVars, staged, directory>>
      /\ new # {} => row \in staged
  BY <1>0, <1>3, <1>4, <1>5 DEF CheckpointPage, Record
<1>8. BarsOf(j)' = BarsOf(j) \cup new /\ \A i : i # j => BarsOf(i)' = BarsOf(i)
  BY <1>7 DEF BarsOf
<1>9. /\ from' = from /\ to' = to /\ Known' = Known
      /\ token'[j] = next /\ complete'[j] = (next = to[j])
      /\ pages'[j] = IF new = {} THEN pages[j] ELSE pages[j] + 1
      /\ barCount'[j] = barCount[j] + Cardinality(new)
      /\ \A i \in Jobs : i # j => /\ token'[i] = token[i] /\ complete'[i] = complete[i]
                                  /\ pages'[i] = pages[i] /\ barCount'[i] = barCount[i]
  BY <1>4, <1>7 DEF CheckpointPage, ImportInv, ImportTypes, ImportTypeOK, requestVars, Known
<1>10. barCount'[j] = Cardinality(BarsOf(j)') /\ Cardinality(new) \in Nat
  <2>1. /\ Cardinality(BarsOf(j) \cup new)
              = Cardinality(BarsOf(j)) + Cardinality(new) - Cardinality(BarsOf(j) \cap new)
        /\ Cardinality(BarsOf(j) \cap new) = 0
    BY <1>6, FS_Union, FS_EmptySet
  <2>2. Cardinality(BarsOf(j)) \in Nat /\ Cardinality(new) \in Nat
    BY <1>6, FS_CardinalityType
  <2>3. barCount[j] = Cardinality(BarsOf(j))
    BY <1>1 DEF ImportInv, JobInv
  <2> QED BY <1>8, <1>9, <2>1, <2>2, <2>3
<1>11. \A i \in Jobs : JobInv(i)'
  <2>1. JobInv(j)'
    <3>1. {b \in batches' : b.job = j} \subseteq staged'
      BY <1>1, <1>7 DEF ImportInv, JobInv
    <3>2. token'[j] \in from'[j]..to'[j] /\ BarsOf(j)' = Between(from'[j], token'[j])
      BY <1>1, <1>2, <1>6, <1>8, <1>9
    <3>3. status'[j] # "completed" /\ (complete'[j] => token'[j] = to'[j]) /\ j \in Known'
      BY <1>1, <1>5, <1>7, <1>9
    <3> QED BY <1>10, <3>1, <3>2, <3>3 DEF JobInv
  <2>2. ASSUME NEW i \in Jobs, i # j PROVE JobInv(i)'
    <3>1. \A b \in batches' : b.job = i => b \in batches
      BY <1>7, <2>2
    <3>2. JobInv(i) /\ BarsOf(i)' = BarsOf(i) /\ staged' = staged
          /\ directory' = directory /\ status' = status
      BY <1>7, <1>8, <2>2 DEF ImportInv
    <3> QED BY <1>9, <2>2, <3>1, <3>2 DEF JobInv
  <2> QED BY <2>1, <2>2
<1>12. RowsGrow
  <2>1. /\ pages'[j] \in Nat /\ pages[j] <= pages'[j]
        /\ pages'[j] = pages[j] => BarsOf(j)' = BarsOf(j)
    BY <1>5, <1>8, <1>9
  <2>2. \A i \in Known : i \in Jobs /\ pages[i] \in Nat
    BY JobNumbers DEF ImportInv, ImportTypes, Known
  <2>3. \A i \in Known : i # j => /\ pages'[i] \in Nat /\ pages[i] <= pages'[i]
                                  /\ BarsOf(i)' = BarsOf(i)
    BY <1>8, <1>9, <2>2
  <2> QED BY <1>7, <1>9, <2>1, <2>3 DEF RowsGrow
<1>13. ImportTypeOK' /\ HistoryTypeOK'
  <2>1. row \in Batches
    BY <1>5, <1>6 DEF Batches
  <2>2. batches' \subseteq Batches
    BY <1>7, <2>1 DEF ImportInv, ImportTypes, ImportTypeOK
  <2>3. HistoryTypeOK'
    BY DEF CommitCheckpoint, historyVars, ImportInv, ImportTypes, HistoryTypeOK
  <2> QED BY <1>2, <1>4, <1>7, <1>10, <2>2, <2>3
          DEF CheckpointPage, ImportInv, ImportTypes, ImportTypeOK, requestVars
<1>14. PICK label \in {"finalize", "turn"} : Forget(w, label)
  BY DEF CommitCheckpoint
<1> QED BY <1>1, <1>11, <1>12, <1>13, <1>14, ForgetMoves, LightPcs, Assembled

LEMMA OpenPublicationActs ==
    ASSUME ImportInv, NEW w \in Workers, OpenPublication(w) PROVE ImportInv'
<1>0. PICK j \in Jobs : j = mine[w]
  BY DEF ImportInv, ImportTypes
<1>1. /\ pc[w] = "finalize" /\ pc[w] \in Busy /\ j \in Known
      /\ status[j] = "running" /\ complete[j]
  BY <1>0 DEF OpenPublication, ImportInv, WorkerInv, Busy, PcValues
<1>2. BarsOf(j) = Between(from[j], to[j])
  BY <1>1 DEF ImportInv, JobInv
<1>3. /\ directory' = [directory EXCEPT ![j] = Manifest(j)]
      /\ UNCHANGED <<status, requestVars, progressVars, staged, historyVars>>
  BY <1>0 DEF OpenPublication, Publish
<1>4. /\ directory'[j].bars = Between(from[j], to[j])
      /\ \A i \in Jobs : i # j => directory'[i] = directory[i]
  BY <1>2, <1>3 DEF Manifest, ImportInv, ImportTypes, ImportTypeOK
<1>5. \A i \in Jobs : JobInv(i)'
  <2>1. \A i \in Jobs : /\ status'[i] = "none" <=> status[i] = "none"
                        /\ status'[i] = "completed" =>
                               status[i] = "completed" /\ directory'[i] = directory[i]
    BY <1>1, <1>3, <1>4
  <2> QED BY <1>3, <2>1, JobsFrame
<1>6. RowsGrow
  BY <1>3, <1>4, ProgressGrows DEF Known
<1>7. ImportTypeOK' /\ HistoryTypeOK'
  <2>1. Manifest(j) \in Manifests
    BY <1>2, TradedAssumption DEF Manifest, Manifests, Between, ImportInv, ImportTypes, ImportTypeOK
  <2> QED BY <1>3, <2>1 DEF ImportInv, ImportTypes, ImportTypeOK, HistoryTypeOK, requestVars,
                            progressVars, historyVars
<1>8. /\ pc'[w] = "publish" /\ mine' = mine /\ seen' = seen /\ fresh' = fresh
      /\ \A v \in Workers : v # w => pc'[v] = pc[v]
      /\ ProcTypes'
  BY DEF OpenPublication, Goto, ProcTypes, ImportInv, ImportTypes, PcValues
<1>9. WorkerInv(w)'
  <2>1. mine'[w] = j /\ from' = from /\ to' = to /\ j \in Known'
    BY <1>0, <1>1, <1>3, <1>8 DEF requestVars, Known
  <2> QED BY <1>4, <1>8, <2>1 DEF WorkerInv
<1> QED BY <1>5, <1>6, <1>7, <1>8, <1>9, OthersQuiet, Assembled

\* A new row is blank and numbered after all others.
LEMMA CreateTakesBlank ==
    ASSUME ImportInv, NEW j \in Jobs, NEW k, NEW a, NEW b, NEW again, NEW slot,
           CreateImportJob(j, k, a, b, again, slot)
    PROVE  j \notin Known
<1>1. Jobs \ Known \subseteq Nat /\ Jobs \ Known # {} /\ j = Min(Jobs \ Known)
  BY DEF CreateImportJob, Jobs
<1> QED BY <1>1, MinIsLeast

LEMMA CreateActs ==
    ASSUME ImportInv, NEW j \in Jobs, NEW k \in {"manual", "shared"}, NEW again,
           NEW a \in 0..Horizon, NEW b \in 0..Horizon, a <= b, NEW slot \in {"queued", "running"},
           CreateImportJob(j, k, a, b, again, slot)
    PROVE  /\ (\A i \in Jobs : JobInv(i)') /\ RowsGrow /\ ImportTypeOK'
           /\ j \notin Known /\ Known' = Known \cup {j}
<1>1. j \notin Known
  BY CreateTakesBlank
<1>2. /\ UNCHANGED <<complete, pages, barCount, retrieved, batches, staged, directory>>
      /\ status'[j] = slot /\ from'[j] = a /\ to'[j] = b /\ token'[j] = a
      /\ \A i \in Jobs : i # j => /\ status'[i] = status[i] /\ from'[i] = from[i]
                                  /\ to'[i] = to[i] /\ token'[i] = token[i]
  BY DEF CreateImportJob, ImportInv, ImportTypes, ImportTypeOK
<1>3. Known' = Known \cup {j} /\ \A i : BarsOf(i)' = BarsOf(i)
  BY <1>2 DEF Known, BarsOf
<1>4. ASSUME NEW i \in Jobs PROVE JobInv(i)'
  <2>1. CASE i = j
    <3>1. /\ barCount[j] = 0 /\ ~complete[j] /\ \A c \in batches : c.job # j
      BY <1>1 DEF ImportInv, JobInv
    <3>2. BarsOf(j) = {} /\ Between(a, a) = {}
      BY <3>1, Market DEF BarsOf, Between
    <3>3. Cardinality({}) = 0
      BY FS_EmptySet
    <3>4. /\ from'[j] = a /\ to'[j] = b /\ token'[j] = a /\ status'[j] # "completed"
          /\ a \in a..b
      BY <1>2, Market
    <3>5. /\ barCount'[j] = 0 /\ ~complete'[j] /\ {c \in batches' : c.job = j} = {}
          /\ BarsOf(j)' = {} /\ j \in Known'
      BY <1>2, <1>3, <3>1, <3>2
    <3>6. JobInv(j)'
      BY <3>2, <3>3, <3>4, <3>5 DEF JobInv
    <3> QED BY <2>1, <3>6
  <2>2. CASE i # j
    <3>1. JobInv(i) /\ (i \in Known' <=> i \in Known) /\ BarsOf(i)' = BarsOf(i)
      BY <1>3, <2>2 DEF ImportInv
    <3>2. /\ status'[i] = status[i] /\ from'[i] = from[i] /\ to'[i] = to[i]
          /\ token'[i] = token[i]
      BY <1>2, <2>2
    <3>3. /\ complete' = complete /\ barCount' = barCount /\ batches' = batches
          /\ staged' = staged /\ directory' = directory
      BY <1>2
    <3>4. CASE i \in Known
      BY <3>1, <3>2, <3>3, <3>4 DEF JobInv
    <3>5. CASE i \notin Known
      BY <3>1, <3>2, <3>3, <3>5 DEF JobInv
    <3> QED BY <3>4, <3>5
  <2> QED BY <2>1, <2>2
<1>5. RowsGrow
  <2>1. \A i \in Known : i \in Jobs /\ i # j /\ pages[i] \in Nat
    BY <1>1, JobNumbers DEF ImportInv, ImportTypes, Known
  <2> QED BY <1>2, <1>3, <2>1 DEF RowsGrow
<1>6. ImportTypeOK'
  BY DEF CreateImportJob, ImportInv, ImportTypes, ImportTypeOK, ImportStatuses
<1> QED BY <1>1, <1>3, <1>4, <1>5, <1>6

LEMMA ManualActs == ASSUME ImportInv, ManualImport PROVE ImportInv'
<1>1. PICK j \in Jobs, range \in ManualRanges, again \in BOOLEAN :
          CreateImportJob(j, "manual", range.from, range.to, again, "queued")
  BY DEF ManualImport
<1>2. range.from \in 0..Horizon /\ range.to \in 0..Horizon /\ range.from <= range.to
  BY ManualAssumption, Market
<1>3. (\A i \in Jobs : JobInv(i)') /\ RowsGrow /\ ImportTypeOK'
  BY <1>1, <1>2, CreateActs
<1>4. HistoryTypeOK'
  BY DEF ManualImport, historyVars, ImportInv, ImportTypes, HistoryTypeOK
<1> QED BY <1>3, <1>4, SameProcsQuiet, Assembled DEF ManualImport

-------------------------------------------------------------------------------
(* The scheduler's span.                                                   *)

LEMMA RequestNumbers ==
    ASSUME NEW r \in Requests
    PROVE  /\ RequestRange[r].from \in Nat /\ RequestRange[r].to \in Nat
           /\ RequestRange[r].to <= Horizon /\ RequestRange[r].from < RequestRange[r].to
BY RequestsAssumption, Market

\* It is a span of the request, and all of it is missing.
LEMMA SpanIsMissing ==
    ASSUME NEW r \in Requests, Missing(r) # {}
    PROVE  /\ MissingFrom(r) \in 0..Horizon /\ MissingTo(r) \in 0..Horizon
           /\ MissingFrom(r) <= MissingTo(r)
           /\ MissingFrom(r)..(MissingTo(r) - 1) \subseteq Missing(r)
<1> DEFINE a == MissingFrom(r)
           b == RequestRange[r].to
           Rest == {m \in a..b : m \notin Missing(r)}
<1>1. Missing(r) \subseteq RequestRange[r].from..(b - 1)
  BY DEF Missing, RequestMinutes
<1>2. Missing(r) \subseteq Nat /\ \A m \in Missing(r) : m < b
  BY <1>1, RequestNumbers
<1>3. a \in Missing(r)
  BY <1>2, MinIsLeast DEF MissingFrom
<1>4. a \in Nat /\ a < b /\ b \in Nat /\ b <= Horizon
  BY <1>2, <1>3, RequestNumbers
<1>5. MissingTo(r) = Min(Rest)
  BY DEF MissingTo
<1> HIDE DEF a, b
<1>6. Rest \subseteq Nat /\ b \in Rest /\ Rest \subseteq a..b
  BY <1>2, <1>4
<1>7. \A m \in a..b : m \notin Rest => m \in Missing(r)
  OBVIOUS
<1> HIDE DEF Rest
<1>8. Min(Rest) \in Rest /\ \A m \in Rest : Min(Rest) <= m
  BY <1>6, MinIsLeast
<1>9. Min(Rest) \in a..b
  BY <1>6, <1>8
<1>10. \A m \in a..(Min(Rest) - 1) : m \in a..b /\ m \notin Rest
  BY <1>4, <1>8, <1>9
<1>11. a..(Min(Rest) - 1) \subseteq Missing(r)
  BY <1>7, <1>10
<1>12. a \in 0..Horizon /\ Min(Rest) \in 0..Horizon /\ a <= Min(Rest)
  BY <1>4, <1>9, Market
<1> QED BY <1>5, <1>11, <1>12 DEF a

LEMMA FirstWanting ==
    ASSUME HistoryTypeOK, Wanting # {}
    PROVE  /\ Min(Wanting) \in Wanting /\ \A i \in Wanting : Min(Wanting) <= i
           /\ asked[Min(Wanting)] \in Requests /\ Missing(asked[Min(Wanting)]) # {}
<1>1. Wanting \subseteq DOMAIN asked /\ asked \in Seq(Requests)
  BY DEF Wanting, Scan, Unsettled, HistoryTypeOK
<1>2. Wanting \subseteq Nat
  BY <1>1
<1>3. Min(Wanting) \in Wanting /\ \A i \in Wanting : Min(Wanting) <= i
  BY <1>2, MinIsLeast
<1>4. asked[Min(Wanting)] \in Requests
  BY <1>1, <1>3
<1> QED BY <1>3, <1>4 DEF Wanting

\* The requests that want the slot are at the end of the scan or behind it, and
\* those it passes by are settled when nothing of them is pending.
Passed == {k \in Scan : k < ScanEnd /\ Settleable(asked[k])}

LEMMA ScanStops ==
    ASSUME HistoryTypeOK
    PROVE  /\ Wanting # {} => ScanEnd = Min(Wanting)
           /\ Passed \in SUBSET Scan /\ Passed \cap Wanting = {}
           /\ \A i \in Passed : Settleable(asked[i])
<1>1. Wanting # {} => ScanEnd = Min(Wanting)
  BY DEF ScanEnd
<1>2. Wanting \subseteq Nat
  <2>1. Wanting \subseteq DOMAIN asked /\ asked \in Seq(Requests)
    BY DEF Wanting, Scan, Unsettled, HistoryTypeOK
  <2> QED BY <2>1
<1>3. ASSUME NEW i \in Wanting PROVE ~(i < ScanEnd)
  <2>1. PICK f : f = ScanEnd
    OBVIOUS
  <2>2. f \in Nat /\ i \in Nat /\ f <= i
    BY <1>1, <1>2, <1>3, <2>1, FirstWanting
  <2> QED BY <2>1, <2>2
<1> QED BY <1>1, <1>3 DEF Passed

LEMMA SettleTypes ==
    ASSUME HistoryTypeOK, NEW P \in SUBSET Scan, SettleAll({asked[i] : i \in P})
    PROVE  HistoryTypeOK'
<1>1. P \subseteq DOMAIN asked /\ asked \in Seq(Requests)
  BY DEF Scan, Unsettled, HistoryTypeOK
<1>2. \A i \in P : asked[i] \in Requests
  BY <1>1
<1> QED BY <1>2 DEF SettleAll, HistoryTypeOK

LEMMA PassedTypes == ASSUME HistoryTypeOK, SettlePassed(ScanEnd) PROVE HistoryTypeOK'
BY ScanStops, SettleTypes DEF SettlePassed, Passed

LEMMA PollScheduleActs == ASSUME ImportInv, NEW w \in Workers, PollSchedule(w) PROVE ImportInv'
<1>1. PICK j \in Jobs : ScheduleHistoryImport(j) /\ Take(w, j)
  BY DEF PollSchedule
<1> DEFINE r == asked[ScanEnd]
<1>2. r \in Requests /\ Missing(r) # {}
  BY <1>1, FirstWanting, ScanStops DEF ScheduleHistoryImport, ImportInv, ImportTypes
<1>3. CreateImportJob(j, "shared", MissingFrom(r), MissingTo(r), FALSE, "running")
  BY <1>1 DEF ScheduleHistoryImport
<1> HIDE DEF r
<1>4. /\ (\A i \in Jobs : JobInv(i)') /\ RowsGrow /\ ImportTypeOK' /\ Known' = Known \cup {j}
  BY <1>2, <1>3, SpanIsMissing, CreateActs
<1>5. HistoryTypeOK'
  BY <1>1, PassedTypes DEF ScheduleHistoryImport, ImportInv, ImportTypes
<1> QED BY <1>1, <1>4, <1>5, TakeMoves, Assembled

LEMMA PollNothingActs == ASSUME ImportInv, NEW w \in Workers, PollNothing(w) PROVE ImportInv'
<1>1. UNCHANGED importVars /\ Goto(w, "idle")
  BY DEF PollNothing
<1>2. UNCHANGED <<requestVars, progressVars, staged, directory>> /\ status' = status
  BY <1>1 DEF importVars
<1>3. (\A i \in Jobs : JobInv(i)') /\ RowsGrow
  BY <1>2, JobsFrame, ProgressGrows DEF Known
<1>4. ImportTypeOK'
  BY <1>2 DEF ImportInv, ImportTypes, ImportTypeOK, requestVars, progressVars
<1>5. HistoryTypeOK'
  BY PassedTypes DEF PollNothing, ScheduleNothing, ImportInv, ImportTypes
<1>6. (\A v \in Workers : WorkerInv(v)') /\ ProcTypes'
  BY <1>1, <1>3, GotoMoves, LightPcs
<1> QED BY <1>3, <1>4, <1>5, <1>6, Assembled

LEMMA PollOvertakenActs == ASSUME ImportInv, NEW w \in Workers, PollOvertaken(w) PROVE ImportInv'
<1>1. HistoryTypeOK'
  BY PassedTypes DEF PollOvertaken, ScheduleNothing, ImportInv, ImportTypes
<1> QED BY <1>1, ClaimMoves, Assembled DEF PollOvertaken

LEMMA RequestActs ==
    ASSUME ImportInv, NEW r \in Requests, RequestHistory(r), UNCHANGED procVars PROVE ImportInv'
<1>1. UNCHANGED <<requestVars, progressVars, staged, directory>> /\ status' = status
  BY DEF RequestHistory, importVars
<1>2. (\A i \in Jobs : JobInv(i)') /\ RowsGrow
  BY <1>1, JobsFrame, ProgressGrows DEF Known
<1>3. ImportTypeOK'
  BY <1>1 DEF ImportInv, ImportTypes, ImportTypeOK, requestVars, progressVars
<1>4. HistoryTypeOK'
  BY DEF RequestHistory, ImportInv, ImportTypes, HistoryTypeOK
<1> QED BY <1>2, <1>3, <1>4, SameProcsQuiet, Assembled

LEMMA InitImport == Init => ImportInv
<1> SUFFICES ASSUME Init PROVE ImportInv
  OBVIOUS
<1>1. 1 \in Jobs /\ 0 \in 0..Horizon
  BY JobsAssumption, Market DEF Jobs
<1>2. (CHOOSE j \in Jobs : TRUE) \in Jobs
  BY <1>1
<1>3. ImportTypes
  BY <1>1, <1>2, Market
     DEF Init, ImportInit, HistoryInit, ImportTypes, ImportTypeOK, HistoryTypeOK, PcValues, NoRow,
         Rows, ImportStatuses, NoDirectory, Manifests
<1>4. \A j \in Jobs : JobInv(j)
  BY DEF Init, ImportInit, JobInv, Known
<1>5. \A w \in Workers : WorkerInv(w)
  BY DEF Init, WorkerInv, Busy, PcValues
<1> QED BY <1>3, <1>4, <1>5 DEF ImportInv

LEMMA StepImport == ASSUME ImportInv, [Next]_vars PROVE ImportInv'
<1>1. ASSUME UNCHANGED vars PROVE ImportInv'
  <2>1. UNCHANGED <<importVars, historyVars>> /\ UNCHANGED procVars
    BY <1>1 DEF vars
  <2> QED BY <2>1, TablesStay, SameProcsQuiet, Assembled
<1>2. ASSUME NEW w \in Workers, Poll(w) \/ Work(w) \/ Start(w) \/ Crash(w) \/ Signal(w)
      PROVE  ImportInv'
  BY <1>2, StatusActions, PollClaimActs, PollScheduleActs, PollNothingActs, PollOvertakenActs,
     IdleActions, ReadRowActs, FetchPageActs, OpenCheckpointActs, CommitCheckpointActs, OpenPublicationActs,
     CommitPublicationActs DEF Poll, Work
<1>3. CASE Client
  BY <1>3, ManualActs, ResumeActs, RequestActs DEF Client
<1> QED BY <1>1, <1>2, <1>3 DEF Next

LEMMA ImportAlways == Spec => []ImportInv
BY InitImport, StepImport, PTL DEF Spec

\* No crash, resume or second worker loses, repeats or invents a bar, whatever
\* the provider has and however it is cut into pages.
THEOREM AcquiredExactly == Spec => []ExactAcquisition
<1>1. ImportInv => ExactAcquisition
  <2> SUFFICES ASSUME ImportInv, NEW j \in Known
               PROVE  /\ BarsOf(j) = Traded \cap from[j]..(token[j] - 1)
                      /\ barCount[j] = Cardinality(BarsOf(j))
                      /\ {b \in batches : b.job = j} \subseteq staged
                      /\ status[j] = "completed" => directory[j].bars = Traded \cap Requested(j)
    BY DEF ExactAcquisition
  <2>1. JobInv(j)
    BY DEF ImportInv, Known
  <2> QED BY <2>1 DEF JobInv, Between, Requested
<1> QED BY <1>1, ImportAlways, PTL

-------------------------------------------------------------------------------
(* What every step but a new import keeps of the rows.                     *)

KeepsRows ==
    /\ UNCHANGED requestVars
    /\ \A i \in Jobs : /\ status'[i] = "none" <=> status[i] = "none"
                       /\ status[i] \in Terminal => status'[i] = status[i]
                       /\ status[i] = "completed" => directory'[i] = directory[i]

KeepsSettled == UNCHANGED <<settled, refused>>

LEMMA ClaimKeeps == ASSUME ImportInv, NEW w \in Workers, Claim(w) PROVE KeepsRows
BY DEF Claim, KeepsRows, Terminal, ImportInv, ImportTypes, ImportTypeOK

LEMMA WorkKeeps ==
    ASSUME ImportInv, NEW w \in Workers,
           PollClaim(w) \/ PollSlot(w) \/ Work(w) \/ Start(w) \/ Crash(w) \/ Signal(w)
    PROVE  KeepsRows /\ KeepsSettled
<1>1. CASE Start(w) \/ StopBetweenPages(w) \/ RecordFailure(w)
  <2>1. /\ UNCHANGED <<requestVars, directory, historyVars>>
        /\ \E S, new : new \in {"interrupted", "failed"} /\ status' = SetRunning(S, new)
    BY <1>1 DEF Start, StopBetweenPages, RecordFailure, InterruptRunningImports
  <2> QED BY <2>1 DEF KeepsRows, KeepsSettled, SetRunning, Terminal, historyVars
<1>2. CASE PollClaim(w)
  BY <1>2, ClaimKeeps DEF PollClaim, KeepsSettled, historyVars
<1>3. CASE ExitLoop(w) \/ GiveUp(w) \/ NextPage(w) \/ Crash(w) \/ Signal(w) \/ ReadRow(w)
           \/ OpenCheckpoint(w) \/ PollSlot(w)
  <2>1. UNCHANGED <<importVars, historyVars>>
    BY <1>3 DEF ExitLoop, GiveUp, NextPage, Crash, Signal, ReadRow, OpenCheckpoint, PollSlot
  <2> QED BY <2>1 DEF importVars, historyVars, KeepsRows, KeepsSettled
<1>4. CASE FetchPage(w) \/ CommitCheckpoint(w)
  <2>1. UNCHANGED <<status, requestVars, directory, historyVars>>
    BY <1>4 DEF FetchPage, CommitCheckpoint, CheckpointPage
  <2> QED BY <2>1 DEF historyVars, KeepsRows, KeepsSettled
<1>5. CASE OpenPublication(w)
  <2>1. /\ UNCHANGED <<status, requestVars, historyVars>> /\ status[mine[w]] = "running"
        /\ directory' = [directory EXCEPT ![mine[w]] = Manifest(mine[w])]
    BY <1>5 DEF OpenPublication, Publish
  <2> QED BY <2>1 DEF historyVars, KeepsRows, KeepsSettled, ImportInv, ImportTypes, ImportTypeOK
<1>6. CASE CommitPublication(w)
  BY <1>6 DEF CommitPublication, KeepsRows, KeepsSettled, Terminal, historyVars, ImportInv,
              ImportTypes, ImportTypeOK
<1> QED BY <1>1, <1>2, <1>3, <1>4, <1>5, <1>6 DEF Work

LEMMA ClientKeeps ==
    ASSUME ImportInv, (\E j \in Jobs : ResumeImportJob(j) /\ UNCHANGED <<historyVars, procVars>>)
                      \/ (\E r \in Requests : RequestHistory(r))
    PROVE  KeepsRows /\ KeepsSettled
<1>1. CASE \E j \in Jobs : ResumeImportJob(j) /\ UNCHANGED <<historyVars, procVars>>
  BY <1>1 DEF ResumeImportJob, KeepsRows, KeepsSettled, Terminal, historyVars, ImportInv,
              ImportTypes, ImportTypeOK
<1>2. CASE \E r \in Requests : RequestHistory(r)
  BY <1>2 DEF RequestHistory, importVars, KeepsRows, KeepsSettled
<1> QED BY <1>1, <1>2

\* A new import leaves every other row alone.
LEMMA CreateKeeps ==
    ASSUME ImportInv, NEW j \in Jobs, NEW k, NEW a, NEW b, NEW again, NEW slot \in {"queued", "running"},
           CreateImportJob(j, k, a, b, again, slot)
    PROVE  /\ j \notin Known /\ Known' = Known \cup {j} /\ directory' = directory
           /\ kind'[j] = k /\ from'[j] = a /\ to'[j] = b
           /\ \A i \in Jobs : i # j => /\ status'[i] = status[i] /\ kind'[i] = kind[i]
                                       /\ from'[i] = from[i] /\ to'[i] = to[i]
<1>1. j \notin Known
  BY CreateTakesBlank
<1> QED BY <1>1 DEF CreateImportJob, Known, ImportInv, ImportTypes, ImportTypeOK

LEMMA NothingKeeps ==
    ASSUME ImportInv, NEW w \in Workers, PollNothing(w) \/ PollOvertaken(w)
    PROVE  KeepsRows /\ SettlePassed(ScanEnd)
<1>1. CASE PollNothing(w)
  BY <1>1 DEF PollNothing, ScheduleNothing, KeepsRows, importVars
<1>2. CASE PollOvertaken(w)
  BY <1>2, ClaimKeeps DEF PollOvertaken, ScheduleNothing
<1> QED BY <1>1, <1>2

LEMMA StepKeepsEnded ==
    ASSUME ImportInv, [Next]_vars, NEW j \in Jobs
    PROVE  /\ status[j] \in Terminal => status'[j] = status[j]
           /\ status[j] = "completed" => directory'[j] = directory[j]
<1>1. CASE UNCHANGED vars
  BY <1>1 DEF vars, importVars
<1>2. CASE KeepsRows
  BY <1>2 DEF KeepsRows
<1>3. ASSUME NEW i \in Jobs, NEW k, NEW a, NEW b, NEW again, NEW slot \in {"queued", "running"},
             CreateImportJob(i, k, a, b, again, slot)
      PROVE  /\ status[j] \in Terminal => status'[j] = status[j]
             /\ status[j] = "completed" => directory'[j] = directory[j]
  BY <1>3, CreateKeeps DEF Known, Terminal
<1>4. ASSUME NEW w \in Workers, Poll(w) \/ Work(w) \/ Start(w) \/ Crash(w) \/ Signal(w)
      PROVE  \/ KeepsRows
             \/ \E i \in Jobs : \E a, b : CreateImportJob(i, "shared", a, b, FALSE, "running")
  BY <1>4, WorkKeeps, NothingKeeps DEF Poll, PollSchedule, ScheduleHistoryImport
<1>5. CASE Client
  <2>1. \/ KeepsRows
        \/ \E i \in Jobs : \E again, a, b : CreateImportJob(i, "manual", a, b, again, "queued")
    BY <1>5, ClientKeeps DEF Client, ManualImport
  <2> QED BY <1>2, <1>3, <2>1
<1> QED BY <1>1, <1>2, <1>3, <1>4, <1>5 DEF Next

\* An ended import stays what it is, and the revision it published stays as it
\* was, whatever any superseded worker still does.
THEOREM EndedStays == Spec => EndedImportStays
<1> DEFINE Stays == \A j \in Jobs :
                        /\ status[j] \in Terminal => status'[j] = status[j]
                        /\ status[j] = "completed" => directory'[j] = directory[j]
<1>1. ImportInv /\ [Next]_vars => [Stays]_vars
  BY StepKeepsEnded
<1>2. Spec => [][Stays]_vars
  BY <1>1, ImportAlways, PTL DEF Spec
<1> QED BY <1>2 DEF EndedImportStays

-------------------------------------------------------------------------------
(* A minute is asked for once.                                             *)

\* The second conjunct of ServedOnce, for one request.
AllAnswered(r) == \A m \in RequestMinutes(r) \cap Open : Answered(m)

\* No import of any kind covers a missing minute, and what is neither missing nor
\* pending, in a request that is not refused, is answered.
LEMMA MissingIsUncovered ==
    ASSUME NEW r \in Requests
    PROVE  /\ \A m \in Missing(r) : Covering(m) = {}
           /\ r \notin refused /\ Missing(r) = {} /\ ~Pending(r) => AllAnswered(r)
<1>1. \A m : Available(m) \subseteq Sources(m) /\ Sources(m) \subseteq Covering(m)
  BY DEF Available, Sources
<1>2. ASSUME NEW m, m \in Open, Covering(m) = {}, r \notin refused
      PROVE  MinuteStatus(r, m) = "missing"
  BY <1>1, <1>2 DEF MinuteStatus
<1>3. ASSUME NEW m, MinuteStatus(r, m) = "missing" PROVE Covering(m) = {}
  <2>1. m \in Open
    BY <1>3 DEF MinuteStatus
  <2>2. Available(m) = {}
    BY <1>3, <2>1 DEF MinuteStatus
  <2> QED BY <1>3, <2>1, <2>2 DEF MinuteStatus
<1>4. ASSUME NEW m, m \in Open, Covering(m) # {}, ~Answered(m)
      PROVE  MinuteStatus(r, m) = "pending"
  <2>1. \E j \in Covering(m) : status[j] \in {"queued", "running"}
    BY <1>4 DEF Answered
  <2>2. Available(m) = {}
    BY <1>4 DEF Answered, Available, Sources
  <2> QED BY <1>4, <2>1, <2>2 DEF MinuteStatus
<1>5. ASSUME r \notin refused, Missing(r) = {}, ~Pending(r),
             NEW m \in RequestMinutes(r) \cap Open
      PROVE  Answered(m)
  BY <1>2, <1>4, <1>5 DEF Missing, Pending
<1> QED BY <1>3, <1>5 DEF Missing, AllAnswered

LEMMA KeepsApart == ASSUME SharedApart, KeepsRows PROVE SharedApart'
BY DEF KeepsRows, requestVars, Known, SharedApart, Requested

LEMMA ManualApart ==
    ASSUME ImportInv, SharedApart, ManualImport PROVE SharedApart'
<1>1. PICK j \in Jobs : \E a, b, again : CreateImportJob(j, "manual", a, b, again, "queued")
  BY DEF ManualImport
<1>2. /\ j \notin Known /\ Known' = Known \cup {j} /\ kind'[j] = "manual"
      /\ \A i \in Jobs : i # j => /\ kind'[i] = kind[i] /\ from'[i] = from[i] /\ to'[i] = to[i]
  BY <1>1, CreateKeeps
<1>3. \A i \in Known : i \in Jobs /\ i # j
  BY <1>2 DEF Known
<1>4. \A i \in Known : from'[i] = from[i] /\ to'[i] = to[i] /\ kind'[i] = kind[i]
  BY <1>2, <1>3
<1> QED BY <1>2, <1>4 DEF SharedApart, Requested

\* The new import asks for a span that is missing, so for what no import covers.
LEMMA ScheduleApart ==
    ASSUME ImportInv, SharedApart, NEW w \in Workers, PollSchedule(w) PROVE SharedApart'
<1> DEFINE r == asked[ScanEnd]
<1>1. PICK j \in Jobs :
          /\ Wanting # {}
          /\ CreateImportJob(j, "shared", MissingFrom(r), MissingTo(r), FALSE, "running")
  BY DEF PollSchedule, ScheduleHistoryImport
<1>2. HistoryTypeOK
  BY DEF ImportInv, ImportTypes
<1>3. r \in Requests /\ Missing(r) # {}
  BY <1>1, <1>2, FirstWanting, ScanStops
<1> HIDE DEF r
<1>4. /\ j \notin Known /\ Known' = Known \cup {j}
      /\ from'[j] = MissingFrom(r) /\ to'[j] = MissingTo(r)
      /\ \A i \in Jobs : i # j => /\ kind'[i] = kind[i] /\ from'[i] = from[i] /\ to'[i] = to[i]
  BY <1>1, CreateKeeps
<1>5. \A i \in Known : i \in Jobs /\ i # j
  BY <1>4 DEF Known
<1>6. \A i \in Known : kind'[i] = kind[i] /\ Requested(i)' = Requested(i)
  BY <1>4, <1>5 DEF Requested
<1>7. \A i \in Known : Requested(i) \cap Requested(j)' = {}
  <2>1. Requested(j)' \subseteq Missing(r)
    BY <1>3, <1>4, SpanIsMissing DEF Requested
  <2>2. \A m \in Missing(r) : Covering(m) = {}
    BY <1>3, MissingIsUncovered
  <2> QED BY <2>1, <2>2 DEF Covering
<1> QED BY <1>4, <1>6, <1>7 DEF SharedApart

LEMMA StepApart == ASSUME ImportInv, SharedApart, [Next]_vars PROVE SharedApart'
<1>1. CASE UNCHANGED vars
  BY <1>1, KeepsApart DEF vars, importVars, KeepsRows
<1>2. ASSUME NEW w \in Workers, Poll(w) \/ Work(w) \/ Start(w) \/ Crash(w) \/ Signal(w)
      PROVE  SharedApart'
  <2>1. PollClaim(w) \/ PollSlot(w) \/ PollNothing(w) \/ PollOvertaken(w) \/ PollSchedule(w)
           \/ Work(w) \/ Start(w) \/ Crash(w) \/ Signal(w)
    BY <1>2 DEF Poll
  <2> QED BY <2>1, WorkKeeps, NothingKeeps, KeepsApart, ScheduleApart
<1>3. CASE Client
  BY <1>3, ClientKeeps, KeepsApart, ManualApart DEF Client
<1> QED BY <1>1, <1>2, <1>3 DEF Next

\* What is settled in passing is either refused or answered.
LEMMA PassedAreAnswered ==
    ASSUME HistoryTypeOK, SettlePassed(ScanEnd), NEW r \in (settled' \ settled) \ refused'
    PROVE  AllAnswered(r)
<1>1. SettleAll({asked[i] : i \in Passed})
  BY DEF SettlePassed, Passed
<1>2. r \notin refused /\ r \in {asked[i] : i \in Passed} /\ r \notin Foreign
  BY <1>1 DEF SettleAll
<1>3. PICK i \in Passed : r = asked[i]
  BY <1>2
<1>4. i \in Scan /\ i \notin Wanting /\ Settleable(asked[i])
  BY ScanStops
<1>5. i \in DOMAIN asked /\ asked \in Seq(Requests)
  BY <1>4 DEF Scan, Unsettled, HistoryTypeOK
<1>6. r \in Requests
  BY <1>3, <1>5
<1>7. Missing(r) = {} /\ ~Pending(r)
  BY <1>2, <1>3, <1>4 DEF Wanting, Settleable
<1> QED BY <1>2, <1>6, <1>7, MissingIsUncovered

LEMMA StepAnswered ==
    ASSUME ImportInv, [Next]_vars, NEW r \in (settled' \ settled) \ refused' PROVE AllAnswered(r)
<1>1. HistoryTypeOK
  BY DEF ImportInv, ImportTypes
<1>2. CASE SettlePassed(ScanEnd)
  BY <1>1, <1>2, PassedAreAnswered
<1>3. ASSUME NEW w \in Workers, Poll(w) \/ Work(w) \/ Start(w) \/ Crash(w) \/ Signal(w)
      PROVE  SettlePassed(ScanEnd) \/ KeepsSettled
  <2>1. CASE PollSchedule(w)
    BY <2>1 DEF PollSchedule, ScheduleHistoryImport
  <2>2. CASE PollNothing(w) \/ PollOvertaken(w)
    BY <2>2, NothingKeeps
  <2>3. CASE PollClaim(w) \/ PollSlot(w) \/ Work(w) \/ Start(w) \/ Crash(w) \/ Signal(w)
    BY <2>3, WorkKeeps
  <2> QED BY <1>3, <2>1, <2>2, <2>3 DEF Poll
<1>4. CASE Client
  BY <1>4, ClientKeeps DEF Client, ManualImport, historyVars, KeepsSettled
<1>5. CASE UNCHANGED vars
  BY <1>5 DEF vars, historyVars
<1> QED BY <1>2, <1>3, <1>4, <1>5 DEF Next, KeepsSettled

\* Whatever the requests and the scan limit, two imports the scheduler made never
\* overlap (history_ranges.py:331), and a request is settled, unless it is
\* refused, only by a scan that finds each of its open minutes delivered by a
\* completed import, or all imports that were asked for it stopped: also when
\* another import takes the slot between the scheduler's look at it and its look
\* at the imports (history_ranges.py:376, 414).
THEOREM ServedAtMostOnce == Spec => ServedOnce
<1> DEFINE Settles == \A r \in (settled' \ settled) \ refused' :
                          \A m \in RequestMinutes(r) \cap Open : Answered(m)
<1>1. Init => SharedApart
  BY DEF Init, ImportInit, SharedApart, Known
<1>2. Spec => []SharedApart
  BY <1>1, StepApart, ImportAlways, PTL DEF Spec
<1>3. ImportInv /\ [Next]_vars => [Settles]_vars
  BY StepAnswered DEF AllAnswered
<1>4. Spec => [][Settles]_vars
  BY <1>3, ImportAlways, PTL DEF Spec
<1> QED BY <1>2, <1>4 DEF ServedOnce

-------------------------------------------------------------------------------
(* Publication, with one worker process at a time.                         *)

\* The deployment the property is about.
SingleWorker == \A v, w \in Workers : v = w

Paging == {"fetch", "page", "checkpoint"}

\* A revision directory is that of a complete job, and nobody fetches for a
\* complete job any more.
PublicationInv ==
    /\ \A j \in Jobs : directory[j] # NoDirectory => complete[j] /\ directory[j] = Manifest(j)
    /\ \A w \in Workers : pc[w] \in Paging => ~complete[mine[w]]

pinnedVars == <<complete, retrieved, batches, directory>>

LEMMA PublicationFrame ==
    ASSUME PublicationInv, UNCHANGED pinnedVars,
           \A w \in Workers : pc'[w] \in Paging => pc[w] \in Paging /\ mine'[w] = mine[w]
    PROVE  PublicationInv'
<1>1. \A j : Manifest(j)' = Manifest(j)
  BY DEF Manifest, BarsOf, pinnedVars
<1> QED BY <1>1 DEF PublicationInv, pinnedVars

\* A worker that moves to a new place holds no page there.
LEMMA PcMoves ==
    ASSUME ImportInv, NEW w \in Workers,
           \/ \E label \in PcValues \ Paging : Goto(w, label) \/ Forget(w, label)
           \/ \E j \in Jobs : Take(w, j)
    PROVE  \A v \in Workers : pc'[v] \in Paging => v # w /\ pc[v] \in Paging /\ mine'[v] = mine[v]
BY DEF Goto, Forget, Take, Paging, ImportInv, ImportTypes

LEMMA ReadRowPublication ==
    ASSUME ImportInv, PublicationInv, NEW w \in Workers, ReadRow(w) PROVE PublicationInv'
<1>1. UNCHANGED pinnedVars
  BY DEF ReadRow, importVars, progressVars, pinnedVars
<1>2. CASE \E label \in {"failing", "finalize"} : Goto(w, label)
  <2>1. {"failing", "finalize"} \subseteq PcValues \ Paging
    BY DEF PcValues, Paging
  <2> QED BY <1>1, <1>2, <2>1, PcMoves, PublicationFrame
<1>3. CASE ~\E label \in {"failing", "finalize"} : Goto(w, label)
  <2>1. ~complete[mine[w]] /\ mine' = mine /\ pc' = [pc EXCEPT ![w] = "fetch"]
    BY <1>3 DEF ReadRow, Fail
  <2>2. \A v \in Workers : pc'[v] \in Paging => ~complete'[mine'[v]]
    BY <1>1, <2>1 DEF PublicationInv, pinnedVars, ImportInv, ImportTypes
  <2>3. \A j : Manifest(j)' = Manifest(j)
    BY <1>1 DEF Manifest, BarsOf, pinnedVars
  <2> QED BY <1>1, <2>2, <2>3 DEF PublicationInv, pinnedVars
<1> QED BY <1>2, <1>3

\* The last page: the only worker has it, and the job had no directory.
LEMMA CommitCheckpointPublication ==
    ASSUME SingleWorker, ImportInv, PublicationInv, NEW w \in Workers, CommitCheckpoint(w)
    PROVE  PublicationInv'
<1> DEFINE j == mine[w]
<1>1. pc[w] \in Paging /\ ~complete[j] /\ j \in Jobs
  BY DEF CommitCheckpoint, Paging, PublicationInv, ImportInv, ImportTypes
<1>2. directory[j] = NoDirectory /\ directory' = directory
  BY <1>1 DEF PublicationInv, CommitCheckpoint, CheckpointPage
<1>3. \A i \in Jobs : i # j => /\ complete'[i] = complete[i] /\ retrieved'[i] = retrieved[i]
                              /\ BarsOf(i)' = BarsOf(i)
  BY DEF CommitCheckpoint, CheckpointPage, BarsOf, ImportInv, ImportTypes, ImportTypeOK
<1>4. \A i \in Jobs : i # j => Manifest(i)' = Manifest(i)
  BY <1>3 DEF Manifest
<1>5. \E label \in {"finalize", "turn"} : Forget(w, label)
  BY DEF CommitCheckpoint
<1>6. {"finalize", "turn"} \subseteq PcValues \ Paging
  BY DEF PcValues, Paging
<1>7. \A v \in Workers : pc'[v] \notin Paging
  BY <1>5, <1>6, PcMoves DEF SingleWorker
<1> QED BY <1>2, <1>3, <1>4, <1>7 DEF PublicationInv

LEMMA OpenPublicationPublication ==
    ASSUME ImportInv, PublicationInv, NEW w \in Workers, OpenPublication(w) PROVE PublicationInv'
<1> DEFINE j == mine[w]
<1>1. j \in Jobs /\ complete[j] /\ UNCHANGED progressVars
      /\ directory' = [directory EXCEPT ![j] = Manifest(j)]
  BY DEF OpenPublication, Publish, ImportInv, ImportTypes
<1>2. \A i : Manifest(i)' = Manifest(i)
  BY <1>1 DEF Manifest, BarsOf, progressVars
<1>3. "publish" \in PcValues \ Paging
  BY DEF PcValues, Paging
<1>4. \A v \in Workers : pc'[v] \in Paging => pc[v] \in Paging /\ mine'[v] = mine[v]
  BY <1>3, PcMoves DEF OpenPublication
<1>5. complete' = complete
  BY <1>1 DEF progressVars
<1> QED BY <1>1, <1>2, <1>4, <1>5 DEF PublicationInv, ImportInv, ImportTypes, ImportTypeOK

LEMMA OtherPublication ==
    ASSUME ImportInv, PublicationInv, NEW w \in Workers,
           \/ Poll(w) \/ Start(w) \/ Crash(w) \/ Signal(w)
           \/ Work(w) /\ ~ReadRow(w) /\ ~CommitCheckpoint(w) /\ ~OpenPublication(w)
    PROVE  PublicationInv'
<1>1. UNCHANGED pinnedVars
  <2>1. CASE Poll(w)
    BY <2>1 DEF Poll, PollClaim, PollSlot, PollSchedule, PollNothing, PollOvertaken, Claim,
                ScheduleHistoryImport, CreateImportJob, importVars, progressVars, pinnedVars
  <2>2. CASE Start(w) \/ Crash(w) \/ Signal(w)
    BY <2>2 DEF Start, Crash, Signal, importVars, progressVars, pinnedVars
  <2>3. CASE FetchPage(w) \/ OpenCheckpoint(w) \/ CommitPublication(w) \/ GiveUp(w)
    BY <2>3 DEF FetchPage, OpenCheckpoint, CommitPublication, GiveUp, importVars, progressVars,
                pinnedVars
  <2>4. CASE NextPage(w) \/ StopBetweenPages(w) \/ RecordFailure(w) \/ ExitLoop(w)
    BY <2>4 DEF NextPage, StopBetweenPages, RecordFailure, ExitLoop, importVars, progressVars,
                pinnedVars
  <2> QED BY <2>1, <2>2, <2>3, <2>4 DEF Work
<1>2. \A v \in Workers : pc'[v] \in Paging => pc[v] \in Paging /\ mine'[v] = mine[v]
  <2>1. {"idle", "down", "read", "failing"} \subseteq PcValues \ Paging
    BY DEF PcValues, Paging
  <2>2. CASE Poll(w)
    <3>1. {"idle", "scan"} \subseteq PcValues \ Paging
      BY DEF PcValues, Paging
    <3> QED BY <2>2, <3>1, PcMoves
            DEF Poll, PollClaim, PollSlot, PollSchedule, PollNothing, PollOvertaken, Claim
  <2>3. CASE Start(w) \/ Crash(w) \/ GiveUp(w)
    BY <2>1, <2>3, PcMoves DEF Start, Crash, GiveUp, Fail
  <2>4. CASE Signal(w)
    BY <2>4 DEF Signal
  <2>5. CASE FetchPage(w)
    BY <2>5 DEF FetchPage, Paging, ImportInv, ImportTypes
  <2>6. CASE OpenCheckpoint(w)
    BY <2>1, <2>6, PcMoves DEF OpenCheckpoint, Paging, Fail, ImportInv, ImportTypes
  <2>7. CASE CommitPublication(w) \/ NextPage(w) \/ StopBetweenPages(w) \/ ExitLoop(w)
    BY <2>1, <2>7, PcMoves DEF CommitPublication, NextPage, StopBetweenPages, ExitLoop
  <2>8. CASE RecordFailure(w)
    BY <2>1, <2>8, PcMoves DEF RecordFailure
  <2> QED BY <2>2, <2>3, <2>4, <2>5, <2>6, <2>7, <2>8 DEF Work
<1> QED BY <1>1, <1>2, PublicationFrame

LEMMA PublicationStep ==
    ASSUME SingleWorker, ImportInv, PublicationInv, [Next]_vars PROVE PublicationInv'
<1>1. CASE UNCHANGED vars
  BY <1>1, PublicationFrame DEF vars, importVars, progressVars, pinnedVars, procVars
<1>2. CASE Client
  <2>1. UNCHANGED pinnedVars /\ UNCHANGED procVars
    BY <1>2 DEF Client, ManualImport, CreateImportJob, ResumeImportJob, RequestHistory, importVars,
                progressVars, pinnedVars
  <2> QED BY <2>1, PublicationFrame DEF procVars
<1>3. ASSUME NEW w \in Workers, Poll(w) \/ Work(w) \/ Start(w) \/ Crash(w) \/ Signal(w)
      PROVE  PublicationInv'
  BY <1>3, ReadRowPublication, CommitCheckpointPublication, OpenPublicationPublication,
     OtherPublication
<1> QED BY <1>1, <1>2, <1>3 DEF Next

\* While one worker process runs at a time, the retry of an interrupted
\* publication finds the directory it would make itself, whatever was crashed,
\* resumed or failed before: for any number of jobs, any market and any pages.
THEOREM OneWorkerRetries == SingleWorker => (Spec => []RetryFindsItsOwn)
<1> SUFFICES ASSUME SingleWorker PROVE Spec => []RetryFindsItsOwn
  OBVIOUS
<1>1. Init => PublicationInv
  BY DEF Init, ImportInit, PublicationInv, Paging
<1>2. ImportInv /\ PublicationInv /\ [Next]_vars => PublicationInv'
  BY PublicationStep
<1>3. PublicationInv => RetryFindsItsOwn
  BY DEF PublicationInv, RetryFindsItsOwn, Known
<1> QED BY <1>1, <1>2, <1>3, ImportAlways, PTL DEF Spec

===============================================================================
