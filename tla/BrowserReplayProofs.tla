--------------------------- MODULE BrowserReplayProofs ---------------------------
(***************************************************************************)
(* Theorems about persisted replay runs and the browser session over them, *)
(* for any number of runs, any interval, any warm-up and any events.       *)
(*                                                                         *)
(* An operation is a chain of statements on a work record (a row and a     *)
(* pipeline), so the lemmas say what one statement does to a work record,  *)
(* that such steps compose, and that a commit or a rollback of the result  *)
(* is a good step of the tables.                                           *)
(***************************************************************************)
EXTENDS BrowserReplay, TLAPS

Works == [row : Rows, pipe : Pipelines]

\* The evidence of a row is that of its cursor, and a row completes at the end.
RowInv(row) ==
    /\ row \in Rows
    /\ row.evidence = Emitting \cap 0..row.cursor
    /\ row.status = "completed" => row.cursor = LastBar
    /\ row.status = "none" => row.cursor = -1

WorkInv(w) == w \in Works /\ RowInv(w.row)

\* A persisted run only moves on.
RowStep(old, new) ==
    /\ old.status \in Terminal => new = old
    /\ old.cursor <= new.cursor
    /\ old.evidence \subseteq new.evidence
    /\ old.status # "none" => new.status # "none"

\* A run whose pipeline is ahead of its row stays where it is.
StaysLost(v, w) ==
    Diverged(v) =>
        /\ w.pipe.index = v.pipe.index /\ w.row.cursor = v.row.cursor
        /\ w.row.status = "completed" => v.row.status = "completed"

WorkStep(v, w) == WorkInv(w) /\ RowStep(v.row, w.row) /\ StaysLost(v, w)

Live(w) == w.row.status \notin Terminal \cup {"none"}

-------------------------------------------------------------------------------
(* Statements.                                                             *)

LEMMA BarFacts == LastBar \in Nat /\ Bars = 0..LastBar /\ LastBar \in Bars /\ Emitting \subseteq 0..LastBar
BY BarsAssumption DEF LastBar, Bars

LEMMA StepRefl ==
    ASSUME NEW w, WorkInv(w)
    PROVE  WorkStep(w, w)
<1>1. w.row.cursor \in Int
  BY BarFacts DEF WorkInv, Works, Rows
<1> QED
  BY <1>1 DEF WorkStep, WorkInv, RowStep, StaysLost

LEMMA StepTrans ==
    ASSUME NEW u, NEW v, NEW w, WorkInv(u), WorkStep(u, v), WorkStep(v, w)
    PROVE  WorkStep(u, w)
<1>1. u.row.cursor \in Int /\ v.row.cursor \in Int /\ w.row.cursor \in Int
  BY BarFacts DEF WorkStep, WorkInv, Works, Rows
<1>2. RowStep(u.row, w.row)
  BY <1>1 DEF WorkStep, RowStep
<1>3. StaysLost(u, w)
  BY DEF WorkStep, StaysLost, Diverged
<1> QED
  BY <1>2, <1>3 DEF WorkStep

LEMMA LatchStep ==
    ASSUME NEW w, WorkInv(w)
    PROVE  /\ WorkStep(w, Latched(w))
           /\ Latched(w).row = w.row /\ Latched(w).pipe.index = w.pipe.index
<1>1. /\ Latched(w) \in Works
      /\ Latched(w).row = w.row /\ Latched(w).pipe.index = w.pipe.index
  BY DEF Latched, WorkInv, Works, Pipelines
<1>2. w.row.cursor \in Int
  BY BarFacts DEF WorkInv, Works, Rows
<1> QED
  BY <1>1, <1>2 DEF WorkStep, WorkInv, RowStep, StaysLost

\* Only a run whose row reached the last bar may be set to completed.
LEMMA StatusStep ==
    ASSUME NEW w, WorkInv(w), Live(w), NEW status \in Statuses \ {"none"},
           status = "completed" => w.row.cursor = LastBar /\ ~Diverged(w)
    PROVE  /\ WorkStep(w, SetStatus(w, status))
           /\ SetStatus(w, status).pipe = w.pipe
           /\ SetStatus(w, status).row.cursor = w.row.cursor
           /\ SetStatus(w, status).row.status = status
<1> DEFINE v == SetStatus(w, status)
<1>1. /\ v \in Works /\ v.pipe = w.pipe /\ v.row.status = status
      /\ v.row.cursor = w.row.cursor /\ v.row.evidence = w.row.evidence
  BY DEF SetStatus, WorkInv, Works, Rows
<1>2. RowInv(v.row)
  BY <1>1 DEF WorkInv, RowInv, Works
<1>3. RowStep(w.row, v.row)
  <2>1. w.row.cursor \in Int
    BY BarFacts DEF WorkInv, Works, Rows
  <2> QED
    BY <1>1, <2>1 DEF RowStep, Live
<1>4. StaysLost(w, v)
  BY <1>1 DEF StaysLost
<1> QED
  BY <1>1, <1>2, <1>3, <1>4 DEF WorkStep, WorkInv

LEMMA AbortStep ==
    ASSUME NEW row, RowInv(row)
    PROVE  /\ RowInv(Aborted(row)) /\ RowStep(row, Aborted(row))
           /\ row.status # "none" => Aborted(row).status \in Terminal
           /\ Aborted(row).cursor = row.cursor
           /\ Aborted(row).status = "completed" => row.status = "completed"
<1>1. row.cursor \in Int
  BY BarFacts DEF RowInv, Rows
<1>2. CASE row.status \in Unfinished
  <2>1. Aborted(row) = [row EXCEPT !.status = "aborted"]
    BY <1>2 DEF Aborted
  <2>2. /\ Aborted(row) \in Rows /\ Aborted(row).status = "aborted"
        /\ Aborted(row).cursor = row.cursor /\ Aborted(row).evidence = row.evidence
    BY <2>1 DEF RowInv, Rows, Statuses
  <2> QED
    BY <1>1, <1>2, <2>2 DEF RowInv, RowStep, Terminal, Unfinished
<1>3. CASE row.status \notin Unfinished
  <2>1. Aborted(row) = row
    BY <1>3 DEF Aborted
  <2>2. row.status \in Terminal \cup {"none"}
    BY <1>3 DEF RowInv, Rows, Statuses, Terminal, Unfinished
  <2> QED
    BY <1>1, <2>1, <2>2 DEF RowStep
<1> QED
  BY <1>2, <1>3

-------------------------------------------------------------------------------
(* Calls.  Every outcome of a call is a good step of its work record.      *)

Good(w, results) == \A result \in results : WorkStep(w, result.work)

LEMMA FailureIsGood ==
    ASSUME NEW w, WorkInv(w), Live(w)
    PROVE  Good(w, RecordFailure(w)) /\ \A result \in RecordFailure(w) : result.raised
<1>1. WorkStep(w, Latched(w)) /\ Latched(w).row = w.row
  BY LatchStep
<1>2. WorkInv(Latched(w)) /\ Live(Latched(w))
  BY <1>1 DEF WorkStep, Live
<1>3. WorkStep(Latched(w), Failed(w))
  BY <1>2, StatusStep DEF Failed, Statuses
<1>4. WorkStep(w, Failed(w))
  BY <1>1, <1>3, StepTrans
<1> QED
  BY <1>1, <1>4 DEF Good, RecordFailure, Raises

\* A run that begins is running afterwards.
LEMMA BeginIsGood ==
    ASSUME NEW w, WorkInv(w), w.row.status # "none"
    PROVE  /\ Good(w, Begin(w))
           /\ \A result \in Begin(w) : ~result.raised => result.work.row.status = "running"
<1>1. WorkStep(w, w)
  BY StepRefl
<1>2. WorkStep(w, Latched(w))
  BY LatchStep
<1>3. ASSUME Live(w)
      PROVE  WorkStep(w, SetStatus(w, "running")) /\ SetStatus(w, "running").row.status = "running"
  BY <1>3, StatusStep DEF Statuses
<1>4. CASE w.row.status = "created"
  <2>1. Live(w)
    BY <1>4 DEF Live, Terminal
  <2>2. Begin(w) = Start(w)
    BY <1>4 DEF Begin
  <2> QED
    BY <1>1, <1>2, <1>3, <2>1, <2>2 DEF Good, Start, Returns, Raises
<1>5. CASE w.row.status = "paused"
  <2>1. Live(w)
    BY <1>5 DEF Live, Terminal
  <2>2. Begin(w) = Resume(w)
    BY <1>5 DEF Begin
  <2> QED
    BY <1>1, <1>3, <2>1, <2>2, FailureIsGood DEF Good, Resume, Returns, Raises
<1>6. CASE w.row.status = "running"
  <2>1. Begin(w) = {Returns(w)}
    BY <1>6 DEF Begin
  <2> QED
    BY <1>1, <1>6, <2>1 DEF Good, Returns
<1>7. CASE w.row.status \notin {"created", "paused", "running"}
  <2>1. Begin(w) = {Raises(w)}
    BY <1>7 DEF Begin
  <2> QED
    BY <1>1, <2>1 DEF Good, Raises
<1> QED
  BY <1>4, <1>5, <1>6, <1>7

\* Bars that were processed are counted and stored together.
LEMMA ReachedIsGood ==
    ASSUME NEW w, WorkInv(w), w.row.status = "running", ~Diverged(w),
           NEW b \in w.pipe.index..LastBar
    PROVE  /\ WorkStep(w, Reached(w, b)) /\ Reached(w, b).row.cursor = b
           /\ Reached(w, b).pipe.index = b /\ Reached(w, b).row.status = "running"
<1> DEFINE v == Reached(w, b)
<1>1. /\ w \in Works /\ w.row \in Rows /\ w.pipe \in Pipelines
      /\ w.row.evidence = Emitting \cap 0..w.row.cursor
      /\ w.row.cursor = w.pipe.index /\ w.pipe.index \in -1..LastBar
  BY BarFacts DEF WorkInv, RowInv, Works, Diverged, Pipelines
<1>2. b \in Bars \cup {-1} /\ b \in Int /\ w.row.cursor <= b
  BY <1>1, BarFacts
<1>3. /\ v.row = [w.row EXCEPT !.cursor = b, !.evidence = @ \cup (Emitting \cap (w.pipe.index + 1)..b)]
      /\ v.pipe = [w.pipe EXCEPT !.index = b]
      /\ v = [row |-> v.row, pipe |-> v.pipe]
  BY DEF Reached
<1>4. /\ v.row \in Rows /\ v.row.cursor = b /\ v.row.status = "running"
      /\ v.row.evidence = w.row.evidence \cup (Emitting \cap (w.pipe.index + 1)..b)
  BY <1>1, <1>2, <1>3, BarsAssumption DEF Rows
<1>5. v.pipe \in Pipelines /\ v.pipe.index = b
  BY <1>1, <1>2, <1>3 DEF Pipelines
<1>6. v.row.evidence = Emitting \cap 0..b
  <2>1. 0..w.row.cursor \cup (w.row.cursor + 1)..b = 0..b
    BY <1>1, <1>2, BarFacts
  <2> QED
    BY <1>1, <1>4, <2>1
<1>7. v \in Works
  BY <1>3, <1>4, <1>5 DEF Works
<1>8. WorkInv(v)
  BY <1>4, <1>6, <1>7 DEF WorkInv, RowInv
<1>9. RowStep(w.row, v.row)
  BY <1>2, <1>4 DEF RowStep, Terminal
<1> QED
  BY <1>4, <1>5, <1>8, <1>9 DEF WorkStep, StaysLost

LEMMA MissedIsGood ==
    ASSUME NEW w, WorkInv(w), w.row.status = "running", ~Diverged(w),
           NEW f \in (w.pipe.index + 1)..LastBar
    PROVE  WorkStep(w, Missed(w, f)) /\ Live(Missed(w, f))
<1> DEFINE v == Reached(w, f - 1)
<1>1. w.pipe.index \in Int /\ f - 1 \in w.pipe.index..LastBar /\ f \in Bars
  BY BarFacts DEF WorkInv, Works, Pipelines
<1>2. WorkStep(w, v) /\ v.row.status = "running"
  BY <1>1, ReachedIsGood
<1>3. /\ Missed(w, f).row = v.row /\ Missed(w, f) \in Works
  BY <1>1, <1>2 DEF Missed, WorkStep, WorkInv, Works, Pipelines
<1> QED
  BY <1>2, <1>3 DEF WorkStep, WorkInv, StaysLost, Live, Terminal

LEMMA WalkIsGood ==
    ASSUME NEW w, WorkInv(w), w.row.status = "running",
           NEW b \in (w.pipe.index + 1)..LastBar
    PROVE  /\ Good(w, WalkTo(w, b))
           /\ \A result \in WalkTo(w, b) : ~result.raised =>
                  /\ result.work.row.status = "running" /\ ~Diverged(result.work)
                  /\ result.work.pipe.index = b
<1>1. Live(w) /\ w.pipe.index \in Int /\ LastBar \in Int
  BY BarFacts DEF Live, Terminal, WorkInv, Works, Pipelines
<1>2. CASE w.pipe.latched
  BY <1>2, StepRefl DEF WalkTo, Good, Raises
<1>3. CASE ~w.pipe.latched /\ Diverged(w)
  BY <1>1, <1>3, FailureIsGood DEF WalkTo
<1>4. CASE ~w.pipe.latched /\ ~Diverged(w)
  <2>1. SUFFICES ASSUME NEW result \in WalkTo(w, b)
                 PROVE  /\ WorkStep(w, result.work)
                        /\ ~result.raised => /\ result.work.row.status = "running"
                                             /\ ~Diverged(result.work)
                                             /\ result.work.pipe.index = b
    BY DEF Good
  <2>2. \/ result = Returns(Reached(w, b))
        \/ \E s \in w.pipe.index..(b - 1) :
              result = Raises(Reached(w, s)) \/ result = Raises(Latched(Reached(w, s)))
        \/ \E f \in (w.pipe.index + 1)..b : result \in RecordFailure(Missed(w, f))
    BY <1>4 DEF WalkTo
  <2>3. CASE result = Returns(Reached(w, b))
    <3>1. b \in w.pipe.index..LastBar
      BY <1>1
    <3> QED
      BY <1>4, <2>3, <3>1, ReachedIsGood DEF Returns, Diverged
  <2>4. ASSUME NEW s \in w.pipe.index..(b - 1),
               result = Raises(Reached(w, s)) \/ result = Raises(Latched(Reached(w, s)))
        PROVE  WorkStep(w, result.work) /\ result.raised
    <3>1. s \in w.pipe.index..LastBar
      BY <1>1
    <3>2. WorkStep(w, Reached(w, s)) /\ WorkInv(Reached(w, s))
      BY <1>4, <3>1, ReachedIsGood DEF WorkStep
    <3>3. WorkStep(w, Latched(Reached(w, s)))
      BY <3>2, LatchStep, StepTrans
    <3> QED
      BY <2>4, <3>2, <3>3 DEF Raises
  <2>5. ASSUME NEW f \in (w.pipe.index + 1)..b, result \in RecordFailure(Missed(w, f))
        PROVE  WorkStep(w, result.work) /\ result.raised
    <3>1. f \in (w.pipe.index + 1)..LastBar
      BY <1>1
    <3>2. WorkStep(w, Missed(w, f)) /\ Live(Missed(w, f)) /\ WorkInv(Missed(w, f))
      BY <1>4, <3>1, MissedIsGood DEF WorkStep
    <3>3. WorkStep(Missed(w, f), result.work) /\ result.raised
      BY <2>5, <3>2, FailureIsGood DEF Good
    <3> QED
      BY <3>2, <3>3, StepTrans
  <2> QED
    BY <2>2, <2>3, <2>4, <2>5
<1> QED
  BY <1>2, <1>3, <1>4

\* Complete is called with an exhausted clock.
LEMMA CompleteIsGood ==
    ASSUME NEW w, WorkInv(w), Live(w), ~HasNext(w)
    PROVE  Good(w, Complete(w))
<1>1. WorkStep(w, w)
  BY StepRefl
<1>2. CASE w.pipe.latched
  BY <1>1, <1>2 DEF Complete, Good, Raises
<1>3. CASE ~w.pipe.latched /\ Diverged(w)
  BY <1>3, FailureIsGood DEF Complete
<1>4. CASE ~w.pipe.latched /\ ~Diverged(w)
  <2>1. w.row.cursor = LastBar
    BY <1>4, BarFacts DEF HasNext, Diverged, WorkInv, Works, Pipelines
  <2>2. WorkStep(w, SetStatus(w, "completed"))
    BY <1>4, <2>1, StatusStep DEF Statuses
  <2> QED
    BY <1>1, <1>4, <2>2 DEF Complete, Good, Returns, Raises
<1> QED
  BY <1>2, <1>3, <1>4

LEMMA SettleIsGood ==
    ASSUME NEW w, WorkInv(w), Live(w), NEW status \in {"running", "paused"}
    PROVE  Good(w, Settle(w, status))
<1>1. WorkStep(w, w) /\ WorkStep(w, SetStatus(w, status))
  BY StepRefl, StatusStep DEF Statuses
<1> QED
  BY <1>1, CompleteIsGood DEF Settle, Good, Returns, Raises

LEMMA PauseIsGood ==
    ASSUME NEW w, WorkInv(w), Live(w)
    PROVE  Good(w, PauseAtMatch(w))
<1>1. WorkStep(w, SetStatus(w, "paused"))
  BY StatusStep DEF Statuses
<1>2. Good(w, RecordFailure(w))
  BY FailureIsGood
<1>3. ~HasNext(w) => Good(w, Complete(w))
  BY CompleteIsGood
<1> QED
  BY <1>1, <1>2, <1>3 DEF PauseAtMatch, Good, Returns, Raises

-------------------------------------------------------------------------------
(* Requests.                                                               *)

LEMMA NextVisibleInRange ==
    ASSUME NEW w, WorkInv(w), HasNext(w)
    PROVE  NextVisible(w) \in (w.pipe.index + 1)..LastBar
<1>1. w.pipe.index \in Int /\ -1 <= w.pipe.index /\ w.pipe.index < LastBar
  BY BarFacts DEF HasNext, WorkInv, Works, Pipelines
<1>2. FirstVisible \in Int /\ FirstVisible <= LastBar
  BY BarsAssumption, BarFacts
<1> QED
  BY <1>1, <1>2, BarFacts DEF NextVisible

LEMMA SteppedIsGood ==
    ASSUME NEW w, WorkInv(w), NEW begun, WorkStep(w, begun.work),
           ~begun.raised => begun.work.row.status = "running",
           NEW status \in {"running", "paused"}
    PROVE  Good(w, Stepped(begun, status))
<1> DEFINE v == begun.work
<1>1. CASE begun.raised \/ ~HasNext(v)
  BY <1>1 DEF Stepped, Good
<1>2. CASE ~begun.raised /\ HasNext(v)
  <2>1. WorkInv(v) /\ v.row.status = "running"
    BY <1>2 DEF WorkStep
  <2>2. NextVisible(v) \in (v.pipe.index + 1)..LastBar
    BY <1>2, <2>1, NextVisibleInRange
  <2>3. SUFFICES ASSUME NEW walk \in WalkTo(v, NextVisible(v)),
                        NEW result \in IF walk.raised THEN {walk} ELSE Settle(walk.work, status)
                 PROVE  WorkStep(w, result.work)
    BY <1>2 DEF Stepped, Good
  <2>4. WorkStep(v, walk.work) /\ WorkInv(walk.work)
    BY <2>1, <2>2, WalkIsGood DEF Good, WorkStep
  <2>5. WorkStep(w, walk.work)
    BY <2>4, StepTrans
  <2>6. ASSUME ~walk.raised PROVE WorkStep(walk.work, result.work)
    <3>1. Live(walk.work)
      BY <2>1, <2>2, <2>6, WalkIsGood DEF Live, Terminal
    <3>2. Good(walk.work, Settle(walk.work, status))
      BY <2>4, <3>1, SettleIsGood
    <3> QED
      BY <2>6, <3>2 DEF Good
  <2> QED
    BY <2>4, <2>5, <2>6, StepTrans
<1> QED
  BY <1>1, <1>2

LEMMA FoundIsGood ==
    ASSUME NEW w, WorkInv(w), NEW begun, WorkStep(w, begun.work),
           ~begun.raised => begun.work.row.status = "running",
           NEW matching
    PROVE  Good(w, Found(begun, matching))
<1> DEFINE v == begun.work
<1>1. CASE begun.raised
  BY <1>1 DEF Found, Good
<1>2. CASE ~begun.raised /\ ~HasNext(v)
  <2>1. Good(v, Complete(v))
    BY <1>2, CompleteIsGood DEF WorkStep, Live, Terminal
  <2>2. Found(begun, matching) = Complete(v)
    BY <1>2 DEF Found
  <2> QED
    BY <2>1, <2>2, StepTrans DEF Good
<1>3. CASE ~begun.raised /\ HasNext(v)
  <2>1. WorkInv(v) /\ v.row.status = "running" /\ v.pipe.index \in Int
    BY <1>3, BarFacts DEF WorkStep, WorkInv, Works, Pipelines
  <2>2. SUFFICES ASSUME NEW b \in Bars, Destination(v, matching, b), NEW walk \in WalkTo(v, b),
                        NEW result \in IF walk.raised THEN {walk}
                                       ELSE IF walk.work.pipe.index \in matching
                                       THEN PauseAtMatch(walk.work) ELSE Complete(walk.work)
                 PROVE  WorkStep(w, result.work)
    BY <1>3 DEF Found, Good
  <2>3. b \in (v.pipe.index + 1)..LastBar
    BY <1>3, <2>1, <2>2, BarFacts DEF Destination, Ahead, HasNext
  <2>4. WorkStep(v, walk.work) /\ WorkInv(walk.work)
    BY <2>1, <2>3, WalkIsGood DEF Good, WorkStep
  <2>5. WorkStep(w, walk.work)
    BY <2>4, StepTrans
  <2>6. ASSUME ~walk.raised PROVE WorkStep(walk.work, result.work)
    <3>1. Live(walk.work) /\ walk.work.pipe.index = b
      BY <2>1, <2>3, <2>6, WalkIsGood DEF Live, Terminal
    <3>2. CASE b \in matching
      BY <2>2, <2>4, <2>6, <3>1, <3>2, PauseIsGood DEF Good
    <3>3. CASE b \notin matching
      <4>1. b = LastBar
        BY <2>2, <3>3 DEF Destination, Ahead
      <4>2. ~HasNext(walk.work)
        BY <3>1, <4>1, BarFacts DEF HasNext
      <4>3. Good(walk.work, Complete(walk.work))
        BY <2>4, <3>1, <4>2, CompleteIsGood
      <4> QED
        BY <2>6, <3>1, <3>3, <4>3 DEF Good
    <3> QED
      BY <3>2, <3>3
  <2> QED
    BY <2>4, <2>5, <2>6, StepTrans
<1> QED
  BY <1>1, <1>2, <1>3

-------------------------------------------------------------------------------
(* The tables.                                                             *)

ReplayInv ==
    /\ rows \in [Runs -> Rows] /\ \A r \in Runs : RowInv(rows[r])
    /\ active \in Runs \cup {NoRun}
    /\ active # NoRun => rows[active].status # "none"
    /\ pipe \in Pipelines

StaysBehind(old, new) ==
    /\ new.cursor = old.cursor
    /\ new.status = "completed" => old.status = "completed"

\* What the step properties say of one step.
GoodStep ==
    /\ ReplayInv'
    /\ \A r \in Runs : RowStep(rows[r], rows'[r])
    /\ active # NoRun /\ pipe.index # rows[active].cursor => StaysBehind(rows[active], rows'[active])
    /\ active # NoRun /\ active' # active => Restart \/ rows'[active].status \in Terminal

LEMMA RowRefl ==
    ASSUME NEW row, RowInv(row)
    PROVE  RowStep(row, row)
<1>1. row.cursor \in Int
  BY BarFacts DEF RowInv, Rows
<1> QED
  BY <1>1 DEF RowStep

LEMMA CurrentWork ==
    ASSUME ReplayInv, active # NoRun
    PROVE  WorkInv(Current) /\ Current.row = rows[active] /\ Current.row.status # "none"
<1>1. active \in Runs /\ rows[active] \in Rows /\ pipe \in Pipelines
  BY DEF ReplayInv
<1>2. Current = [row |-> rows[active], pipe |-> pipe]
  BY DEF Current
<1> QED
  BY <1>1, <1>2 DEF ReplayInv, WorkInv, Works

\* Whether or not the row of a good step is committed, the table is good.
LEMMA CommitIsGood ==
    ASSUME ReplayInv, active # NoRun, NEW w, WorkStep(Current, w),
           rows' \in {rows, [rows EXCEPT ![active] = w.row]}, pipe' = w.pipe, UNCHANGED active
    PROVE  GoodStep
<1>1. WorkInv(Current) /\ Current.row = rows[active] /\ Current.row.status # "none"
  BY CurrentWork
<1>session. active \in Runs /\ Current.pipe = pipe
  BY DEF ReplayInv, Current
<1>2. /\ w.row \in Rows /\ w.pipe \in Pipelines /\ RowInv(w.row) /\ RowStep(rows[active], w.row)
      /\ StaysLost(Current, w)
  BY <1>1 DEF WorkStep, WorkInv, Works
<1>3. CASE rows' = rows
  <2>1. ReplayInv'
    BY <1>2, <1>3 DEF ReplayInv
  <2>2. \A r \in Runs : RowStep(rows[r], rows'[r])
    BY <1>3, RowRefl DEF ReplayInv
  <2>3. StaysBehind(rows[active], rows'[active])
    BY <1>3 DEF StaysBehind
  <2> QED
    BY <2>1, <2>2, <2>3 DEF GoodStep
<1>4. CASE rows' = [rows EXCEPT ![active] = w.row]
  <2>1. rows' \in [Runs -> Rows] /\ \A r \in Runs : rows'[r] = IF r = active THEN w.row ELSE rows[r]
    BY <1>1, <1>2, <1>4, <1>session DEF ReplayInv
  <2>2. ReplayInv'
    BY <1>1, <1>2, <1>session, <2>1 DEF ReplayInv, RowStep
  <2>3. \A r \in Runs : RowStep(rows[r], rows'[r])
    BY <1>2, <2>1, RowRefl DEF ReplayInv
  <2>4. pipe.index # rows[active].cursor => StaysBehind(rows[active], rows'[active])
    BY <1>1, <1>2, <1>session, <2>1 DEF StaysLost, StaysBehind, Diverged
  <2> QED
    BY <2>2, <2>3, <2>4 DEF GoodStep
<1> QED
  BY <1>3, <1>4

\* A step that only changes the session, or whose transaction was rolled back.
LEMMA QuietIsGood ==
    ASSUME ReplayInv, UNCHANGED rows, pipe' \in Pipelines,
           \/ UNCHANGED <<active, pipe>>
           \/ Restart
    PROVE  GoodStep
<1>1. ReplayInv'
  BY DEF ReplayInv, Restart
<1>2. \A r \in Runs : RowStep(rows[r], rows'[r])
  BY RowRefl DEF ReplayInv
<1>3. active # NoRun => StaysBehind(rows[active], rows'[active])
  BY DEF StaysBehind
<1> QED
  BY <1>1, <1>2, <1>3 DEF GoodStep

\* stop and replace: the old run ends and, perhaps, a new one appears.
LEMMA SessionIsGood ==
    ASSUME ReplayInv, active # NoRun, NEW table, NEW r, NEW pipeline \in Pipelines,
           CommitsSession(table, r, pipeline),
           table \in [Runs -> Rows], \A s \in Runs : RowInv(table[s]) /\ RowStep(rows[s], table[s]),
           table[active] = Aborted(rows[active]),
           r \in Runs \cup {NoRun}, r # NoRun => table[r].status # "none"
    PROVE  GoodStep
<1>1. CASE rows' = table /\ active' = r /\ pipe' = pipeline
  <2>1. ReplayInv'
    BY <1>1 DEF ReplayInv
  <2>2. /\ StaysBehind(rows[active], rows'[active])
        /\ rows'[active].status \in Terminal
    BY <1>1, AbortStep DEF ReplayInv, StaysBehind
  <2> QED
    BY <1>1, <2>1, <2>2 DEF GoodStep
<1>2. CASE rows' = table /\ UNCHANGED <<active, pipe>>
  <2>1. ReplayInv'
    BY <1>2 DEF ReplayInv, RowStep
  <2>2. StaysBehind(rows[active], rows'[active])
    BY <1>2, AbortStep DEF ReplayInv, StaysBehind
  <2> QED
    BY <1>2, <2>1, <2>2 DEF GoodStep
<1>3. CASE rows' = rows /\ UNCHANGED <<active, pipe>>
  BY <1>3, QuietIsGood DEF ReplayInv
<1> QED
  BY <1>1, <1>2, <1>3 DEF CommitsSession

\* A row that is new to the table, whatever it holds.
LEMMA NewRow ==
    ASSUME ReplayInv, NEW r \in Fresh, NEW row, RowInv(row)
    PROVE  r \in Runs /\ rows[r].status = "none" /\ RowStep(rows[r], row)
<1>1. r \in Runs /\ rows[r].status = "none" /\ RowInv(rows[r])
  BY DEF Fresh, ReplayInv
<1>2. rows[r].cursor = -1 /\ rows[r].evidence = {}
  <2>1. 0..(-1) = {}
    OBVIOUS
  <2> QED
    BY <1>1, <2>1 DEF RowInv
<1>3. row.cursor \in Int /\ -1 <= row.cursor
  BY BarFacts DEF RowInv, Rows
<1> QED
  BY <1>1, <1>2, <1>3 DEF RowStep, Terminal

LEMMA CreatedIsGood ==
    /\ RowInv(CreatedRow) /\ RowInv(NoRow)
    /\ CreatedRow.status = "created" /\ CreatedRow.cursor = -1
    /\ FreshPipeline \in Pipelines /\ FreshPipeline.index = -1
<1>1. 0..(-1) = {}
  OBVIOUS
<1>2. CreatedRow \in Rows /\ NoRow \in Rows /\ FreshPipeline \in Pipelines
  BY DEF CreatedRow, NoRow, FreshPipeline, Rows, Statuses, Pipelines
<1> QED
  BY <1>1, <1>2 DEF CreatedRow, NoRow, FreshPipeline, RowInv

LEMMA LaunchIsGood ==
    ASSUME ReplayInv, Launch
    PROVE  GoodStep
<1>1. PICK r \in Fresh : CommitsSession([rows EXCEPT ![r] = CreatedRow], r, FreshPipeline)
  BY DEF Launch
<1> DEFINE table == [rows EXCEPT ![r] = CreatedRow]
<1>2. active = NoRun /\ r \in Runs /\ RowStep(rows[r], CreatedRow)
  BY CreatedIsGood, NewRow DEF Launch
<1>3. /\ table \in [Runs -> Rows]
      /\ \A s \in Runs : table[s] = IF s = r THEN CreatedRow ELSE rows[s]
  BY <1>2, CreatedIsGood DEF ReplayInv, RowInv
<1>4. \A s \in Runs : RowInv(table[s]) /\ RowStep(rows[s], table[s])
  BY <1>2, <1>3, CreatedIsGood, RowRefl DEF ReplayInv
<1>5. ASSUME rows' = table, active' = r, pipe' = FreshPipeline PROVE GoodStep
  <2>1. ReplayInv'
    BY <1>2, <1>3, <1>4, <1>5, CreatedIsGood DEF ReplayInv
  <2> QED
    BY <1>2, <1>4, <1>5, <2>1 DEF GoodStep
<1>6. ASSUME rows' = table, UNCHANGED <<active, pipe>> PROVE GoodStep
  <2>1. ReplayInv'
    BY <1>2, <1>3, <1>4, <1>6 DEF ReplayInv
  <2> QED
    BY <1>2, <1>4, <1>6, <2>1 DEF GoodStep
<1>7. ASSUME rows' = rows, UNCHANGED <<active, pipe>> PROVE GoodStep
  BY <1>7, QuietIsGood DEF ReplayInv
<1> QED
  BY <1>1, <1>5, <1>6, <1>7 DEF CommitsSession

LEMMA StopIsGood ==
    ASSUME ReplayInv, Stop
    PROVE  GoodStep
<1> DEFINE table == [rows EXCEPT ![active] = Aborted(rows[active])]
<1>1. /\ active \in Runs /\ active # NoRun
      /\ CommitsSession(table, NoRun, FreshPipeline)
      /\ RowInv(Aborted(rows[active])) /\ RowStep(rows[active], Aborted(rows[active]))
  BY AbortStep DEF Stop, ReplayInv
<1>2. /\ table \in [Runs -> Rows]
      /\ \A s \in Runs : table[s] = IF s = active THEN Aborted(rows[active]) ELSE rows[s]
  BY <1>1 DEF ReplayInv, RowInv
<1>3. \A s \in Runs : RowInv(table[s]) /\ RowStep(rows[s], table[s])
  BY <1>1, <1>2, RowRefl DEF ReplayInv
<1> QED
  BY <1>1, <1>2, <1>3, CreatedIsGood, SessionIsGood

LEMMA ReplaceIsGood ==
    ASSUME ReplayInv, NEW new, RowInv(new.row), new.row.status # "none", new.pipe \in Pipelines,
           Replace(new)
    PROVE  GoodStep
<1>1. PICK r \in Fresh :
          CommitsSession([rows EXCEPT ![active] = Aborted(rows[active]), ![r] = new.row], r, new.pipe)
  BY DEF Replace
<1> DEFINE table == [rows EXCEPT ![active] = Aborted(rows[active]), ![r] = new.row]
<1>2. /\ active \in Runs /\ active # NoRun /\ rows[active].status # "none"
      /\ RowInv(Aborted(rows[active])) /\ RowStep(rows[active], Aborted(rows[active]))
  BY AbortStep DEF Replace, ReplayInv
<1>3. r \in Runs /\ r # active /\ RowStep(rows[r], new.row)
  BY <1>2, NewRow
<1>4. /\ table \in [Runs -> Rows]
      /\ \A s \in Runs : table[s] = IF s = r THEN new.row
                                   ELSE IF s = active THEN Aborted(rows[active]) ELSE rows[s]
  BY <1>2, <1>3 DEF ReplayInv, RowInv
<1>5. \A s \in Runs : RowInv(table[s]) /\ RowStep(rows[s], table[s])
  BY <1>2, <1>3, <1>4, RowRefl DEF ReplayInv
<1> QED
  BY <1>1, <1>2, <1>3, <1>4, <1>5, SessionIsGood

\* Seeking makes a run whose row was walked to its target.
LEMMA WalkedIsGood ==
    ASSUME NEW target \in FirstVisible..LastBar
    PROVE  /\ RowInv(Walked(target).row) /\ Walked(target).row.status # "none"
           /\ Walked(target).pipe \in Pipelines
<1> DEFINE fresh == [row |-> CreatedRow, pipe |-> FreshPipeline]
           w == Reached(fresh, target)
<1>1. target \in 0..LastBar /\ target \in Int
  BY BarsAssumption, BarFacts
<1>2. /\ w.row = [CreatedRow EXCEPT !.cursor = target, !.evidence = {} \cup (Emitting \cap (-1 + 1)..target)]
      /\ w.pipe = [FreshPipeline EXCEPT !.index = target]
      /\ w = [row |-> w.row, pipe |-> w.pipe]
  BY DEF Reached, CreatedRow, FreshPipeline
<1>3. /\ w.row = [status |-> "created", cursor |-> target,
                    evidence |-> {} \cup (Emitting \cap (-1 + 1)..target)]
      /\ w.pipe = [index |-> target, latched |-> FALSE]
  BY <1>2, Zenon DEF CreatedRow, FreshPipeline
<1>prefix. {} \cup (Emitting \cap (-1 + 1)..target) = Emitting \cap 0..target
  OBVIOUS
<1>range. Emitting \cap 0..target \in SUBSET Bars /\ target \in Bars
  BY <1>1, BarFacts
<1>4. w.row \in Rows /\ w.pipe \in Pipelines
  <2>1. w.row = [status |-> "created", cursor |-> target, evidence |-> Emitting \cap 0..target]
    BY <1>3, <1>prefix, Zenon
  <2>2. w.row \in Rows
    <3> HIDE DEF w
    <3> QED
      BY <1>range, <2>1 DEF Rows, Statuses
  <2>3. w.pipe \in Pipelines
    <3> HIDE DEF w
    <3> QED
      BY <1>range, <1>3 DEF Pipelines
  <2> QED
    BY <2>2, <2>3
<1>5. WorkInv(w) /\ Live(w) /\ ~Diverged(w)
  BY <1>2, <1>3, <1>4, <1>prefix DEF WorkInv, Works, RowInv, Live, Terminal, Diverged
<1>6. CASE HasNext(w)
  <2>1. Walked(target) = SetStatus(w, "paused")
    BY <1>6 DEF Walked
  <2>2. /\ WorkInv(SetStatus(w, "paused")) /\ SetStatus(w, "paused").row.status = "paused"
        /\ SetStatus(w, "paused").pipe = w.pipe
    BY <1>5, StatusStep DEF Statuses, WorkStep
  <2> QED
    BY <1>4, <2>1, <2>2 DEF WorkInv
<1>7. CASE ~HasNext(w)
  <2>1. Walked(target) = SetStatus(w, "completed")
    BY <1>7 DEF Walked
  <2>2. w.row.cursor = LastBar
    BY <1>1, <1>3, <1>7, BarFacts DEF HasNext
  <2>3. /\ WorkInv(SetStatus(w, "completed")) /\ SetStatus(w, "completed").row.status = "completed"
        /\ SetStatus(w, "completed").pipe = w.pipe
    BY <1>5, <2>2, StatusStep DEF Statuses, WorkStep
  <2> QED
    BY <1>4, <2>1, <2>3 DEF WorkInv
<1> QED
  BY <1>6, <1>7

-------------------------------------------------------------------------------
(* The step, and the theorems.                                             *)

LEMMA InitIsGood ==
    ASSUME Init
    PROVE  ReplayInv
BY CreatedIsGood DEF Init, ReplayInv, RowInv

LEMMA StepIsGood ==
    ASSUME ReplayInv, [Next]_vars
    PROVE  GoodStep
<1>1. CASE Launch
  BY <1>1, LaunchIsGood
<1>2. CASE Stop
  BY <1>2, StopIsGood
<1>3. CASE StepVisible
  <2>1. PICK begun \in Begin(Current) :
            \E result \in Stepped(begun, "paused") : Commits(result.work)
    BY <1>3 DEF StepVisible
  <2>2. PICK result \in Stepped(begun, "paused") : Commits(result.work)
    BY <2>1
  <2>3. active # NoRun /\ WorkInv(Current) /\ Current.row.status # "none"
    BY <1>3, CurrentWork DEF StepVisible
  <2>4. WorkStep(Current, begun.work) /\ (~begun.raised => begun.work.row.status = "running")
    BY <2>3, BeginIsGood DEF Good
  <2>5. WorkStep(Current, result.work)
    BY <2>3, <2>4, SteppedIsGood DEF Good
  <2> QED
    BY <2>2, <2>3, <2>5, CommitIsGood DEF Commits
<1>4. CASE PlaybackTick
  <2>1. PICK result \in Stepped(Returns(Current), "running") : Commits(result.work)
    BY <1>4 DEF PlaybackTick
  <2>2. active # NoRun /\ WorkInv(Current) /\ Current.row.status = "running"
    BY <1>4, CurrentWork DEF PlaybackTick
  <2>3. WorkStep(Current, Returns(Current).work) /\ Returns(Current).work = Current
    BY <2>2, StepRefl DEF Returns
  <2>4. WorkStep(Current, result.work)
    BY <2>2, <2>3, SteppedIsGood DEF Good
  <2> QED
    BY <2>1, <2>2, <2>4, CommitIsGood DEF Commits
<1>5. CASE Play
  <2>1. PICK begun \in Begin(Current) : CommitsUnlessRaised(begun)
    BY <1>5 DEF Play
  <2>2. active # NoRun /\ WorkInv(Current) /\ Current.row.status # "none"
    BY <1>5, CurrentWork DEF Play
  <2>3. WorkStep(Current, begun.work)
    BY <2>2, BeginIsGood DEF Good
  <2> QED
    BY <2>1, <2>2, <2>3, CommitIsGood DEF CommitsUnlessRaised, Commits
<1>6. CASE Pause
  <2>1. active # NoRun /\ WorkInv(Current) /\ Current.row.status = "running"
    BY <1>6, CurrentWork DEF Pause
  <2>2. WorkStep(Current, SetStatus(Current, "paused"))
    BY <2>1, StatusStep DEF Statuses, Live, Terminal
  <2> QED
    BY <1>6, <2>1, <2>2, CommitIsGood DEF Pause, Commits
<1>7. ASSUME NEW matching \in SUBSET Emitting, NextEvent(matching) PROVE GoodStep
  <2>1. PICK begun \in Begin(Current) :
            \E result \in Found(begun, matching) : Commits(result.work)
    BY <1>7 DEF NextEvent
  <2>2. PICK result \in Found(begun, matching) : Commits(result.work)
    BY <2>1
  <2>3. active # NoRun /\ WorkInv(Current) /\ Current.row.status # "none"
    BY <1>7, CurrentWork DEF NextEvent
  <2>4. WorkStep(Current, begun.work) /\ (~begun.raised => begun.work.row.status = "running")
    BY <2>3, BeginIsGood DEF Good
  <2>5. WorkStep(Current, result.work)
    BY <2>3, <2>4, FoundIsGood DEF Good
  <2> QED
    BY <2>2, <2>3, <2>5, CommitIsGood DEF Commits
<1>8. CASE Reset
  BY <1>8, CreatedIsGood, ReplaceIsGood DEF Reset
<1>9. ASSUME NEW target \in FirstVisible..LastBar, Seek(target) PROVE GoodStep
  BY <1>9, WalkedIsGood, ReplaceIsGood DEF Seek
<1>10. CASE Restart
  BY <1>10, CreatedIsGood, QuietIsGood DEF Restart
<1>11. CASE UNCHANGED vars
  BY <1>11, QuietIsGood DEF vars, ReplayInv
<1> QED
  BY <1>1, <1>2, <1>3, <1>4, <1>5, <1>6, <1>7, <1>8, <1>9, <1>10, <1>11 DEF Next

LEMMA Invariant == Spec => []ReplayInv
<1>1. ReplayInv /\ [Next]_vars => ReplayInv'
  BY StepIsGood DEF GoodStep
<1> QED
  BY <1>1, InitIsGood, PTL DEF Spec

\* Type correctness of the run table and of the browser's session
\* (replay_runs.py, browser_replay.py), for any number of runs and bars.
THEOREM TypeCorrect == Spec => []TypeOK
<1>1. ReplayInv => TypeOK
  BY DEF ReplayInv, TypeOK
<1> QED
  BY <1>1, Invariant, PTL

\* The evidence stored under a run is that of exactly the bars up to its
\* cursor, whatever failed, was rolled back or was lost (replay_pipeline.step).
THEOREM EvidenceMatchesCursor == Spec => []EvidenceIsPrefix
<1>1. ReplayInv => EvidenceIsPrefix
  BY DEF ReplayInv, RowInv, EvidenceIsPrefix
<1> QED
  BY <1>1, Invariant, PTL

\* A COMPLETED run covers the whole selected interval (complete_replay and its
\* callers).
THEOREM CompletedRunsAreWhole == Spec => []CompletedIsWhole
<1>1. ReplayInv => CompletedIsWhole
  <2>1. ASSUME ReplayInv, NEW r \in Runs, rows[r].status = "completed"
        PROVE  rows[r].cursor = LastBar /\ rows[r].evidence = Emitting
    <3>1. rows[r].cursor = LastBar /\ rows[r].evidence = Emitting \cap 0..LastBar
      BY <2>1 DEF ReplayInv, RowInv
    <3> QED
      BY <3>1, BarFacts
  <2> QED
    BY <2>1 DEF CompletedIsWhole
<1> QED
  BY <1>1, Invariant, PTL

\* Persisted runs never rewind, lose no evidence and keep their end
\* (transition_replay_run, advance_replay_cursor).
THEOREM RunsAdvanceOnly == Spec => RunsOnlyAdvance
<1>1. ReplayInv /\ [Next]_vars =>
          \A r \in Runs :
              /\ rows[r].status \in Terminal => rows'[r] = rows[r]
              /\ rows[r].cursor <= rows'[r].cursor
              /\ rows[r].evidence \subseteq rows'[r].evidence
  BY StepIsGood DEF GoodStep, RowStep
<1> QED
  BY <1>1, Invariant, PTL DEF Spec, RunsOnlyAdvance

\* A run whose memory and row disagree neither advances nor completes again
\* (_validate_continuity, _validate_replay_clock).
THEOREM LostStepsAreFinal == Spec => LostStepIsFinal
<1>1. ReplayInv /\ [Next]_vars =>
          (active # NoRun /\ pipe.index # rows[active].cursor =>
              /\ rows'[active].cursor = rows[active].cursor
              /\ rows'[active].status = "completed" => rows[active].status = "completed")
  BY StepIsGood DEF GoodStep, StaysBehind
<1> QED
  BY <1>1, Invariant, PTL DEF Spec, LostStepIsFinal

\* The session leaves a run only after that run has ended, unless the process
\* died (stop, replace).
THEOREM ReplacedRunsHaveEnded == Spec => ReplacedRunsEnd
<1>1. ReplayInv /\ [Next]_vars =>
          (active # NoRun /\ active' # active /\ ~Restart => rows'[active].status \in Terminal)
  BY StepIsGood DEF GoodStep
<1> QED
  BY <1>1, Invariant, PTL DEF Spec, ReplacedRunsEnd

===============================================================================
