------------------------------- MODULE ReplayRuns -------------------------------
(***************************************************************************)
(* Persisted replay runs (persistence/replay_runs.py) and the pipeline     *)
(* that drives one of them (application/replay_pipeline.py).               *)
(*                                                                         *)
(* A transaction chains several statements over one row and one pipeline   *)
(* in memory, so the operators here map such a pair, a "work" record, to   *)
(* the pair they leave.  The row is rolled back with its transaction, the  *)
(* pipeline never is.  What a bar's detectors find is its evidence; only   *)
(* the bar it belongs to is kept.                                          *)
(***************************************************************************)
EXTENDS Integers, FiniteSets

CONSTANTS Runs,          \* run identities
          BarCount,      \* bars up to the selected end
          FirstVisible,  \* index of the first selected bar; warm-up comes before
          Emitting       \* bars on which some detector emits events

Bars == 0..(BarCount - 1)
LastBar == BarCount - 1

ASSUME BarsAssumption ==
    /\ BarCount \in Nat \ {0} /\ FirstVisible \in Bars
    /\ Emitting \subseteq Bars

VARIABLE rows  \* replay_runs, with the detector events stored under each run

Statuses == {"none", "created", "running", "paused", "completed", "failed", "aborted"}
Terminal == {"completed", "failed", "aborted"}
Unfinished == {"created", "running", "paused"}

Rows == [status : Statuses, cursor : Bars \cup {-1}, evidence : SUBSET Bars]
Pipelines == [index : Bars \cup {-1}, latched : BOOLEAN]

NoRow == [status |-> "none", cursor |-> -1, evidence |-> {}]
CreatedRow == [status |-> "created", cursor |-> -1, evidence |-> {}]
FreshPipeline == [index |-> -1, latched |-> FALSE]

-------------------------------------------------------------------------------
(* Statements.                                                             *)

SetStatus(w, status) == [w EXCEPT !.row.status = status]

\* Mistake: whatever the run ended as, it is aborted now.
AbortedAlways(row) == [row EXCEPT !.status = "aborted"]

\* stop and replace: a run that already ended keeps its end.
Aborted(row) == IF row.status \in Unfinished THEN [row EXCEPT !.status = "aborted"] ELSE row

-------------------------------------------------------------------------------
(* The pipeline.                                                           *)

HasNext(w) == w.pipe.index < LastBar

\* Mistake: the clock in memory is trusted.
NeverDiverged(w) == FALSE

\* _validate_continuity and _validate_replay_clock: the row's cursor is where
\* the clock stands.  Nothing else touches the runtime of a browser replay.
Diverged(w) == w.row.cursor # w.pipe.index

Latched(w) == [w EXCEPT !.pipe.latched = TRUE]
Failed(w) == SetStatus(Latched(w), "failed")

\* Every call returns, or raises, with the work it leaves behind.
Returns(w) == [work |-> w, raised |-> FALSE]
Raises(w) == [work |-> w, raised |-> TRUE]

\* _record_failure: the latch holds even if the FAILED status is not written.
RecordFailure(w) == {Raises(Failed(w)), Raises(Latched(w))}

\* start latches without recording a failure: CREATED cannot become FAILED.
Start(w) ==
    IF w.pipe.latched THEN {Raises(w)}
    ELSE IF Diverged(w) THEN {Raises(Latched(w))}
    ELSE {Returns(SetStatus(w, "running"))}

Resume(w) ==
    IF w.pipe.latched THEN {Raises(w)}
    ELSE IF Diverged(w) THEN RecordFailure(w)
    ELSE {Returns(SetStatus(w, "running"))}

\* Bars up to b, each analysed, stored and counted in a savepoint of its own.
Reached(w, b) ==
    [row |-> [w.row EXCEPT !.cursor = b,
                           !.evidence = @ \cup (Emitting \cap (w.pipe.index + 1)..b)],
     pipe |-> [w.pipe EXCEPT !.index = b]]

\* Mistake: the evidence of the failed bar is stored outside its savepoint.
MissedKeeping(w, b) ==
    [Reached(w, b - 1) EXCEPT !.pipe.index = b, !.row.evidence = @ \cup (Emitting \cap {b})]

\* Detectors, the event store or the cursor write fail on bar b: its savepoint
\* is rolled back, the clock has consumed the bar.
Missed(w, b) == [Reached(w, b - 1) EXCEPT !.pipe.index = b]

\* step(), called until bar b has been processed, until the pinned context
\* cannot be verified or a savepoint cannot be opened any more, or until a bar
\* fails.
WalkTo(w, b) ==
    IF w.pipe.latched THEN {Raises(w)}
    ELSE IF Diverged(w) THEN RecordFailure(w)
    ELSE {Returns(Reached(w, b))}
         \cup {Raises(Reached(w, s)) : s \in w.pipe.index..(b - 1)}
         \cup {Raises(Latched(Reached(w, s))) : s \in w.pipe.index..(b - 1)}
         \cup UNION {RecordFailure(Missed(w, f)) : f \in (w.pipe.index + 1)..b}

\* run_to_completion of an exhausted clock, and the end of run_until_event; the
\* status write may fail.
Complete(w) ==
    IF w.pipe.latched THEN {Raises(w)}
    ELSE IF Diverged(w) THEN RecordFailure(w)
    ELSE {Returns(SetStatus(w, "completed")), Raises(w)}

\* step_visible after its bar: an exhausted run is completed, another one is
\* left as `status`.
Settle(w, status) ==
    IF HasNext(w) THEN {Returns(SetStatus(w, status)), Raises(w)} ELSE Complete(w)

\* next_event after a match: the run is paused there and, at the end of the
\* interval, resumed and completed.
PauseAtMatch(w) ==
    RecordFailure(w) \cup
    IF HasNext(w) THEN {Returns(SetStatus(w, "paused"))}
    ELSE Complete(w) \cup {Raises(SetStatus(w, "paused"))}

\* What each operation begins with.
Begin(w) ==
    CASE w.row.status = "created" -> Start(w)
      [] w.row.status = "paused" -> Resume(w)
      [] w.row.status = "running" -> {Returns(w)}
      [] OTHER -> {Raises(w)}

\* Warm-up is walked through; then one visible bar at a time.
NextVisible(w) == IF w.pipe.index < FirstVisible THEN FirstVisible ELSE w.pipe.index + 1

\* The visible bars ahead with a matching event; the walk goes to the first of
\* them, or to the last bar.
Ahead(w, matching) == {b \in matching : b > w.pipe.index /\ b >= FirstVisible}

Destination(w, matching, b) ==
    \/ b \in Ahead(w, matching) /\ \A other \in Ahead(w, matching) : b <= other
    \/ Ahead(w, matching) = {} /\ b = LastBar

===============================================================================
