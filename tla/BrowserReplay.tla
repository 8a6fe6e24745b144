------------------------------ MODULE BrowserReplay ------------------------------
(***************************************************************************)
(* The browser's walkthrough (application/browser_replay.py): one session  *)
(* of the API process over the persisted runs of ReplayRuns.               *)
(*                                                                         *)
(* Every operation holds the manager's lock and one transaction, so it is  *)
(* one step here.  What remains uncertain is how that transaction ends:    *)
(* the database commits it, rolls it back, or commits it while the         *)
(* connection is lost and the caller sees an error.  In the last two cases *)
(* the manager raises before it replaces its session.                      *)
(***************************************************************************)
EXTENDS ReplayRuns

VARIABLES active,  \* run of BrowserReplayManager._session, or NoRun
          pipe     \* its pipeline

vars == <<rows, active, pipe>>

NoRun == "no run"

TypeOK ==
    /\ rows \in [Runs -> Rows]
    /\ active \in Runs \cup {NoRun}
    /\ pipe \in Pipelines

Init ==
    /\ rows = [r \in Runs |-> NoRow]
    /\ active = NoRun /\ pipe = FreshPipeline

Current == [row |-> rows[active], pipe |-> pipe]

\* A new run identity.
Fresh == {r \in Runs : rows[r].status = "none"}

\* The transaction of an operation that keeps its session.
Commits(w) ==
    /\ rows' \in {rows, [rows EXCEPT ![active] = w.row]}
    /\ pipe' = w.pipe
    /\ UNCHANGED active

\* Without a handler inside the transaction, an exception rolls it back.
CommitsUnlessRaised(result) ==
    IF result.raised THEN pipe' = result.work.pipe /\ UNCHANGED <<rows, active>>
    ELSE Commits(result.work)

\* The transaction of an operation that changes the session to r: only a
\* commit that was acknowledged does.
CommitsSession(table, r, pipeline) ==
    \/ rows' = table /\ active' = r /\ pipe' = pipeline
    \/ rows' \in {rows, table} /\ UNCHANGED <<active, pipe>>

-------------------------------------------------------------------------------
(* Requests.                                                               *)

Launch ==
    /\ active = NoRun
    /\ \E r \in Fresh : CommitsSession([rows EXCEPT ![r] = CreatedRow], r, FreshPipeline)

\* stop: also for a run that ended.
Stop ==
    /\ active # NoRun
    /\ CommitsSession([rows EXCEPT ![active] = Aborted(rows[active])], NoRun, FreshPipeline)

\* What step_visible leaves behind.
Stepped(begun, status) ==
    IF begun.raised \/ ~HasNext(begun.work) THEN {begun}
    ELSE UNION {IF walk.raised THEN {walk} ELSE Settle(walk.work, status) :
                    walk \in WalkTo(begun.work, NextVisible(begun.work))}

\* step_visible keeps its exception until the FAILED status is committed.
StepVisible ==
    /\ active # NoRun
    /\ \E begun \in Begin(Current) : \E result \in Stepped(begun, "paused") : Commits(result.work)

\* A tick of playback needs a run that plays, and leaves it playing.
PlaybackTick ==
    /\ active # NoRun /\ rows[active].status = "running"
    /\ \E result \in Stepped(Returns(Current), "running") : Commits(result.work)

Play == active # NoRun /\ \E begun \in Begin(Current) : CommitsUnlessRaised(begun)

Pause ==
    /\ active # NoRun /\ rows[active].status = "running"
    /\ Commits(SetStatus(Current, "paused"))

\* What run_until_event leaves behind, for a filter that matches the events of
\* some bars.
Found(begun, matching) ==
    IF begun.raised THEN {begun}
    ELSE IF ~HasNext(begun.work) THEN Complete(begun.work)
    ELSE UNION {IF walk.raised THEN {walk}
                ELSE IF walk.work.pipe.index \in matching THEN PauseAtMatch(walk.work)
                ELSE Complete(walk.work) :
                    walk \in UNION {WalkTo(begun.work, b) :
                                b \in {d \in Bars : Destination(begun.work, matching, d)}}}

NextEvent(matching) ==
    /\ active # NoRun /\ ~pipe.latched
    /\ \E begun \in Begin(Current) : \E result \in Found(begun, matching) : Commits(result.work)

\* The new run of replace, walked to the target.  A bar or a statement that
\* fails rolls everything back.
Walked(target) ==
    LET w == Reached([row |-> CreatedRow, pipe |-> FreshPipeline], target) IN
    SetStatus(w, IF HasNext(w) THEN "paused" ELSE "completed")

Replace(new) ==
    /\ active # NoRun
    /\ \E r \in Fresh :
          CommitsSession([rows EXCEPT ![active] = Aborted(rows[active]), ![r] = new.row],
                         r, new.pipe)

Reset == Replace([row |-> CreatedRow, pipe |-> FreshPipeline])
Seek(target) == Replace(Walked(target))

\* The API process dies: no later process knows its run.
Restart ==
    /\ active' = NoRun /\ pipe' = FreshPipeline
    /\ UNCHANGED rows

Next ==
    \/ Launch \/ Stop
    \/ StepVisible \/ PlaybackTick
    \/ Play \/ Pause
    \/ \E matching \in SUBSET Emitting : NextEvent(matching)
    \/ Reset
    \/ \E target \in FirstVisible..LastBar : Seek(target)
    \/ Restart

Spec == Init /\ [][Next]_vars

-------------------------------------------------------------------------------
\* What was stored for a run is what its detectors found on exactly the bars
\* up to its cursor, whatever failed, was rolled back or was lost on the way:
\* no evidence of a failed bar, and no hole behind a lost commit.
EvidenceIsPrefix ==
    \A r \in Runs : rows[r].evidence = Emitting \cap 0..rows[r].cursor

\* A COMPLETED run holds the whole selected interval.
CompletedIsWhole ==
    \A r \in Runs : rows[r].status = "completed" =>
        rows[r].cursor = LastBar /\ rows[r].evidence = Emitting

\* Persisted runs never rewind and never lose evidence, and what ended stays
\* as it ended: seek and reset make new runs.
RunsOnlyAdvance ==
    [][\A r \in Runs :
          /\ rows[r].status \in Terminal => rows'[r] = rows[r]
          /\ rows[r].cursor <= rows'[r].cursor
          /\ rows[r].evidence \subseteq rows'[r].evidence]_vars

\* Once memory and row disagree (a failed bar, a commit that was lost) the run
\* never advances or completes again: recovery is a new run.
LostStepIsFinal ==
    [][active # NoRun /\ pipe.index # rows[active].cursor =>
          /\ rows'[active].cursor = rows[active].cursor
          /\ rows'[active].status = "completed" => rows[active].status = "completed"]_vars

\* The session only changes to another run once the old one has ended, unless
\* the process died.
ReplacedRunsEnd ==
    [][active # NoRun /\ active' # active /\ ~Restart =>
          rows'[active].status \in Terminal]_vars

===============================================================================
