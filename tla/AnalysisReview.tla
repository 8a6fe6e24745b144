--------------------------- MODULE AnalysisReview ---------------------------
(* Reviewers of analytical evidence (the annotation routes of api/app.py) over *)
(* the sessions of the workspace.  A request reads the scope of the run under  *)
(* the manager's lock and then works in a transaction of its own, so sessions  *)
(* and other reviewers move between the two; an edit reads the annotation and  *)
(* inserts its revision in two statements of one READ COMMITTED transaction.   *)
EXTENDS AnalysisSessions

CONSTANTS
  Reviewers,
  Intervals,         \* missed intervals a reviewer may name, <<from, to>>
  Times,             \* what the clock of an API process may say
  MaxAnnotations,    \* bound on annotations, those being created included
  MaxRevisions       \* bound on the revisions of one of them

VARIABLES
  annotations,       \* validation_annotations with their revisions, by number
  request            \* what the transaction of each reviewer is about to insert

reviewVars == <<vars, annotations, request>>

NoRequest == [op |-> "none"]

ReviewInit == Init /\ annotations = << >> /\ request = [u \in Reviewers |-> NoRequest]

(* validate_review_interval: whole candles of the run's timeframe. *)
OnCandles(frame, from, to) ==
  /\ BucketBounds(from, frame)[1] = from
  /\ BucketBounds(to - 1, frame)[2] = to

(* Mistake: a missed interval is compared with the selection only. *)
TargetsUnrevealed(scope) ==
  {MissedTarget(scope.dataset, scope.frame, t[1], t[2]) :
     t \in {x \in Intervals : scope.from <= x[1] /\ OnCandles(scope.frame, x[1], x[2])}}

(* What create_replay_annotation accepts for a scope. *)
Targets(scope) ==
  {EventTarget(e[1], e[2]) : e \in scope.events}
    \cup {InstanceTarget(id) : id \in scope.instances}
    \cup {MissedTarget(scope.dataset, scope.frame, t[1], t[2]) :
            t \in {x \in Intervals : /\ scope.from <= x[1]
                                     /\ x[1] < x[2]
                                     /\ x[2] <= scope.visible
                                     /\ OnCandles(scope.frame, x[1], x[2])}}

Idle(u) == request[u] = NoRequest
Asks(u, r) == request' = [request EXCEPT ![u] = r] /\ UNCHANGED <<vars, annotations>>
Ends(u) == request' = [request EXCEPT ![u] = NoRequest] /\ UNCHANGED vars

Covered(dataset) ==
  <<Source[dataset][1], Source[dataset][Len(Source[dataset])] + 1>>

(* Creations that have begun count towards the bound. *)
Creating == {u \in Reviewers : request[u].op = "create"}

BeginCreate(u) ==
  \E sid \in DOMAIN revisions, time \in Times :
    \E i \in DOMAIN revisions[sid].streams :
      /\ Idle(u)
      /\ Len(annotations) + Cardinality(Creating) < MaxAnnotations
      /\ Reviewable(sid)
      /\ \E target \in Targets(Scope(sid, i)) :
           Asks(u, [op |-> "create", target |-> target, seen |-> Scope(sid, i).visible,
                    covered |-> Covered(revisions[sid].dataset), time |-> time])

Home(target) ==
  IF target.kind = "missed_pattern" THEN EmptyDatabase ELSE EvidenceOf(target.instance.run[1])

(* A target that is not stored is refused. *)
Create(u) ==
  /\ request[u].op = "create"
  /\ Ends(u)
  /\ IF TargetExists(Home(request[u].target), request[u].covered, request[u].target)
     THEN annotations' = Append(annotations,
            NewAnnotation(request[u].target, request[u].seen, u, request[u].time))
     ELSE UNCHANGED annotations

(* edit_annotation with the revision its client saw, and the clock. *)
BeginEdit(u) ==
  \E a \in DOMAIN annotations, time \in Times :
    \E expected \in DOMAIN annotations[a].rows :
      /\ Idle(u)
      /\ expected < MaxRevisions
      /\ Revisable(annotations[a], expected, time)
      /\ Asks(u, [op |-> "edit", annotation |-> a, expected |-> expected, time |-> time])

(* The insert is refused when another transaction has committed the revision.  *)
Edit(u) ==
  /\ request[u].op = "edit"
  /\ Ends(u)
  /\ LET r == request[u] IN
     IF Inserts(annotations[r.annotation], r.expected)
     THEN annotations' = [annotations EXCEPT ![r.annotation] = Revised(@, r.expected, u, r.time)]
     ELSE UNCHANGED annotations

(* A request that fails, or a process that stops, before the commit. *)
Abandon(u) == ~Idle(u) /\ Ends(u) /\ UNCHANGED annotations

Sessions == Next /\ UNCHANGED <<annotations, request>>

ReviewNext ==
  \/ Sessions
  \/ \E u \in Reviewers : BeginCreate(u) \/ Create(u) \/ BeginEdit(u) \/ Edit(u) \/ Abandon(u)

ReviewSpec == ReviewInit /\ [][ReviewNext]_reviewVars

(***************************************************************************)
(* Properties                                                                *)
(***************************************************************************)
(* Whatever the reviewers' transactions interleave, the history of an          *)
(* annotation has no hole and no branch: revision n + 1 answers revision n and *)
(* is not dated before it (revise_annotation).                                 *)
HistoriesAreLinear ==
  \A a \in DOMAIN annotations :
    LET rows == annotations[a].rows IN
    /\ Complete(annotations[a])
    /\ \A r \in DOMAIN rows : /\ rows[r].answers = r - 1
                              /\ r > 1 => rows[r].time >= rows[r - 1].time

(* A review is of stored evidence, and of nothing that its reviewer's session  *)
(* had not revealed when the review was asked for.                             *)
NoFutureReview ==
  \A a \in DOMAIN annotations :
    LET target == annotations[a].target
        seen == annotations[a].seen
        home == Home(target)
    IN
    CASE target.kind = "event" ->
           /\ <<target.instance, target.sequence>> \in DOMAIN home.contexts
           /\ home.contexts[<<target.instance, target.sequence>>] <= seen
      [] target.kind = "instance" ->
           /\ target.instance \in DOMAIN home.rows
           /\ home.contexts[<<target.instance, 0>>] <= seen
      [] OTHER -> target.to <= seen

(* A review that is listed with a historical result stays listed with it, and  *)
(* with what it said, when the result is evicted, stopped, reset or forgotten  *)
(* by a restart.                                                               *)
Listed(sid) ==
  {a \in DOMAIN annotations :
     \E i \in DOMAIN revisions[sid].streams : Visible(annotations[a], Scope(sid, i))}

ReviewsStayListed ==
  [][\A sid \in DOMAIN revisions :
       revisions[sid].mode = "history" =>
         /\ Listed(sid) \subseteq Listed(sid)'
         /\ \A a \in Listed(sid) : \A r \in DOMAIN annotations[a].rows :
              annotations'[a].rows[r] = annotations[a].rows[r]]_reviewVars
=============================================================================
