------------------------ MODULE ValidationAnnotations ------------------------
(* persistence/validation_annotations.py: reviews of detector evidence, and of *)
(* intervals in which a pattern was missed, with an append-only history of     *)
(* revisions.                                                                  *)
(*                                                                             *)
(* An annotation is a record: target, seen (the end of what was visible to its *)
(* reviewer) and rows, the rows of validation_annotation_revisions by their    *)
(* revision number, each with what its reviewer says, the time it carries and   *)
(* the revision it answers.                                                   *)
EXTENDS PatternInstances

EventTarget(id, sequence) == [kind |-> "event", instance |-> id, sequence |-> sequence]
InstanceTarget(id) == [kind |-> "instance", instance |-> id]
MissedTarget(dataset, frame, from, to) ==
  [kind |-> "missed_pattern", dataset |-> dataset, frame |-> frame, from |-> from, to |-> to]

(* load_annotation: the history must be complete, and the last one is current. *)
Complete(annotation) ==
  /\ annotation.rows # << >>
  /\ DOMAIN annotation.rows = 1 .. Cardinality(DOMAIN annotation.rows)
Current(annotation) == Cardinality(DOMAIN annotation.rows)

(* The target of create_event_annotation and create_instance_annotation must   *)
(* be stored; a missed interval must lie in what its dataset covers.           *)
TargetExists(evidence, covered, target) ==
  CASE target.kind = "event" ->
         /\ target.instance \in DOMAIN evidence.rows
         /\ target.sequence + 1 \in DOMAIN evidence.rows[target.instance].path
    [] target.kind = "instance" -> target.instance \in DOMAIN evidence.rows
    [] OTHER -> /\ target.from < target.to
                /\ covered[1] <= target.from
                /\ target.to <= covered[2]

(* _create: the annotation and its first revision in one savepoint. *)
Row(says, time, answers) == [says |-> says, time |-> time, answers |-> answers]
NewAnnotation(target, seen, says, time) ==
  [target |-> target, seen |-> seen, rows |-> [n \in {1} |-> Row(says, time, 0)]]

(* Mistake: the clock is not compared. *)
RevisableAnyTime(annotation, expected, time) ==
  Complete(annotation) /\ expected = Current(annotation)

(* revise_annotation up to its insert: the caller's revision is the current    *)
(* one, and the clock has not gone back.                                       *)
Revisable(annotation, expected, time) ==
  /\ Complete(annotation)
  /\ expected = Current(annotation)
  /\ time >= annotation.rows[expected].time

(* Mistake: a revision that exists is written over. *)
InsertsAnyway(annotation, expected) == TRUE

(* The insert: PRIMARY KEY (annotation_id, revision). *)
Inserts(annotation, expected) == expected + 1 \notin DOMAIN annotation.rows
Revised(annotation, expected, says, time) ==
  [target |-> annotation.target, seen |-> annotation.seen,
   rows |-> [n \in DOMAIN annotation.rows \cup {expected + 1} |->
               IF n = expected + 1 THEN Row(says, time, expected) ELSE annotation.rows[n]]]

(* list_visible_annotations for a scope [dataset, frame, from, visible,        *)
(* events, instances].                                                         *)
Visible(annotation, scope) ==
  LET target == annotation.target IN
  CASE target.kind = "event" -> <<target.instance, target.sequence>> \in scope.events
    [] target.kind = "instance" -> target.instance \in scope.instances
    [] OTHER -> /\ target.dataset = scope.dataset
                /\ target.frame = scope.frame
                /\ scope.from <= target.from
                /\ target.to <= scope.visible
=============================================================================
