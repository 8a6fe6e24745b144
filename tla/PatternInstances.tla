-------------------------- MODULE PatternInstances --------------------------
(* The durable evidence of detector runs: persistence/pattern_instances.py,   *)
(* persistence/detection_contexts.py and the bridge from a runtime to them,   *)
(* application/replay_event_store.py with application/context_capture.py.     *)
(*                                                                            *)
(* A database is a record: rows maps the identity of an occurrence to its     *)
(* row, contexts maps an event to the context captured with it.  An identity  *)
(* [run, slot, event, detection, ordinal] is what the semantic key is         *)
(* computed from within one run; a row has the lifecycle state, the revision, *)
(* the last processed bar, the detector context and the path, its transitions *)
(* in sequence order.                                                         *)
EXTENDS DetectorRuntime, TLC

EmptyDatabase == [rows |-> << >>, contexts |-> << >>]

NewRow(d, at) ==
  [occurred |-> at, state |-> InitialState(d), revision |-> 0, bar |-> Never,
   context |-> {}, path |-> <<>>]

(* create_pattern_instance: UNIQUE (run_id, instance_semantic_key). *)
Creatable(rows, id) == id \notin DOMAIN rows /\ id.event <= id.detection
Created(d, rows, id) == (id :> NewRow(d, id.detection)) @@ rows

EdgesOf(path) == [i \in DOMAIN path |-> path[i].edge]

(* _load_transitions and _record_from_row: what every read demands of a       *)
(* stored row before it returns it.                                           *)
Loadable(d, row) ==
  LET before(i) == StateAfter(InitialState(d), SubSeq(EdgesOf(row.path), 1, i - 1)) IN
  /\ \A i \in DOMAIN row.path :
       /\ row.path[i].edge \in Edges(d)
       /\ row.path[i].edge.from = before(i)
       /\ before(i) \notin d.terminal
       /\ row.path[i].bar = row.path[i].detection
       /\ row.path[i].detection >= row.occurred
       /\ i > 1 =>
            /\ row.path[i].detection >= row.path[i - 1].detection
            /\ row.path[i].detection = row.path[i - 1].detection =>
                 <<row.path[i - 1].edge.trigger, row.path[i].edge.trigger>> \in d.chains
  /\ row.state = before(Len(row.path) + 1)
  /\ row.path # <<>> => row.revision > 0 /\ row.path[Len(row.path)].bar <= row.bar

(* advance_pattern_instance up to its savepoint: what it demands of the       *)
(* record it loaded, the caller's revision, the bar and the proposed steps.   *)
Advanceable(d, row, expected, bar, steps) ==
  /\ Loadable(d, row)
  /\ row.revision = expected
  /\ row.state \notin d.terminal
  /\ bar > row.bar
  /\ bar >= row.occurred
  /\ \A i \in DOMAIN steps : steps[i].detection = bar /\ steps[i].event <= bar
  /\ Derives(d, row.state, EdgesOf(steps))

(* The savepoint: the row, compared and swapped on revision and state, and one
   insert per step under the primary key (instance_id, sequence). *)
Advanced(row, read, bar, steps, context) ==
  [row EXCEPT !.state = StateAfter(read.state, EdgesOf(steps)),
              !.revision = read.revision + 1, !.bar = bar, !.context = context,
              !.path = @ \o [i \in DOMAIN steps |->
                 [edge |-> steps[i].edge, event |-> steps[i].event,
                  detection |-> steps[i].detection, bar |-> bar, cites |-> steps[i].cites]]]

(***************************************************************************)
(* ReplayEventStore: a run's cache of the records it wrote.                  *)
(***************************************************************************)
EmptyStore == << >>

EventsFor(events, s, ordinal) ==
  SelectSeq(events, LAMBDA e : e.slot = s /\ e.ordinal = ordinal)

(* The identity the store gives to the occurrence it creates: the ordinal     *)
(* counts the occurrences of the pattern this store already knows.            *)
Opening(run, cache, s, opening) ==
  [run |-> run, slot |-> s, event |-> opening.event, detection |-> opening.detection,
   ordinal |-> Cardinality({key \in DOMAIN cache : key[1] = s})]

(* capture_detection_context: one context per event, never a second one. *)
Captured(id, events, available) ==
  [e \in {<<id, events[i].sequence>> : i \in DOMAIN events} |-> available]
Capturable(contexts, captured) == DOMAIN captured \cap DOMAIN contexts = {}

(* The row of an occurrence advanced to the state of its slot, with a context  *)
(* for each event.  at is a record [ok, db, cache].                           *)
Written(at, key, id, rows, changed, captured) ==
  [ok |-> TRUE, cache |-> (key :> [id |-> id, row |-> changed]) @@ at.cache,
   db |-> [rows |-> (id :> changed) @@ rows, contexts |-> captured @@ at.db.contexts]]

AdvanceRow(d, at, key, id, rows, expected, slot, bar, mine, captured) ==
  IF /\ id \in DOMAIN rows
     /\ Advanceable(d, rows[id], expected, bar, mine)
     /\ StateAfter(rows[id].state, EdgesOf(mine)) = slot.state
     /\ \A i \in DOMAIN mine : mine[i].sequence = Len(rows[id].path) + i - 1
     /\ Capturable(at.db.contexts, captured)
  THEN Written(at, key, id, rows, Advanced(rows[id], rows[id], bar, mine, slot.context), captured)
  ELSE [at EXCEPT !.ok = FALSE]

CreateRow(d, at, key, id, slot, bar, mine, available) ==
  IF Creatable(at.db.rows, id)
  THEN AdvanceRow(d, at, key, id, Created(d, at.db.rows, id), 0, slot, bar, mine,
                  Captured(id, mine, available))
  ELSE [at EXCEPT !.ok = FALSE]

(* One binding of one bar: its occurrence is created by its first event, and   *)
(* nothing may follow its end.                                                *)
PersistSlot(d, run, at, s, slot, bar, mine, available) ==
  LET key == <<s, slot.ordinal>>
      kept == at.cache[key]
  IN CASE ~at.ok -> at
       [] at.ok /\ key \notin DOMAIN at.cache ->
            IF mine = <<>> THEN at
            ELSE CreateRow(d, at, key, Opening(run, at.cache, s, mine[1]), slot, bar, mine, available)
       [] OTHER ->
            IF kept.row.state \in d.terminal THEN [at EXCEPT !.ok = (mine = <<>>)]
            ELSE AdvanceRow(d, at, key, kept.id, at.db.rows, kept.row.revision, slot, bar, mine,
                            Captured(kept.id, mine, available))

(* ReplayEventStore.__call__ on the result of one runtime step. *)
Persist(defs, run, db, cache, bar, step, available) ==
  LET upTo[s \in 0 .. Len(defs)] ==
        IF s = 0 THEN [ok |-> TRUE, db |-> db, cache |-> cache]
        ELSE LET slot == step.runtime.slots[s]
             IN PersistSlot(defs[s], run, upTo[s - 1], s, slot, bar,
                            EventsFor(step.events, s, slot.ordinal), available)
  IN upTo[Len(defs)]

(* What a reader of the database finds of a run. *)
RowsOf(db, run) == {id \in DOMAIN db.rows : id.run = run}
EventsOf(db, run) ==
  UNION {{<<id, i - 1>> : i \in DOMAIN db.rows[id].path} : id \in RowsOf(db, run)}
=============================================================================
