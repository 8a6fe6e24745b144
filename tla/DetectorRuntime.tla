-------------------------- MODULE DetectorRuntime ---------------------------
(* detection/runtime.py: one runtime of a run.  It feeds every bound detector *)
(* the same completed bar, validates what each emits against its lifecycle    *)
(* and commits the bar for all of them or for none, latching on a failure.    *)
(*                                                                            *)
(* A runtime is a record: failed (latched), last (detection time of the last  *)
(* committed bar), seen (event times of the market events observed so far),   *)
(* refs (their semantic references), slots (one per binding) and log (every   *)
(* committed event).  A slot has the ordinal of its occurrence, its lifecycle *)
(* state, the sequence number of its next event and its detector context.     *)
(* Times are natural numbers; Never is before every bar.                      *)
(*                                                                            *)
(* A detector is an operator argument: what it returns for a bar is an output *)
(* [raised, intents, state, context], an intent                               *)
(* [edge, event, detection, cites] with the occurrence it names.              *)
EXTENDS PatternLifecycle, SequencesExt

Never == -1

FreshSlot(d, ordinal) ==
  [ordinal |-> ordinal, state |-> InitialState(d), next |-> 0, context |-> {}]

(* A sequence given by a rule, as the tuple of its values: TLC then works out   *)
(* each element once.                                                         *)
Tuple(f) == f \o <<>>

(* Definitions of the bindings in execution order. *)
FreshRuntime(defs) ==
  [failed |-> FALSE, last |-> Never, seen |-> {}, refs |-> {}, log |-> <<>>,
   slots |-> [s \in DOMAIN defs |-> FreshSlot(defs[s], 0)]]

(* A re-entrant binding whose occurrence has ended offers its detector a new  *)
(* occurrence in the initial state.                                           *)
Restarts(d, slot) == slot.state \in d.terminal
Offered(d, slot) == IF Restarts(d, slot) THEN FreshSlot(d, slot.ordinal + 1) ELSE slot

(* Earlier times this occurrence has already committed an event at. *)
OwnTimes(rt, s, ordinal) ==
  {rt.log[i].event : i \in {j \in DOMAIN rt.log :
      rt.log[j].slot = s /\ rt.log[j].ordinal = ordinal}}

(* _validate_intents: an output the runtime accepts for an offered slot. *)
Accepted(d, rt, s, slot, out, seen, refs, now) ==
  /\ ~out.raised
  /\ out.ordinal = slot.ordinal
  /\ \A i \in DOMAIN out.intents :
       LET intent == out.intents[i] IN
       /\ intent.ordinal = slot.ordinal
       /\ intent.edge \in Edges(d)
       /\ \A j \in 1 .. i - 1 : out.intents[j].edge.trigger # intent.edge.trigger
       /\ intent.cites \subseteq refs
       /\ intent.detection = now
       /\ intent.event <= now
       /\ intent.event # now => intent.event \in seen \cup OwnTimes(rt, s, slot.ordinal)
  /\ LET edges == [i \in DOMAIN out.intents |-> out.intents[i].edge]
     IN Derives(d, slot.state, edges) /\ out.state = StateAfter(slot.state, edges)

(* The DetectorEvents a slot commits, numbered within their occurrence. *)
Committed(slot, s, out) ==
  [i \in DOMAIN out.intents |->
     [slot |-> s, ordinal |-> slot.ordinal, sequence |-> slot.next + i - 1,
      edge |-> out.intents[i].edge, event |-> out.intents[i].event,
      detection |-> out.intents[i].detection, cites |-> out.intents[i].cites]]

Commit(slot, out) ==
  [slot EXCEPT !.state = out.state, !.next = @ + Len(out.intents), !.context = out.context]

(* _step: every slot is prepared before any is committed.  A frame has the    *)
(* bar time and the market events finalized on it ([event, ref] records);     *)
(* Output(s, slot) is what detector s returns for the occurrence offered to   *)
(* it.                                                                        *)
Seen(rt, frame) == rt.seen \cup {m.event : m \in frame.market}
Refs(rt, frame) == rt.refs \cup {m.ref : m \in frame.market}

CommitAll(defs, rt, frame, offered, out, events) ==
  [ok |-> TRUE, events |-> events,
   runtime |-> [rt EXCEPT !.last = frame.time, !.seen = Seen(rt, frame), !.refs = Refs(rt, frame),
                          !.log = @ \o events,
                          !.slots = Tuple([s \in DOMAIN defs |-> Commit(offered[s], out[s])])]]

Settle(defs, rt, frame, offered, out) ==
  IF \A s \in DOMAIN defs :
       Accepted(defs[s], rt, s, offered[s], out[s], Seen(rt, frame), Refs(rt, frame), frame.time)
  THEN CommitAll(defs, rt, frame, offered, out,
         FlattenSeq([s \in DOMAIN defs |-> Committed(offered[s], s, out[s])]))
  ELSE [ok |-> FALSE, runtime |-> [rt EXCEPT !.failed = TRUE], events |-> <<>>]

Prepare(defs, rt, frame, offered, Output(_, _)) ==
  Settle(defs, rt, frame, offered, Tuple([s \in DOMAIN defs |-> Output(s, offered[s])]))

Step(defs, rt, frame, Output(_, _)) ==
  IF rt.failed \/ frame.time <= rt.last
  THEN [ok |-> FALSE, runtime |-> rt, events |-> <<>>]
  ELSE Prepare(defs, rt, frame, Tuple([s \in DOMAIN defs |-> Offered(defs[s], rt.slots[s])]), Output)
=============================================================================
