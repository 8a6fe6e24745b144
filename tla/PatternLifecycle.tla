-------------------------- MODULE PatternLifecycle --------------------------
(* The lifecycle of a pattern occurrence: the declaration a detector is      *)
(* registered with (patterns/definition.py) and the runner that derives the  *)
(* transitions of one completed bar from the triggers observed on it          *)
(* (patterns/lifecycle.py).                                                   *)
(*                                                                            *)
(* A definition d is a record: states and edges (sequences, in declaration    *)
(* order; an edge has from, to and trigger), conditions and terminal (sets),  *)
(* precedence (a sequence of triggers) and chains (pairs of triggers that may *)
(* follow each other on one bar).                                             *)
EXTENDS Integers, FiniteSets, Sequences

InitialState(d) == d.states[1]
Edges(d) == {d.edges[i] : i \in DOMAIN d.edges}
Triggers(path) == [i \in DOMAIN path |-> path[i].trigger]

(* What PatternDefinition.__post_init__ accepts. *)
ValidDefinition(d) ==
  LET states == {d.states[i] : i \in DOMAIN d.states}
      reach[n \in 0 .. Len(d.states)] ==
        IF n = 0 THEN {InitialState(d)}
        ELSE reach[n - 1] \cup {e.to : e \in {x \in Edges(d) : x.from \in reach[n - 1]}}
  IN /\ Cardinality(states) = Len(d.states)
     /\ d.terminal \subseteq states
     /\ \A e \in Edges(d) : /\ {e.from, e.to} \subseteq states
                            /\ e.trigger \in d.conditions
                            /\ e.from \notin d.terminal
                            /\ e.from # e.to
     /\ \A i, j \in DOMAIN d.edges :
          /\ i # j
          /\ d.edges[i].from = d.edges[j].from
          => /\ d.edges[i].trigger # d.edges[j].trigger
             /\ d.edges[i].trigger \in {d.precedence[k] : k \in DOMAIN d.precedence}
     /\ d.chains \subseteq {<<x[1].trigger, x[2].trigger>> :
                              x \in {y \in Edges(d) \X Edges(d) : y[1].to = y[2].from}}
     /\ reach[Len(d.states)] = states

StateAfter(start, path) == IF path = <<>> THEN start ELSE path[Len(path)].to

(* simultaneous_precedence decides between edges that compete on one bar; an  *)
(* undeclared trigger ranks last and the declaration order breaks the tie.    *)
Rank(d, trigger) ==
  IF \E k \in DOMAIN d.precedence : d.precedence[k] = trigger
  THEN CHOOSE k \in DOMAIN d.precedence : d.precedence[k] = trigger
  ELSE Len(d.precedence) + 1

Competing(d, start, path, evidence) ==
  LET at == StateAfter(start, path)
      visited == {start} \cup {path[i].to : i \in DOMAIN path}
      used == {path[i].trigger : i \in DOMAIN path}
  IN {i \in DOMAIN d.edges :
        /\ at \notin d.terminal
        /\ d.edges[i].from = at
        /\ d.edges[i].trigger \in evidence \ used
        /\ d.edges[i].to \notin visited
        /\ path # <<>> => <<path[Len(path)].trigger, d.edges[i].trigger>> \in d.chains}

Selected(d, candidates) ==
  CHOOSE i \in candidates : \A j \in candidates :
    LET a == Rank(d, d.edges[i].trigger)  b == Rank(d, d.edges[j].trigger)
    IN a < b \/ (a = b /\ i <= j)

Extended(d, path, competing) ==
  IF competing = {} THEN path ELSE Append(path, d.edges[Selected(d, competing)])

(* LifecycleRunner.advance: the path one bar takes from state start when the  *)
(* triggers in evidence were observed on it.                                  *)
Advance(d, start, evidence) ==
  LET walk[n \in 0 .. Len(d.edges)] ==
        IF n = 0 THEN <<>>
        ELSE LET path == walk[n - 1]
             IN Extended(d, path, Competing(d, start, path, evidence))
  IN walk[Len(d.edges)]

(* A sequence of proposed edges is the one the runner derives from its        *)
(* triggers; an undeclared trigger raises.                                    *)
Derives(d, start, edges) ==
  LET evidence == {edges[i].trigger : i \in DOMAIN edges}
  IN evidence \subseteq d.conditions /\ Advance(d, start, evidence) = edges
=============================================================================
