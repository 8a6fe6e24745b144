----------------------------- MODULE MarketState -----------------------------
(* One aggregator of a run (indicators/market_state.py): it advances the      *)
(* selected components in canonical order, each on what the ones before it    *)
(* made of the same bar, and publishes the events of the bar in a fixed order.*)
(*                                                                            *)
(* A component that refuses what it is given raises: the bar, and the run,    *)
(* fail (raised).  An event is a record [type, event, detection, evidence];   *)
(* its semantic reference is a digest of exactly that content and of its      *)
(* place in the bar, so the event with its ordinal stands for it.             *)
EXTENDS TrendLegs, SequencesExt

FreshMarket ==
  [bars |-> 0, raised |-> FALSE, ema |-> FreshEma, atr |-> FreshAtr, swings |-> FreshSwings,
   structure |-> FreshStructure, legs |-> FreshLegs, qualification |-> FreshQualification,
   range |-> FreshRange, events |-> <<>>]

Event(type, at, n, evidence) ==
  [type |-> type, event |-> at, detection |-> n, evidence |-> evidence]

(* The one element of a set of at most one, mapped to a sequence. *)
Each(S, F(_)) == IF S = {} THEN <<>> ELSE <<F(The(S))>>

LegEvent == [ESTABLISHED |-> "TREND_LEG_STARTED",
             PROTECTION_ADVANCED |-> "TREND_LEG_PROTECTION_ADVANCED",
             TERMINATED |-> "TREND_LEG_ENDED"]
BreakEvent == [HIGH |-> "SWING_HIGH_CLOSE_BREAK", LOW |-> "SWING_LOW_CLOSE_BREAK"]

(* _events *)
Events(m, n) ==
  LET legEvents == [i \in DOMAIN m.legs.transitions |->
                      LET t == m.legs.transitions[i] IN
                      Event(LegEvent[t.type], IF t.type = "ESTABLISHED" THEN t.leg.initial.event ELSE n,
                            n, t.leg)]
      listed ==
        Each(CurrentSwings(m.swings, n),
             LAMBDA p : Event("SWING_POINT_CONFIRMED", p.event, n, p))
        \o Each(m.structure.classified,
                LAMBDA c : Event("SWING_STRUCTURE_CLASSIFIED", c.swing.event, n, c))
        \o Each({b \in m.structure.breaks : b.side = "HIGH"},
                LAMBDA b : Event(BreakEvent.HIGH, n, n, b.swing))
        \o Each({b \in m.structure.breaks : b.side = "LOW"},
                LAMBDA b : Event(BreakEvent.LOW, n, n, b.swing))
        \o Each(m.legs.crosses, LAMBDA d : Event("EMA_CROSS", n, n, [direction |-> d]))
        \o legEvents
        \o Each(m.qualification.ended,
                LAMBDA e : Event("TREND_LEG_QUALIFICATION_ENDED", n, n, e))
        \o Each(m.qualification.earned, LAMBDA leg : Event("TREND_LEG_QUALIFIED", n, n, leg))
  IN [i \in DOMAIN listed |-> [event |-> listed[i].event, ref |-> <<i, listed[i]>>]]

(* update: EMA, ATR, swings, structure, legs, qualification, range.  A later  *)
(* component is not updated on a bar an earlier one refuses.                  *)
MarketUpdate(m, bar) ==
  LET n == m.bars + 1
      Publishing(next) == [next EXCEPT !.events = Events(next, n)]
      Legs(ema, atr, swings, structure, legs) ==
        IF \/ \E p \in CurrentSwings(swings, n) : ~ValidSwing(p, m.structure.last, n)
           \/ \E c \in structure.classified : ~ValidClassification(c, m.legs.last, n)
           \/ ~ValidLegs(m.qualification, legs, n)
        THEN [m EXCEPT !.raised = TRUE]
        ELSE Publishing(
               [bars |-> n, raised |-> FALSE, ema |-> ema, atr |-> atr, swings |-> swings,
                structure |-> structure, legs |-> legs,
                qualification |-> QualificationUpdate(m.qualification, legs, n),
                range |-> RangeUpdate(m.range, bar, atr.range), events |-> <<>>])
      Structure(ema, atr, swings, structure) ==
        Legs(ema, atr, swings, structure,
             LegUpdate(m.legs, structure.classified, ema.value, bar, n))
      Swings(ema, atr, swings) ==
        Structure(ema, atr, swings, StructureUpdate(m.structure, CurrentSwings(swings, n), bar, n))
      Averages(ema, atr) ==
        Swings(ema, atr,
               SwingUpdate(m.swings, bar, n, IF atr.value = {} THEN 0 ELSE The(atr.value)))
  IN Averages(EmaUpdate(m.ema, bar), AtrUpdate(m.atr, bar))

(* market_events_this_bar of a type, as their contents. *)
Observed(m, type) ==
  {m.events[i].ref[2] : i \in {j \in DOMAIN m.events : m.events[j].ref[2].type = type}}
RefsOf(m, events) == {m.events[i].ref : i \in {j \in DOMAIN m.events : m.events[j].ref[2] \in events}}
=============================================================================
