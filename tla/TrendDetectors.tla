--------------------------- MODULE TrendDetectors ---------------------------
(* The trend reversal and continuation patterns (detection/reversal.py,       *)
(* detection/continuation.py).  Both open when the close crosses the EMA      *)
(* against a qualified leg that the structure agrees with.  The reversal is   *)
(* confirmed by the end of that leg and refuted by a new extreme of its       *)
(* direction; the continuation waits for the close to reclaim the EMA and     *)
(* then to break the swing that was the last extreme at the cross, and is     *)
(* refuted by a break of the swing that was the last opposite one.            *)
EXTENDS CompressionDetector

CONSTANT MaxAge   \* max_candidate_age_bars

ASSUME MaxAgeAssumption == MaxAge \in Nat \ {0}

(* REVERSAL_V1 *)
ReversalPattern ==
  [states |-> <<"INACTIVE", "CANDIDATE", "CONFIRMED", "INVALIDATED", "EXPIRED">>,
   edges |-> <<Edge("INACTIVE", "CANDIDATE", "opposing_ema_cross"),
               Edge("CANDIDATE", "CONFIRMED", "protected_swing_break"),
               Edge("CANDIDATE", "INVALIDATED", "same_direction_extreme"),
               Edge("CANDIDATE", "EXPIRED", "candidate_age_limit")>>,
   conditions |-> {"opposing_ema_cross", "protected_swing_break", "same_direction_extreme",
                   "candidate_age_limit"},
   terminal |-> {"CONFIRMED", "INVALIDATED", "EXPIRED"},
   precedence |-> <<"protected_swing_break", "same_direction_extreme", "candidate_age_limit">>,
   chains |-> {}]

(* CONTINUATION_V1: a reclaim may be followed on its own bar. *)
ContinuationPattern ==
  [states |-> <<"INACTIVE", "CANDIDATE", "RECLAIMED", "CONFIRMED", "INVALIDATED", "EXPIRED">>,
   edges |-> <<Edge("INACTIVE", "CANDIDATE", "opposing_ema_cross"),
               Edge("CANDIDATE", "RECLAIMED", "ema_reclaim"),
               Edge("CANDIDATE", "INVALIDATED", "protected_swing_break"),
               Edge("RECLAIMED", "INVALIDATED", "protected_swing_break"),
               Edge("RECLAIMED", "CONFIRMED", "continuation_break"),
               Edge("CANDIDATE", "EXPIRED", "candidate_age_limit"),
               Edge("RECLAIMED", "EXPIRED", "candidate_age_limit")>>,
   conditions |-> {"opposing_ema_cross", "ema_reclaim", "protected_swing_break",
                   "continuation_break", "candidate_age_limit"},
   terminal |-> {"CONFIRMED", "INVALIDATED", "EXPIRED"},
   precedence |-> <<"protected_swing_break", "ema_reclaim", "continuation_break",
                    "candidate_age_limit">>,
   chains |-> {<<"ema_reclaim", "continuation_break">>, <<"ema_reclaim", "candidate_age_limit">>}]

-----------------------------------------------------------------------------
(* Legs a candidate may open in on this bar. *)
Eligible(m) ==
  {leg \in m.legs.active :
     /\ \E q \in m.qualification.active :
          q.qualified /\ q.leg.index = leg.index /\ q.leg.direction = leg.direction
     /\ Overall(m.structure) = IF leg.direction = "UP" THEN "BULLISH" ELSE "BEARISH"
     /\ Observed(m, "TREND_LEG_ENDED") = {}}

Crosses(m, direction) == {e \in Observed(m, "EMA_CROSS") : e.evidence.direction = direction}

(* Swings of a label confirmed on this bar, after the candidate opened. *)
NewSwings(m, label, started) ==
  {e \in Observed(m, "SWING_STRUCTURE_CLASSIFIED") :
     e.evidence.label = label /\ e.detection > started}

Aged(m, started) == m.bars - started >= MaxAge

(* The edge of pattern d a trigger takes from a state. *)
Taking(d, from, trigger) == CHOOSE e \in Edges(d) : e.from = from /\ e.trigger = trigger
Observes(slot, d, from, trigger, event, m, cited) ==
  Intent(slot, Taking(d, from, trigger), event, m.bars, RefsOf(m, cited))

-----------------------------------------------------------------------------
(* ReversalDetector._entry *)
ReversalOpens(slot, m) ==
  LET leg == The(Eligible(m))
      cross == Crosses(m, Opposed(leg.direction))
  IN IF Eligible(m) = {} \/ cross = {} THEN Unmoved(slot, slot.context)
     ELSE Moved(slot, <<Observes(slot, ReversalPattern, "INACTIVE", "opposing_ema_cross", m.bars,
                                 m, cross)>>,
                [direction |-> leg.direction, leg |-> leg.index, started |-> m.bars,
                 protected |-> leg.protected, ema |-> m.ema.value])

(* End of the leg the candidate opened in. *)
SourceEnds(slot, m) ==
  {e \in Observed(m, "TREND_LEG_ENDED") :
     e.evidence.index = slot.context.leg /\ e.evidence.direction = slot.context.direction}

(* The break of the swing that protected it, when the structure reports it too. *)
Corroborating(slot, m, ends) ==
  {e \in Observed(m, BreakEvent[Backward(slot.context.direction)]) :
     \E x \in ends : e.evidence.index = x.evidence.protected.index}

(* The mistake of looking at the age before the structure. *)
ReversalAgesFirst(slot, m) ==
  LET context == slot.context
      extremes == NewSwings(m, Extending[context.direction], context.started)
      Ending(trigger, event, cited) ==
        Moved(slot, <<Observes(slot, ReversalPattern, "CANDIDATE", trigger, event, m, cited)>>, context)
  IN CASE Aged(m, context.started) -> Ending("candidate_age_limit", m.bars, {})
       [] ~Aged(m, context.started) /\ SourceEnds(slot, m) # {} ->
            Ending("protected_swing_break", m.bars, SourceEnds(slot, m))
       [] extremes # {} -> Ending("same_direction_extreme", The(extremes).event, extremes)
       [] OTHER -> Unmoved(slot, context)

(* _resolve: the end of the leg, then a new extreme (dated at the extreme),   *)
(* then the age.                                                              *)
ReversalResolves(slot, m) ==
  LET context == slot.context
      ends == SourceEnds(slot, m)
      extremes == NewSwings(m, Extending[context.direction], context.started)
      Ending(trigger, event, cited) ==
        Moved(slot, <<Observes(slot, ReversalPattern, "CANDIDATE", trigger, event, m, cited)>>, context)
  IN CASE ends # {} ->
            [Ending("protected_swing_break", m.bars, ends \cup Corroborating(slot, m, ends))
             EXCEPT !.raised = ~ClosesThrough(context.direction, [close |-> The(m.legs.close)],
                                              The(ends).evidence.protected)]
       [] ends = {} /\ extremes # {} ->
            Ending("same_direction_extreme", The(extremes).event, extremes)
       [] ends = {} /\ extremes = {} /\ Aged(m, context.started) ->
            Ending("candidate_age_limit", m.bars, {})
       [] OTHER -> Unmoved(slot, [context EXCEPT !.ema = IF m.ema.value = {} THEN @ ELSE m.ema.value])

ReversalOutput(slot, m) ==
  CASE slot.state = "INACTIVE" -> ReversalOpens(slot, m)
    [] slot.state = "CANDIDATE" -> ReversalResolves(slot, m)
    [] OTHER -> Unmoved(slot, slot.context)

-----------------------------------------------------------------------------
(* How far the bar pulled back from the best price of the leg. *)
Depth(direction, best, bar) ==
  Max({0, IF direction = "UP" THEN best - bar.low ELSE bar.high - best})

(* ContinuationDetector._entry freezes the latest swing of each side. *)
ContinuationOpens(slot, m, bar) ==
  LET leg == The(Eligible(m))
      d == leg.direction
      cross == Crosses(m, Opposed(d))
  IN IF \/ Eligible(m) = {}
        \/ cross = {}
        \/ \E s \in Sides : m.structure.latest[s] = {}
     THEN Unmoved(slot, slot.context)
     ELSE Moved(slot, <<Observes(slot, ContinuationPattern, "INACTIVE", "opposing_ema_cross",
                                 m.bars, m, cross)>>,
                [direction |-> d, leg |-> leg.index, started |-> m.bars, best |-> leg.extreme,
                 continuation |-> The(m.structure.latest[Forward(d)]).swing,
                 protected |-> The(m.structure.latest[Backward(d)]).swing,
                 depth |-> Depth(d, leg.extreme, bar), ema |-> m.ema.value, prior |-> {},
                 reclaimed |-> {}, reactions |-> 0])

(* _observe_context *)
Observing(context, m, bar) ==
  [context EXCEPT
     !.depth = Max({@, Depth(context.direction, context.best, bar)}),
     !.prior = IF m.ema.value = {} THEN @ ELSE context.ema,
     !.ema = IF m.ema.value = {} THEN @ ELSE m.ema.value,
     !.reactions = @ + Cardinality(NewSwings(m, Corrective[context.direction], context.started))]

(* _matching_break: of the very swing that was frozen. *)
BreakOf(m, swing) == {e \in Observed(m, BreakEvent[swing.side]) : e.evidence = swing}

(* _advance: the protected break wins; a reclaim may be confirmed or expire   *)
(* on its own bar.                                                            *)
ContinuationAdvances(slot, m, bar) ==
  LET context == Observing(slot.context, m, bar)
      d == context.direction
      refuted == BreakOf(m, context.protected)
      broken == BreakOf(m, context.continuation)
      reclaim == IF slot.state = "CANDIDATE" THEN Crosses(m, d) ELSE {}
      aged == Aged(m, context.started)
      after == IF reclaim = {} THEN context ELSE [context EXCEPT !.reclaimed = {m.bars}]
      reclaiming == IF reclaim = {} THEN <<>>
                    ELSE <<Observes(slot, ContinuationPattern, "CANDIDATE", "ema_reclaim",
                                    m.bars, m, reclaim)>>
      from == IF reclaim = {} THEN slot.state ELSE "RECLAIMED"
      Ending(trigger, cited) ==
        Moved(slot, Append(reclaiming, Observes(slot, ContinuationPattern, from, trigger,
                                                m.bars, m, cited)), after)
  IN CASE refuted # {} ->
            Moved(slot, <<Observes(slot, ContinuationPattern, slot.state, "protected_swing_break",
                                   m.bars, m, refuted)>>, context)
       [] refuted = {} /\ from = "RECLAIMED" /\ broken # {} -> Ending("continuation_break", broken)
       [] refuted = {} /\ ~(from = "RECLAIMED" /\ broken # {}) /\ aged ->
            Ending("candidate_age_limit", {})
       [] OTHER -> IF reclaim = {} THEN Unmoved(slot, after) ELSE Moved(slot, reclaiming, after)

ContinuationOutput(slot, m, bar) ==
  CASE slot.state = "INACTIVE" -> ContinuationOpens(slot, m, bar)
    [] slot.state \in {"CANDIDATE", "RECLAIMED"} -> ContinuationAdvances(slot, m, bar)
    [] OTHER -> Unmoved(slot, slot.context)
=============================================================================
