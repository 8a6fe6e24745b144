---------------------------- MODULE EventOutcomes ----------------------------
(* What followed an event: each detector event is frozen with the market state *)
(* of its bar (detection/context_snapshots.py), the evaluated population is    *)
(* chosen from that alone (application/event_sets.py), and an outcome is       *)
(* measured over a window of the minutes after the event and over nothing else *)
(* (application/outcome_evaluation.py and the registered algorithms).          *)
(*                                                                            *)
(* The stream is of one-minute bars.  Minutes are the open ones, counted from *)
(* the first bar, DayMinutes to a trading day; the source has no bar for one   *)
(* of them.  A value that depends on a result being there is a sequence of at  *)
(* most one.                                                                  *)
EXTENDS MarketAnalysis

CONSTANTS
  DayMinutes,      \* open minutes of a trading day
  MissingMinute,   \* the minute the source lacks
  SelectedStart, SelectedEnd,   \* minutes of the evaluated interval
  Predicates,      \* of the event set: [field, operator, value]
  Outcomes         \* the selected definitions, resolved

(* The registered threshold outcomes have the default mode (domain/outcomes.py:68). *)
ASSUME OutcomeAssumption ==
  /\ DayMinutes \in Nat \ {0}
  /\ {MissingMinute, SelectedStart, SelectedEnd} \subseteq Nat
  /\ SelectedStart < SelectedEnd
  /\ \A d \in Outcomes :
       /\ d.horizon \in Nat \ {0}
       /\ d.outcome \in {"TIME_TO_THRESHOLD", "EXCURSION", "FORWARD_RETURN", "STRUCTURAL"}
       /\ d.outcome = "TIME_TO_THRESHOLD" =>
            /\ d.mode = "FROM_DETECTION_TIME"
            /\ d.side \in {"POSITIVE", "NEGATIVE"}
            /\ d["POSITIVE"].value \in Nat /\ d["NEGATIVE"].value \in Nat

VARIABLE snapshots   \* detection-time context of each event of the runtime

MinuteOf(i) == IF i - 1 < MissingMinute THEN i - 1 ELSE i
Available(i) == MinuteOf(i) + 1

-----------------------------------------------------------------------------
(* The direction the pattern committed to, for the patterns that have one.    *)
CapturedDirection(s, context) ==
  CASE s = Reversal -> {Opposed(context.direction)}
    [] s = Continuation -> {context.direction}
    [] OTHER -> {}

(* capture_values: of the emitting frame. *)
CaptureValues(e, m, bar, slot) ==
  [trigger |-> {e.edge.trigger}, close |-> bar.close, atr |-> m.atr.value,
   structure |-> {Overall(m.structure)}, direction |-> CapturedDirection(e.slot, slot.context),
   times |-> {e.event} \cup {m.events[i].event : i \in DOMAIN m.events}]

(* A snapshot that holds a time after its event is refused. *)
Observable(snapshot, e) == \A t \in snapshot.times : t <= e.detection

CapturingInit == Init /\ snapshots = <<>>

CapturingNext ==
  /\ Next
  /\ LET old == Len(runtime.log)
     IN snapshots' = snapshots \o
          [i \in 1 .. Len(runtime'.log) - old |->
             LET e == runtime'.log[old + i]
             IN CaptureValues(e, market', bars'[Len(bars')], runtime'.slots[e.slot])]

CapturingSpec == CapturingInit /\ [][CapturingNext]_<<vars, snapshots>>

-----------------------------------------------------------------------------
(* _matches: a predicate on a field of the snapshot that is missing holds only *)
(* when that is what it asks.                                                 *)
Matches(p, snapshot) ==
  LET actual == snapshot[p.field]
  IN CASE p.operator = "IS_UNAVAILABLE" -> actual = {}
       [] p.operator = "EQ" -> \E v \in actual : v = p.value
       [] p.operator = "NE" -> \E v \in actual : v # p.value
       [] p.operator = "LT" -> \E v \in actual : v < p.value
       [] p.operator = "GTE" -> \E v \in actual : v >= p.value

(* event_set_decision *)
EventSetDecision(e, snapshot) ==
  /\ SelectedStart <= MinuteOf(e.detection)
  /\ MinuteOf(e.detection) < SelectedEnd
  /\ Available(e.detection) <= SelectedEnd
  /\ \A p \in DOMAIN Predicates : Matches(Predicates[p], snapshot)

-----------------------------------------------------------------------------
(* Windows and events: one definition per family of the registry. *)
Retrospective(d) == d.mode = "FROM_EVENT_TIME"

(* The mistake of a window that takes in the minute it ends at. *)
WindowPastEnd(e, d) ==
  LET at == IF Retrospective(d) THEN e.event ELSE e.detection
      dayEnd == DayMinutes * (MinuteOf(at) \div DayMinutes + 1)
      reference == MinuteOf(at) + 1
  IN [reference |-> reference,
      end |-> Max({reference, Min({dayEnd, reference + d.horizon})}) + 1]

(* The window starts when the event can be known, or a minute after the bar it *)
(* is dated at, and never leaves the trading day of that bar.                 *)
Window(e, d) ==
  LET at == IF Retrospective(d) THEN e.event ELSE e.detection
      dayEnd == DayMinutes * (MinuteOf(at) \div DayMinutes + 1)
      reference == MinuteOf(at) + 1
  IN [reference |-> reference,
      end |-> Max({reference, Min({dayEnd, reference + d.horizon})})]

(* structural_event_inventory: a second pass over the source, up to the minute *)
(* it lacks.                                                                  *)
SupportedTypes ==
  [SWING |-> {"SWING_POINT_CONFIRMED"},
   BREAK |-> {"SWING_HIGH_CLOSE_BREAK", "SWING_LOW_CLOSE_BREAK"},
   TREND_LEG |-> {"TREND_LEG_STARTED", "TREND_LEG_ENDED", "TREND_LEG_PROTECTION_ADVANCED",
                  "TREND_LEG_QUALIFIED", "TREND_LEG_QUALIFICATION_ENDED"}]

Inventory(known) ==
  {r \in runtime.refs :
     /\ r[2].detection <= known
     /\ MinuteOf(r[2].detection) < MissingMinute
     /\ Available(r[2].detection) >= SelectedStart
     /\ \E family \in DOMAIN SupportedTypes : r[2].type \in SupportedTypes[family]}

(* observable_order: market events of a bar come before its detector events. *)
MarketOrder(r) == <<Available(r[2].detection), 0, r[1]>>
DetectorOrder(e) == <<Available(e.detection), 1, 0>>
Before(a, b) ==
  \E k \in 1 .. 3 : a[k] < b[k] /\ \A j \in 1 .. k - 1 : a[j] = b[j]

(* Events of the inventory that may be an outcome of e. *)
BoundedEvents(e, d, w, known) ==
  {r \in Inventory(known) :
     /\ Available(r[2].detection) <= w.end
     /\ IF Retrospective(d) THEN Available(r[2].detection) >= w.reference
        ELSE Before(DetectorOrder(e), MarketOrder(r))}

-----------------------------------------------------------------------------
(* Results. *)
Result(value) == [status |-> "AVAILABLE", value |-> <<value>>]
Lacking(status) == [status |-> status, value |-> <<>>]

(* exact_difference, in 1/Unit ticks, towards UP and DOWN. *)
Reach(bar, price) == [UP |-> (bar.high - price) * Unit, DOWN |-> (price - bar.low) * Unit]

(* captured_atr: only a positive one is ready. *)
CapturedAtr(source) == {v \in source.snapshot.atr : v > 0}

(* time_to_threshold.py *)
ThresholdDistance(source, limit) ==
  IF limit.units = "POINTS" THEN {limit.value * Unit}
  ELSE {limit.value * v : v \in CapturedAtr(source)}

Along(side, direction) == IF side = "POSITIVE" THEN direction ELSE Opposed(direction)

(* The first bar whose range reaches the threshold of a side. *)
FirstHit(source, d, side, direction) ==
  LET hits == {j \in DOMAIN source.bars : \E distance \in ThresholdDistance(source, d[side]) :
                 Reach(source.bars[j], source.price)[Along(side, direction)] >= distance}
  IN {Min(H) : H \in {hits} \ {{}}}

AtOpen(source, d, side, direction, j) ==
  LET move == Signed(Along(side, direction), source.bars[j].open - source.price) * Unit
  IN move >= The(ThresholdDistance(source, d[side]))

(* The mistake of looking at the extremes of the deciding bar in a fixed order. *)
TouchedHighFirst(source, d, direction) ==
  LET positive == FirstHit(source, d, "POSITIVE", direction)
      negative == FirstHit(source, d, "NEGATIVE", direction)
  IN IF positive = {} /\ negative = {} THEN Result("NOT_REACHED")
     ELSE IF negative = {} \/ (positive # {} /\ The(positive) <= The(negative))
     THEN Result("POSITIVE_FIRST") ELSE Result("NEGATIVE_FIRST")

(* Which side was touched first.  When the same bar is the first to touch both *)
(* only its open can tell.                                                    *)
Touched(source, d, direction) ==
  LET positive == FirstHit(source, d, "POSITIVE", direction)
      negative == FirstHit(source, d, "NEGATIVE", direction)
      Opened(side) == AtOpen(source, d, side, direction, The(positive))
  IN CASE positive = {} /\ negative = {} -> Result("NOT_REACHED")
       [] positive # {} /\ positive = negative ->
            IF Opened("POSITIVE") = Opened("NEGATIVE") THEN Lacking("AMBIGUOUS")
            ELSE Result(IF Opened("POSITIVE") THEN "POSITIVE_FIRST" ELSE "NEGATIVE_FIRST")
       [] OTHER -> Result(IF negative = {} \/ (positive # {} /\ The(positive) < The(negative))
                          THEN "POSITIVE_FIRST" ELSE "NEGATIVE_FIRST")

(* The first minute at whose end the side is known to have been touched. *)
Offset(source, d, direction) ==
  LET hit == FirstHit(source, d, d.side, direction)
  IN IF hit = {} THEN Lacking("NOT_APPLICABLE") ELSE Result(The(hit))

TimeToThreshold(source, d) ==
  LET direction == IF d.basis = "UP_DOWN" THEN {"UP"} ELSE source.snapshot.direction
      sides == IF d.kind = "CATEGORY" THEN {"POSITIVE", "NEGATIVE"} ELSE {d.side}
  IN IF direction = {} \/ \E s \in sides : ThresholdDistance(source, d[s]) = {}
     THEN Lacking("NOT_APPLICABLE")
     ELSE IF d.kind = "CATEGORY" THEN Touched(source, d, The(direction))
     ELSE Offset(source, d, The(direction))

(* excursions.py: the furthest prices of the window from the reference. *)
Excursion(source, d) ==
  LET Furthest(direction) == Max({Reach(source.bars[j], source.price)[direction] : j \in DOMAIN source.bars})
      direction == source.snapshot.direction
      value == CASE d.kind = "MFE" -> Furthest(The(direction))
                 [] d.kind = "MAE" -> -Furthest(Opposed(The(direction)))
                 [] OTHER -> Furthest(d.kind)
  IN IF d.kind \in {"MFE", "MAE"} /\ direction = {} THEN Lacking("NOT_APPLICABLE")
     ELSE IF ~d.normalized THEN Result(value)
     ELSE IF CapturedAtr(source) = {} THEN Lacking("NOT_APPLICABLE")
     ELSE Result(<<value, The(CapturedAtr(source))>>)

(* forward_return.py *)
ForwardReturn(source, d) ==
  LET value == source.bars[Len(source.bars)].close - source.price
      direction == source.snapshot.direction
  IN IF ~d.directional THEN Result(value)
     ELSE IF direction = {} THEN Lacking("NOT_APPLICABLE")
     ELSE Result(Signed(The(direction), value))

(* canonical_reference: what kind of event it was. *)
Category(event) ==
  CASE event.type = "SWING_POINT_CONFIRMED" -> event.evidence.side
    [] event.type \in SupportedTypes.BREAK ->
         IF event.type = BreakEvent.HIGH THEN "UP" ELSE "DOWN"
    [] event.type = "TREND_LEG_QUALIFICATION_ENDED" -> event.evidence.leg.direction
    [] OTHER -> event.evidence.direction

(* structural_outcomes.py: the next event of a family, by observable order. *)
StructuralOutcome(events, d) ==
  LET matching == {r \in events : /\ r[2].type \in SupportedTypes[d.family]
                                  /\ d.transition \in {"ANY", r[2].type}}
      next == {r \in matching : \A x \in matching : ~Before(MarketOrder(x), MarketOrder(r))}
  IN IF next = {} THEN Result("NO_EVENT")
     ELSE Result(<<The(next)[2].type, Category(The(next)[2])>>)

(* evaluate_outcome of definition d for the i-th event, over a source that     *)
(* ends with its k-th bar: a window that leaves the day or lacks a minute has  *)
(* no outcome.                                                                *)
Evaluate(i, d, k) ==
  LET e == runtime.log[i]
      w == Window(e, d)
      expected == w.reference .. w.end - 1
      bounded == {j \in 1 .. k : MinuteOf(j) \in expected}
      source == [snapshot |-> snapshots[i],
                 price |-> IF Retrospective(d) THEN bars[e.event].close ELSE snapshots[i].close,
                 bars |-> SubSeq(bars, Min(bounded), Max(bounded))]
  IN IF Cardinality(expected) # d.horizon \/ {MinuteOf(j) : j \in bounded} # expected
     THEN Lacking("INSUFFICIENT_DATA")
     ELSE CASE d.outcome = "TIME_TO_THRESHOLD" -> TimeToThreshold(source, d)
            [] d.outcome = "EXCURSION" -> Excursion(source, d)
            [] d.outcome = "FORWARD_RETURN" -> ForwardReturn(source, d)
            [] d.outcome = "STRUCTURAL" -> StructuralOutcome(BoundedEvents(e, d, w, k), d)

-----------------------------------------------------------------------------
(* Properties. *)
Population == {i \in DOMAIN runtime.log : EventSetDecision(runtime.log[i], snapshots[i])}

(* An outcome is either missing or final: it is there exactly when every minute *)
(* of the horizon is in the source and in the day, it is what those minutes    *)
(* say, and neither the bars after its window nor the market events they bring *)
(* change it (outcome_evaluation.py:188-250).                                 *)
OutcomesSeeOnlyTheirWindow ==
  \A i \in Population : \A d \in Outcomes :
    LET now == Evaluate(i, d, Now)
        at == IF Retrospective(d) THEN runtime.log[i].event ELSE runtime.log[i].detection
        last == at + d.horizon
        whole == /\ MinuteOf(at + d.horizon) = MinuteOf(at) + d.horizon
                 /\ (MinuteOf(at) + d.horizon) \div DayMinutes = MinuteOf(at) \div DayMinutes
    IN /\ Observable(snapshots[i], runtime.log[i])
       /\ IF whole /\ Now >= last
          THEN now.status # "INSUFFICIENT_DATA" /\ now = Evaluate(i, d, last)
          ELSE now = Lacking("INSUFFICIENT_DATA")

(* The first side a threshold outcome names is the first one touched on every  *)
(* path the prices can have taken: each bar goes from its open through its two *)
(* extremes, in either order, to its close.  It is ambiguous only when the     *)
(* paths disagree or touch both at once, and the offset of a side is the       *)
(* shortest window whose excursion reaches it (time_to_threshold.py:119-183,   *)
(* excursions.py:64-66).                                                      *)
Paths(bar) == {<<bar.open, bar.high, bar.low, bar.close>>, <<bar.open, bar.low, bar.high, bar.close>>}

DirectionOf(taken, d) == IF d.basis = "UP_DOWN" THEN "UP" ELSE The(taken.direction)
DistanceOf(taken, d, side) ==
  IF d[side].units = "POINTS" THEN d[side].value * Unit ELSE d[side].value * The(taken.atr)

SidesAt(taken, d, price, to) ==
  {s \in {"POSITIVE", "NEGATIVE"} :
     Signed(DirectionOf(taken, d), to - price) * Unit * (IF s = "POSITIVE" THEN 1 ELSE -1)
       >= DistanceOf(taken, d, s)}

(* The sides each path touches first. *)
FirstSides(taken, d, price, bar) ==
  {SidesAt(taken, d, price, path[Min({n \in 1 .. 4 : SidesAt(taken, d, price, path[n]) # {}})]) :
     path \in Paths(bar)}
IsTouching(taken, d, price, bar) ==
  \E path \in Paths(bar) : \E n \in 1 .. 4 : SidesAt(taken, d, price, path[n]) # {}

FirstLabel == [POSITIVE |-> "POSITIVE_FIRST", NEGATIVE |-> "NEGATIVE_FIRST"]

(* The excursion to a side of the first h bars. *)
Spans(taken, d, price, from, h) ==
  Excursion([snapshot |-> taken, price |-> price, bars |-> SubSeq(bars, from, from + h - 1)],
            [kind |-> Along(d.side, DirectionOf(taken, d)), normalized |-> FALSE]).value[1]

TouchesFollowThePath ==
  \A i \in Population : \A d \in {x \in Outcomes : x.outcome = "TIME_TO_THRESHOLD"} :
    LET result == Evaluate(i, d, Now)
        taken == snapshots[i]
        price == bars[runtime.log[i].detection].close
        from == CHOOSE j \in 1 .. Now + 1 : MinuteOf(j) = Window(runtime.log[i], d).reference
        touching == {j \in from .. from + d.horizon - 1 : IsTouching(taken, d, price, bars[j])}
    IN result.status \in {"AVAILABLE", "AMBIGUOUS"} =>
         IF d.kind = "CATEGORY"
         THEN /\ result = Result("NOT_REACHED") <=> touching = {}
              /\ \A s \in {"POSITIVE", "NEGATIVE"} :
                   result = Result(FirstLabel[s]) <=>
                     touching # {} /\ FirstSides(taken, d, price, bars[Min(touching)]) = {{s}}
         ELSE result.value[1] =
                Min({h \in 1 .. d.horizon : Spans(taken, d, price, from, h) >= DistanceOf(taken, d, d.side)})
=============================================================================
