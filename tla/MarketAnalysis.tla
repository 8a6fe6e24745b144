--------------------------- MODULE MarketAnalysis ---------------------------
(* The analysis of one stream of completed bars: the aggregator advances the *)
(* market state on each bar and the detector runtime runs the registered      *)
(* patterns on the frame it publishes (detection/runtime.py process_bar).     *)
(*                                                                            *)
(* The bars are free: after the opening of a scenario, each bar moves from    *)
(* the last close by one of Moves.                                            *)
EXTENDS TrendDetectors

CONSTANTS
  Scenarios,   \* openings: sequences of moves
  Moves,       \* [move, wick, gap] of a bar: its close and open against the last close,
               \* and the excess of its range
  FreeBars,    \* bars after the opening
  Start        \* first close

Move == [move : Int, wick : Nat, gap : Int]

ASSUME BarsAssumption ==
  Scenarios \subseteq Seq(Move) /\ Moves \subseteq Move /\ FreeBars \in Nat /\ Start \in Int

VARIABLES
  opening,     \* the scenario
  bars,        \* bars consumed
  market,      \* MarketStateAggregator
  runtime      \* DetectorRuntime

vars == <<opening, bars, market, runtime>>

(* Bindings run in the order of their pattern ids. *)
Patterns == <<ContinuationPattern, ReversalPattern, CompressionPattern>>
Continuation == 1
Reversal == 2
Compression == 3

Output(slot, s, m, bar) ==
  CASE s = Continuation -> ContinuationOutput(slot, m, bar)
    [] s = Reversal -> ReversalOutput(slot, m)
    [] s = Compression -> CompressionOutput(slot, m)

LastClose == IF bars = <<>> THEN Start ELSE bars[Len(bars)].close

BarOf(m) ==
  LET open == LastClose + m.gap
      close == LastClose + m.move
  IN [open |-> open, high |-> Max({open, close}) + m.wick, low |-> Min({open, close}) - m.wick,
      close |-> close]

(* process_bar: a bar the market state refuses never reaches the detectors,   *)
(* and nothing is processed after it or after a latched failure.              *)
Process(m, rt, bar) ==
  LET Detecting(next) ==
        IF next.raised THEN [market |-> next, runtime |-> rt]
        ELSE [market |-> next,
              runtime |-> Step(Patterns, rt,
                               [time |-> next.bars, market |-> Range(next.events)],
                               LAMBDA s, slot : Output(slot, s, next, bar)).runtime]
  IN IF rt.failed \/ m.raised THEN [market |-> m, runtime |-> rt]
     ELSE Detecting(MarketUpdate(m, bar))

Init ==
  /\ opening \in Scenarios
  /\ bars = <<>>
  /\ market = FreshMarket
  /\ runtime = FreshRuntime(Patterns)

Consume(m) ==
  /\ Len(bars) < Len(opening) + FreeBars
  /\ bars' = Append(bars, BarOf(m))
  /\ \E after \in {Process(market, runtime, BarOf(m))} :
       market' = after.market /\ runtime' = after.runtime
  /\ UNCHANGED opening

Next ==
  \E m \in IF Len(bars) < Len(opening) THEN {opening[Len(bars) + 1]} ELSE Moves : Consume(m)

Spec == Init /\ [][Next]_vars

-----------------------------------------------------------------------------
(* Properties.  Each compares the incremental state with a definition over    *)
(* the whole list of bars, or over everything the market state has published. *)

Now == Len(bars)
History == {r[2] : r \in runtime.refs}
Published(type, from, to) == {e \in History : e.type = type /\ e.detection \in from .. to}

(* No component of the chain refuses what the one before it made of a bar,    *)
(* and no detector returns what the runtime rejects (runtime.py:658): no      *)
(* stream of valid bars latches the runtime.                                  *)
NoBarIsRefused == ~market.raised /\ ~runtime.failed

(* ATR at each bar, as the extremes froze it. *)
AtrAt ==
  LET atr[j \in 0 .. Now] == IF j = 0 THEN FreshAtr ELSE AtrUpdate(atr[j - 1], bars[j])
  IN [j \in 1 .. Now |-> IF atr[j].value = {} THEN 0 ELSE The(atr[j].value)]

(* The earliest most extreme bar of a side. *)
Running(side, from, to) ==
  Min({i \in from .. to : \A j \in from .. to : ~Beyond(side, PriceOf(side, bars[j]), PriceOf(side, bars[i]))})

(* The confirmed swings are those of the directional-change definition: they  *)
(* alternate, each is the extreme of the bars since the one before it, and is *)
(* detected by the first later close that retraces its frozen ATR distance    *)
(* (swing_point.py:117-163).                                                  *)
SwingsAreReference ==
  LET S == market.swings.confirmed
      atr == AtrAt
      From(k) == IF k = 0 THEN AtrWarmup
                 ELSE Max({S[k].event} \cup {S[i].detection : i \in {k - 1} \cap DOMAIN S})
      After(k) == IF k = 0 THEN AtrWarmup ELSE S[k].detection + 1
      Searched(k) == IF k = 0 THEN Sides ELSE {Other(S[k].side)}
      Turns(s, k, j) ==
        LET i == Running(s, From(k), j)
            reversal == (ReversalPercent * atr[i]) \div 100
            back == (bars[j].close - PriceOf(s, bars[i])) * Unit
        IN i < j /\ (IF s = "HIGH" THEN back <= -reversal ELSE back >= reversal)
      Turned(k) == {j \in After(k) .. Now : \E s \in Searched(k) : Turns(s, k, j)}
  IN /\ Turned(Len(S)) = {}
     /\ \A k \in 0 .. Len(S) - 1 :
          LET next == S[k + 1]
          IN /\ next.detection \in Turned(k)
             /\ \A j \in Turned(k) : next.detection <= j
             /\ next.side \in Searched(k) /\ Turns(next.side, k, next.detection)
             /\ next.event = Running(next.side, From(k), next.detection)

(* What is published of a leg is what the bars since its swings say: it was   *)
(* founded by a corrective swing and an extreme beyond the previous ones, no  *)
(* close has broken the level that protects it, its measures cover every bar, *)
(* and it is qualified once it has passed both gates on some bar              *)
(* (trend_leg.py:288, trend_leg_qualification.py:258).                        *)
LegsAreReference ==
  LET S == market.swings.confirmed
      Founds(d, i) ==
        /\ S[i].side = Backward(d)
        /\ i > 2 /\ i < Len(S)
        /\ Signed(d, S[i].price - S[i - 2].price) * Unit > Tolerance(S[i])
        /\ Signed(d, S[i + 1].price - S[i - 1].price) * Unit > Tolerance(S[i + 1])
        /\ Signed(d, S[i + 1].price - S[i].price) > 0
      Quiet(from) == Published("TREND_LEG_ENDED", from, Now) = {}
  IN /\ \A leg \in market.legs.active :
          LET d == leg.direction
              seen == S[leg.initial.index + 1].event .. Now
              best == IF d = "UP" THEN Max({bars[j].high : j \in seen}) ELSE Min({bars[j].low : j \in seen})
          IN /\ Founds(d, leg.initial.index) /\ Founds(d, leg.protected.index)
             /\ Signed(d, leg.protected.price - leg.initial.price) >= 0
             /\ \A j \in leg.since .. Now : ~ClosesThrough(d, bars[j], leg.protected)
             /\ leg.duration = Now - leg.initial.event + 1
             /\ leg.extreme = best /\ leg.retracement = Signed(d, best - bars[Now].close)
             /\ \A q \in market.qualification.active :
                  q.qualified <=> \E j \in leg.established .. Now :
                    /\ j - leg.initial.event + 1 >= MinDuration
                    /\ Signed(d, bars[j].close - leg.initial.price) >= MinMovement
     /\ \A d \in Directions : \A i \in DOMAIN S :
          /\ Founds(d, i) /\ S[i + 1].detection = Now
          /\ Quiet(S[i].detection) /\ ~ClosesThrough(d, bars[Now], S[i])
          => market.legs.active # {}

(* A compression is active exactly while the last ConfirmationBars qualifying *)
(* bars in a row have not been followed by a release, a candidate exactly     *)
(* while fewer have been seen, and the confirmation is dated at the first of  *)
(* them (compression.py:190-304).  A bar has a score when its window moved    *)
(* and its bandwidth, the closes not summing to zero, ranks among that of     *)
(* enough bars before it (range_state.py:299-365).                            *)
CompressionIsStreak ==
  LET Closes(j) == [i \in 1 .. BandwidthPeriod |-> bars[j - BandwidthPeriod + i].close]
      wide == {j \in BandwidthPeriod .. Now : SumOf(Closes(j)) # 0}
      width == [j \in wide |-> Bandwidth(Closes(j))]
      Ranked(j) == {i \in wide : i < j /\ Cardinality(wide \cap i .. j - 1) < ReferenceBars}
      Score(j) ==
        ChopScore([i \in 1 .. ChopPeriod |->
          LET b == j - ChopPeriod + i IN
          [range |-> TrueRange({bars[x].close : x \in {b - 1} \cap DOMAIN bars}, bars[b]),
           high |-> bars[b].high, low |-> bars[b].low]])
      scored == {j \in wide : /\ j >= ChopPeriod /\ Score(j).envelope > 0
                              /\ Cardinality(wide \cap 1 .. j) >= ReferenceBars}
      observed == [j \in scored |->
        [status |-> "AVAILABLE", score |-> Score(j),
         lower |-> Cardinality({i \in Ranked(j) : Narrower(width[i], width[j])})]]
      qualifying == {j \in scored : Qualifies(observed[j])}
      released == {j \in scored : Releases(observed[j]) # {}}
      active == \E t \in qualifying : /\ t - ConfirmationBars + 1 .. t \subseteq qualifying
                                      /\ t + 1 .. Now \cap released = {}
      slot == runtime.slots[Compression]
  IN /\ slot.state = "ACTIVE" <=> active
     /\ slot.state = "CANDIDATE" <=> Now \in qualifying /\ ~active
     /\ \A i \in DOMAIN runtime.log :
          /\ runtime.log[i].slot = Compression
          /\ runtime.log[i].edge.to = "ACTIVE"
          => runtime.log[i].event = runtime.log[i].detection - ConfirmationBars + 1

(* An open trend candidate is one nothing has decided: the leg it opened in   *)
(* and the swings that were the latest then have not been broken, no extreme  *)
(* refuted it, a waiting one has not been reclaimed, and it is not over age;  *)
(* the event that closed one is the first that decided it                     *)
(* (reversal.py:293, continuation.py:333).                                    *)
OpenedAt(s, i) ==
  Max({runtime.log[j].detection : j \in {x \in 1 .. i : /\ runtime.log[x].slot = s
                                                        /\ runtime.log[x].edge.from = "INACTIVE"}})

(* What had decided a candidate opened at bar a, by bar b. *)
Decisions(s, a, b) ==
  LET starts == Published("TREND_LEG_STARTED", 1, a)
      leg == (CHOOSE e \in starts : \A x \in starts : x.detection <= e.detection).evidence
      d == leg.direction
      Latest(side) ==
        LET known == {i \in DOMAIN market.swings.confirmed :
                        market.swings.confirmed[i].side = side /\ market.swings.confirmed[i].detection <= a}
        IN market.swings.confirmed[Max(known)]
      BrokenIn(from, to, swing) == \E e \in Published(BreakEvent[swing.side], from, to) : e.evidence = swing
      reclaims == {e.detection : e \in {x \in Published("EMA_CROSS", a + 1, b) : x.evidence.direction = d}}
      over == IF b - a >= MaxAge THEN {"candidate_age_limit"} ELSE {}
  IN IF s = Reversal
     THEN over \cup {t \in {"protected_swing_break", "same_direction_extreme"} :
            IF t = "protected_swing_break"
            THEN \E e \in Published("TREND_LEG_ENDED", a + 1, b) : e.evidence.index = leg.index
            ELSE \E e \in Published("SWING_STRUCTURE_CLASSIFIED", a + 1, b) :
                   e.evidence.label = Extending[d]}
     ELSE over \cup {t \in {"protected_swing_break", "continuation_break", "ema_reclaim"} :
            CASE t = "protected_swing_break" -> BrokenIn(a + 1, b, Latest(Backward(d)))
              [] t = "ema_reclaim" -> reclaims # {}
              [] OTHER -> reclaims # {} /\ BrokenIn(Min(reclaims), b, Latest(Forward(d)))}

CandidatesAreDecidedOnce ==
  \A i \in DOMAIN runtime.log :
    LET e == runtime.log[i]
        a == OpenedAt(e.slot, i)
        last == \A j \in i + 1 .. Len(runtime.log) : runtime.log[j].slot # e.slot
        by == Decisions(e.slot, a, e.detection)
    IN e.slot # Compression =>
       /\ e.edge.to = "CANDIDATE" => e.detection = a
       /\ e.edge.to # "CANDIDATE" =>
            /\ e.edge.trigger \in by
            /\ e.edge.to # "RECLAIMED" => Decisions(e.slot, a, e.detection - 1) \subseteq {"ema_reclaim"}
            /\ e.edge.trigger # "ema_reclaim" =>
                 \A t \in by \ {"ema_reclaim"} :
                   Rank(Patterns[e.slot], e.edge.trigger) <= Rank(Patterns[e.slot], t)
       /\ last /\ e.edge.to \in {"CANDIDATE", "RECLAIMED"} =>
            Decisions(e.slot, a, Now) \subseteq (IF e.edge.to = "CANDIDATE" THEN {} ELSE {"ema_reclaim"})
=============================================================================
