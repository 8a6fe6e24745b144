-------------------------- MODULE MarketIndicators --------------------------
(* The incremental market indicators (indicators/incremental.py, ema.py,     *)
(* atr.py, range_state.py): each keeps only the state it needs, is updated    *)
(* once per completed bar and never sees a later one.                         *)
(*                                                                            *)
(* A bar is a record [open, high, low, close] of prices in whole ticks; bar   *)
(* n is the n-th one consumed (completed_bars after it).  A Decimal that is not    *)
(* a price (an average, a threshold) is a whole number of 1/Unit ticks: the   *)
(* context precision rounds it there as the division does here.  A value      *)
(* that may be None is a set with at most one member.                         *)
EXTENDS Integers, Sequences, FiniteSetsExt

CONSTANTS
  Unit,              \* parts a tick is divided into
  EmaPeriod, AtrPeriod,
  ChopPeriod,        \* bars of the choppiness window
  BandwidthPeriod,   \* closes of a bandwidth
  ReferenceBars      \* bandwidths a compression score ranks (compression_reference_bars)

ASSUME IndicatorAssumption ==
  /\ {Unit, EmaPeriod, AtrPeriod} \subseteq Nat \ {0}
  /\ {ChopPeriod, BandwidthPeriod, ReferenceBars} \subseteq Nat \ {0, 1}

The(S) == CHOOSE x \in S : TRUE
Distance(a, b) == IF a < b THEN b - a ELSE a - b

(* Keep the last `size` elements: a deque with maxlen. *)
Pushed(window, size, x) ==
  LET all == Append(window, x)
  IN SubSeq(all, Max({1, Len(all) - size + 1}), Len(all))

-----------------------------------------------------------------------------
(* ema.py: the average of the first EmaPeriod closes, then a fixed fraction   *)
(* of the way to each close.                                                  *)
FreshEma == [seeds |-> 0, sum |-> 0, value |-> {}]

EmaUpdate(e, bar) ==
  IF e.value # {}
  THEN [e EXCEPT !.value = {v + (2 * (bar.close * Unit - v)) \div (EmaPeriod + 1) : v \in @}]
  ELSE [seeds |-> e.seeds + 1, sum |-> e.sum + bar.close,
        value |-> IF e.seeds + 1 = EmaPeriod
                  THEN {((e.sum + bar.close) * Unit) \div EmaPeriod} ELSE {}]

(* atr.py: true range against the prior close, smoothed by Wilder's average. *)
FreshAtr == [prior |-> {}, range |-> 0, seeds |-> 0, sum |-> 0, value |-> {}]
AtrWarmup == 5 * AtrPeriod + 1

TrueRange(prior, bar) ==
  Max({bar.high - bar.low}
      \cup UNION {{Distance(bar.high, c), Distance(bar.low, c)} : c \in prior})

AtrUpdate(a, bar) ==
  LET range == TrueRange(a.prior, bar)
      seeding == a.value = {}
      sum == IF seeding THEN a.sum + range ELSE a.sum
      seeds == IF seeding THEN a.seeds + 1 ELSE a.seeds
  IN [prior |-> {bar.close}, range |-> range, seeds |-> seeds, sum |-> sum,
      value |-> IF ~seeding
                THEN {(v * (AtrPeriod - 1) + range * Unit) \div AtrPeriod : v \in a.value}
                ELSE IF seeds = AtrPeriod THEN {(sum * Unit) \div AtrPeriod} ELSE {}]

-----------------------------------------------------------------------------
(* range_state.py: choppiness of the last bars and rank of the current        *)
(* bandwidth among the previous ones.  A score is kept as the ratio it is the *)
(* logarithm or the percentage of: scores compare as their ratios do.         *)
FreshRange == [chop |-> <<>>, closes |-> <<>>, widths |-> <<>>,
               status |-> "WARMING_UP", score |-> [sum |-> 0, envelope |-> 0], lower |-> 0]

SumOf(window) == MapThenSumSet(LAMBDA i : window[i], DOMAIN window)

ChopStatus(window) ==
  IF Len(window) < ChopPeriod THEN "WARMING_UP"
  ELSE IF Max({b.high : b \in {window[i] : i \in DOMAIN window}})
          = Min({b.low : b \in {window[i] : i \in DOMAIN window}}) THEN "DEGENERATE"
  ELSE "AVAILABLE"

(* Sum of true ranges and the envelope they moved in. *)
ChopScore(window) ==
  [sum |-> MapThenSumSet(LAMBDA i : window[i].range, DOMAIN window),
   envelope |-> Max({window[i].high : i \in DOMAIN window})
                - Min({window[i].low : i \in DOMAIN window})]

BandwidthStatus(closes) ==
  IF Len(closes) < BandwidthPeriod THEN "WARMING_UP"
  ELSE IF SumOf(closes) = 0 THEN "DEGENERATE" ELSE "AVAILABLE"

(* The bandwidth is proportional to the root of scatter over the square of    *)
(* the total, and has the sign of the total.                                  *)
Bandwidth(closes) ==
  LET total == SumOf(closes)
      squares == MapThenSumSet(LAMBDA i : closes[i] * closes[i], DOMAIN closes)
  IN [scatter |-> Len(closes) * squares - total * total, total |-> total]

Narrower(a, b) ==
  LET Side(width) == IF width.total < 0 THEN -1 ELSE 1
  IN Side(a) * a.scatter * b.total * b.total < Side(b) * b.scatter * a.total * a.total

(* _range_availability: one warming axis warms the component, one degenerate  *)
(* axis degrades it.                                                          *)
Availability(statuses) ==
  IF "WARMING_UP" \in statuses THEN "WARMING_UP"
  ELSE IF "DEGENERATE" \in statuses THEN "DEGENERATE" ELSE "AVAILABLE"

RangeUpdate(r, bar, trueRange) ==
  LET chop == Pushed(r.chop, ChopPeriod, [range |-> trueRange, high |-> bar.high, low |-> bar.low])
      closes == Pushed(r.closes, BandwidthPeriod, bar.close)
      bandwidth == BandwidthStatus(closes)
      widths == IF bandwidth = "AVAILABLE" THEN Pushed(r.widths, ReferenceBars, Bandwidth(closes))
                ELSE r.widths
      compression == IF bandwidth = "AVAILABLE" /\ Len(widths) < ReferenceBars
                     THEN "WARMING_UP" ELSE bandwidth
  IN [chop |-> chop, closes |-> closes, widths |-> widths,
      status |-> Availability({ChopStatus(chop), bandwidth, compression}),
      score |-> ChopScore(chop),
      lower |-> Cardinality({i \in 1 .. Len(widths) - 1 : Narrower(widths[i], widths[Len(widths)])})]
=============================================================================
