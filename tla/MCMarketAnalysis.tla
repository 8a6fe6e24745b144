-------------------------- MODULE MCMarketAnalysis --------------------------
(* Bounds of the market analysis run. *)
EXTENDS EventOutcomes

Bar(move, wick, gap) == [move |-> move, wick |-> wick, gap |-> gap]
Steps(moves) == [i \in DOMAIN moves |-> Bar(moves[i], 0, 0)]
Mirror(moves) == [i \in DOMAIN moves |-> -moves[i]]

(* A trend with its pullbacks up to the cross against it, its mirror image,   *)
(* the rise before the first extreme, and a fall out of a range.              *)
Trend == <<1, -1, 1, -1, 1, -1, 3, 3, -2, -2, 4, 3, -2, -2, 4, 3, -3>>
MCScenarios == {Steps(Trend), Steps(Mirror(Trend)), Steps(SubSeq(Trend, 1, 12)),
                Steps(<<0, 0, 0, 0, 0, 1, -2, 3, -4, 3>>)}
ASSUME PatternsAreValid == \A s \in DOMAIN Patterns : ValidDefinition(Patterns[s])

(* The third bar opens above and falls below where it came from; the second    *)
(* reaches both ways from its open.                                           *)
MCMoves == {Bar(4, 0, 0), Bar(1, 2, 0), Bar(-1, 1, 2), Bar(-4, 0, 0)}
MCChopEntry == <<3, 2>>
MCChopRelease == <<5, 4>>

MCPredicates == <<[field |-> "atr", operator |-> "GTE", value |-> 1],
                 [field |-> "trigger", operator |-> "NE", value |-> "candidate_age_limit"]>>

Points(n) == [value |-> n, units |-> "POINTS"]
OneAtr == [value |-> 1, units |-> "ATR"]
Threshold(kind, basis, limit, horizon) ==
  [outcome |-> "TIME_TO_THRESHOLD", kind |-> kind, basis |-> basis, side |-> "POSITIVE",
   POSITIVE |-> limit, NEGATIVE |-> limit, horizon |-> horizon, mode |-> "FROM_DETECTION_TIME"]
Structural(family, mode) ==
  [outcome |-> "STRUCTURAL", family |-> family, transition |-> "ANY", horizon |-> 3, mode |-> mode]
MCOutcomes ==
  {Threshold("CATEGORY", "EVENT_DIRECTION", Points(2), 2), Threshold("CATEGORY", "UP_DOWN", OneAtr, 3),
   Threshold("BARS", "UP_DOWN", Points(3), 3),
   [outcome |-> "EXCURSION", kind |-> "MAE", normalized |-> TRUE, horizon |-> 2,
    mode |-> "FROM_DETECTION_TIME"],
   [outcome |-> "FORWARD_RETURN", directional |-> TRUE, horizon |-> 2, mode |-> "FROM_EVENT_TIME"],
   Structural("SWING", "FROM_EVENT_TIME"), Structural("BREAK", "FROM_DETECTION_TIME"),
   Structural("TREND_LEG", "FROM_DETECTION_TIME")}
=============================================================================
