--------------------------- MODULE SwingStructure ---------------------------
(* Confirmed swings and the structure they form (indicators/swing_point.py,  *)
(* swing_structure.py).  A swing is an extreme confirmed later, by the first  *)
(* close that retraces the ATR distance frozen at the extreme; confirmed      *)
(* highs and lows alternate.  The structure labels each swing against the     *)
(* previous one of its side and reports the first close beyond the latest.    *)
(*                                                                            *)
(* The sides are "HIGH" and "LOW"; what the code writes twice, once for each, *)
(* is one operator of the side.                                               *)
EXTENDS MarketIndicators

CONSTANTS
  ReversalPercent,   \* reversal_atr_multiplier
  EqualPercent,      \* equal_level_atr_multiplier
  BufferPercent      \* break_buffer_atr_multiplier, all in hundredths

ASSUME SwingAssumption ==
  ReversalPercent \in Nat \ {0} /\ {EqualPercent, BufferPercent} \subseteq Nat

Sides == {"HIGH", "LOW"}
Other(side) == IF side = "HIGH" THEN "LOW" ELSE "HIGH"
PriceOf(side, bar) == IF side = "HIGH" THEN bar.high ELSE bar.low
Beyond(side, a, b) == IF side = "HIGH" THEN a > b ELSE a < b

-----------------------------------------------------------------------------
(* swing_point.py.  candidate[s] is the extreme searched on side s;           *)
(* opposite[s] is the running extreme of side s since the candidate of the    *)
(* other side; each holds at most one.                                        *)
FreshSwings == [confirmed |-> <<>>, search |-> Sides,
                candidate |-> [s \in Sides |-> {}], opposite |-> [s \in Sides |-> {}]]

Extreme(side, bar, n, atr) ==
  [price |-> PriceOf(side, bar), bar |-> n, atr |-> atr,
   threshold |-> (ReversalPercent * atr) \div 100, equals |-> 0]

(* Only a strictly more extreme price moves a candidate; an equal one is      *)
(* counted as evidence.                                                       *)
Replaces(sw, side, bar) ==
  side \in sw.search /\ \A c \in sw.candidate[side] : Beyond(side, PriceOf(side, bar), c.price)

Tracked(kept, side, fresh) ==
  {CASE Beyond(side, fresh.price, c.price) -> fresh
     [] fresh.price = c.price -> [c EXCEPT !.equals = @ + 1]
     [] OTHER -> c : c \in kept}

Extremes(sw, bar, n, atr) ==
  LET fresh == [s \in Sides |-> Extreme(s, bar, n, atr)]
      moved == {s \in Sides : Replaces(sw, s, bar)}
  IN [sw EXCEPT
       !.candidate = [s \in Sides |-> IF s \in moved THEN {fresh[s]} ELSE Tracked(@[s], s, fresh[s])],
       !.opposite = [s \in Sides |-> IF Other(s) \in moved THEN {fresh[s]}
                                     ELSE Tracked(@[s], s, fresh[s])]]

(* Sides a later close has retraced far enough from. *)
Confirming(sw, bar, n) ==
  {s \in sw.search : \E c \in sw.candidate[s] :
     /\ c.bar < n
     /\ IF s = "HIGH" THEN bar.close * Unit <= c.price * Unit - c.threshold
        ELSE bar.close * Unit >= c.price * Unit + c.threshold}

(* The mistake of searching the next extreme only from the confirming bar. *)
ConfirmForgetting(sw, side, bar, n, atr) ==
  LET c == The(sw.candidate[side])
      fresh == [s \in Sides |-> {Extreme(s, bar, n, atr)}]
  IN [confirmed |-> Append(sw.confirmed, [index |-> Len(sw.confirmed) + 1, side |-> side,
                             price |-> c.price, event |-> c.bar, detection |-> n, atr |-> c.atr]),
      search |-> {Other(side)},
      candidate |-> [s \in Sides |-> IF s = side THEN {} ELSE fresh[s]],
      opposite |-> [s \in Sides |-> IF s = side THEN fresh[s] ELSE {}]]

(* _confirm: the extreme tracked since the candidate is the next one searched. *)
Confirm(sw, side, bar, n, atr) ==
  LET c == The(sw.candidate[side])
      next == Other(side)
  IN [confirmed |-> Append(sw.confirmed, [index |-> Len(sw.confirmed) + 1, side |-> side,
                             price |-> c.price, event |-> c.bar, detection |-> n, atr |-> c.atr]),
      search |-> {next},
      candidate |-> [s \in Sides |-> IF s = side THEN {}
                                     ELSE IF sw.opposite[s] # {} THEN sw.opposite[s]
                                     ELSE {Extreme(s, bar, n, atr)}],
      opposite |-> [s \in Sides |-> IF s = side THEN {Extreme(s, bar, n, atr)} ELSE {}]]

(* _update_completed_bar: nothing is searched before the ATR is warm; a high  *)
(* is confirmed before a low.                                                 *)
SwingUpdate(sw, bar, n, atr) ==
  IF n < AtrWarmup THEN sw
  ELSE LET moved == Extremes(sw, bar, n, atr)
           sides == Confirming(moved, bar, n)
       IN IF sides = {} THEN moved
          ELSE Confirm(moved, IF "HIGH" \in sides THEN "HIGH" ELSE "LOW", bar, n, atr)

(* current_bar_swing_points: the confirmation of bar n, if it made one. *)
CurrentSwings(sw, n) ==
  IF sw.confirmed # <<>> /\ sw.confirmed[Len(sw.confirmed)].detection = n
  THEN {sw.confirmed[Len(sw.confirmed)]} ELSE {}

-----------------------------------------------------------------------------
(* swing_structure.py.  latest[s] is the latest classification of side s;     *)
(* classified and breaks are those of the current bar.                        *)
FreshStructure == [latest |-> [s \in Sides |-> {}], broken |-> {}, last |-> 0,
                   classified |-> {}, breaks |-> {}]

Tolerance(swing) == (EqualPercent * swing.atr) \div 100
Buffer(swing) == (BufferPercent * swing.atr) \div 100

(* _classify: against the previous swing of the side, within a tolerance. *)
Label(swing, previous) ==
  LET delta == (swing.price - The(previous).price) * Unit
      high == swing.side = "HIGH"
  IN CASE previous = {} -> "UNCLASSIFIED"
       [] previous # {} /\ delta > Tolerance(swing) -> IF high THEN "HH" ELSE "HL"
       [] previous # {} /\ delta < -Tolerance(swing) -> IF high THEN "LH" ELSE "LL"
       [] OTHER -> IF high THEN "EH" ELSE "EL"

Classified(st, swing) ==
  LET previous == {c.swing : c \in st.latest[swing.side]}
  IN [swing |-> swing, previous |-> previous, label |-> Label(swing, previous)]

(* The confirmation follows the last one classified and was made on bar n of  *)
(* an earlier extreme.                                                        *)
ValidSwing(swing, last, n) ==
  /\ swing.index = last + 1
  /\ swing.detection = n
  /\ swing.event \in 1 .. n - 1
  /\ swing.atr >= 0

(* The level a close must pass to break a swing. *)
BreakLevel(swing) ==
  IF swing.side = "HIGH" THEN swing.price * Unit + Buffer(swing)
  ELSE swing.price * Unit - Buffer(swing)

Breaks(latest, broken, bar, n) ==
  {s \in Sides \ broken : \E c \in latest[s] :
     /\ c.swing.detection # n
     /\ Beyond(s, bar.close * Unit, BreakLevel(c.swing))}

StructureUpdate(st, swings, bar, n) ==
  LET classified == {Classified(st, p) : p \in swings}
      latest == [s \in Sides |-> IF \E c \in classified : c.swing.side = s
                                 THEN classified ELSE st.latest[s]]
      whole == st.broken \ {c.swing.side : c \in classified}
      breaks == Breaks(latest, whole, bar, n)
  IN [latest |-> latest, broken |-> whole \cup breaks,
      last |-> Max({st.last} \cup {p.index : p \in swings}),
      classified |-> classified,
      breaks |-> {[side |-> s, swing |-> The(latest[s]).swing] : s \in breaks}]

(* overall_structure *)
Overall(st) ==
  LET label == [s \in Sides |-> {c.label : c \in st.latest[s]}]
  IN CASE \E s \in Sides : label[s] \in {{}, {"UNCLASSIFIED"}} -> "UNDEFINED"
       [] label = [s \in Sides |-> IF s = "HIGH" THEN {"HH"} ELSE {"HL"}] -> "BULLISH"
       [] label = [s \in Sides |-> IF s = "HIGH" THEN {"LH"} ELSE {"LL"}] -> "BEARISH"
       [] OTHER -> "MIXED"
=============================================================================
