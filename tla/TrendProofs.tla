------------------------------ MODULE TrendProofs -----------------------------
(***************************************************************************)
(* The trend legs of the market analysis against the bars since their      *)
(* swings, and the candidates that open in them against everything         *)
(* published since, for any stream of bars, any periods, percentages and   *)
(* gates.                                                                  *)
(***************************************************************************)
EXTENDS MarketAnalysisProofs

\* Each confirmed swing is on the other side of the one before it.
Alternates(S) == \A k \in 1..(Len(S) - 1) : S[k + 1].side = Other(S[k].side)

\* The classification of swing i, against the previous one of its side.
Previous(S, i) == IF i > 2 THEN {S[i - 2]} ELSE {}
ClassOf(S, i) == [swing |-> S[i], previous |-> Previous(S, i), label |-> Label(S[i], Previous(S, i))]

\* The structure keeps the last classification of each side.
StructureKeeps(st, S) ==
    /\ S = <<>> => \A s \in Sides : st.latest[s] = {}
    /\ Len(S) = 1 => st.latest[Other(S[1].side)] = {}
    /\ Len(S) >= 1 => st.latest[S[Len(S)].side] = {ClassOf(S, Len(S))}
    /\ Len(S) >= 2 => st.latest[Other(S[Len(S)].side)] = {ClassOf(S, Len(S) - 1)}

\* Swing i moves beyond the previous one of its side, in the direction d.
Gains(S, d, i) == i > 2 /\ Signed(d, S[i].price - S[i - 2].price) * Unit > Tolerance(S[i])
Corrects(S, d, i) == S[i].side = Backward(d) /\ Gains(S, d, i)

\* Swing i founds a leg of the direction d: it corrects, and the next extends.
FoundsOf(S, d, i) ==
    /\ Corrects(S, d, i)
    /\ i < Len(S)
    /\ Gains(S, d, i + 1)
    /\ Signed(d, S[i + 1].price - S[i].price) > 0

FoundedBy(S, d, swing) ==
    swing.index \in DOMAIN S /\ S[swing.index] = swing /\ FoundsOf(S, d, swing.index)

\* x is the most extreme price of a side over the bars from..to.
Tops(s, b, from, to, x) ==
    /\ \E j \in from..to : x = PriceOf(s, b[j])
    /\ \A j \in from..to : ~Beyond(s, PriceOf(s, b[j]), x)

\* What an active leg is, after bar n.
LegKeeps(leg, S, b, n) ==
    /\ FoundedBy(S, leg.direction, leg.initial) /\ FoundedBy(S, leg.direction, leg.protected)
    /\ Signed(leg.direction, leg.protected.price - leg.initial.price) >= 0
    /\ leg.since \in 1..n /\ leg.established \in 1..n
    /\ \A j \in leg.since..n : ~ClosesThrough(leg.direction, b[j], leg.protected)
    /\ Tops(Forward(leg.direction), b, S[leg.initial.index + 1].event, n, leg.extreme)
    /\ leg.retracement = Signed(leg.direction, leg.extreme - b[n].close)

\* A bar passes both gates of the qualification.
PassesAt(leg, b, j) ==
    /\ j - leg.initial.event + 1 >= MinDuration
    /\ Signed(leg.direction, b[j].close - leg.initial.price) >= MinMovement

QualifiedAt(a, leg, b, n) == a.qualified <=> \E j \in leg.established..n : PassesAt(leg, b, j)
Qualified(q, lg, b, n) == \A leg \in lg.active : \A a \in q.active : QualifiedAt(a, leg, b, n)

\* What waits is the classification of the last swing, and protects better than
\* the active leg's own level.
Awaited(c, lg, S) ==
    /\ S # <<>> /\ c = ClassOf(S, Len(S))
    /\ \A leg \in lg.active : /\ c.label = Corrective[leg.direction]
                              /\ Signed(leg.direction, c.swing.price - leg.protected.price) > 0
PendingKeeps(lg, S) == \A c \in lg.pending : Awaited(c, lg, S)

\* No leg is said to have ended on the bars from..to.
EndedAt(refs, j) == \E r \in refs : r[2].type = "TREND_LEG_ENDED" /\ r[2].detection = j
NoneEnded(refs, from, to) == \A j \in from..to : ~EndedAt(refs, j)

\* A corrective last swing waits, unless a leg is active or one has ended since.
Waits(lg, S, refs, n) ==
    \A d \in Directions :
      /\ S # <<>> /\ Corrects(S, d, Len(S)) /\ NoneEnded(refs, S[Len(S)].detection, n)
      => lg.active # {} \/ lg.pending # {}

\* The extreme that follows it establishes a leg.
Establishes(lg, S, b, refs, n) ==
    \A d \in Directions : \A i \in DOMAIN S :
      /\ FoundsOf(S, d, i) /\ S[i + 1].detection = n
      /\ NoneEnded(refs, S[i].detection, n) /\ ~ClosesThrough(d, b[n], S[i])
      => lg.active # {}

LegsHold(b, n, m, refs) ==
    /\ StructureKeeps(m.structure, m.swings.confirmed)
    /\ \A leg \in m.legs.active : LegKeeps(leg, m.swings.confirmed, b, n)
    /\ Qualified(m.qualification, m.legs, b, n)
    /\ PendingKeeps(m.legs, m.swings.confirmed)
    /\ Waits(m.legs, m.swings.confirmed, refs, n)
    /\ Establishes(m.legs, m.swings.confirmed, b, refs, n)

LEMMA UnitsAreNat ==
    Unit \in Nat \ {0} /\ EqualPercent \in Nat /\ BufferPercent \in Nat
BY IndicatorAssumption, SwingAssumption

LEMMA ToleranceIsNat ==
    ASSUME NEW swing \in SwingType PROVE Tolerance(swing) \in Nat
<1>1. swing.atr \in Nat
  BY DEF SwingType
<1>2. EqualPercent * swing.atr \in Nat
  BY <1>1, UnitsAreNat, ProductIsNat
<1> QED BY <1>2, QuotientIsNat DEF Tolerance

LEMMA DirectionSides ==
    \A d \in Directions : /\ Forward(d) \in Sides /\ Backward(d) \in Sides
                          /\ Other(Forward(d)) = Backward(d) /\ Other(Backward(d)) = Forward(d)
                          /\ Backward(d) # Forward(d)
BY DEF Directions, Forward, Backward, Sides, Other

\* A label names the side of the swing and how it stands to the previous one.
LEMMA LabelSays ==
    ASSUME NEW S \in Seq(SwingType), NEW i \in DOMAIN S, NEW d \in Directions
    PROVE  /\ ClassOf(S, i).label = Corrective[d] <=> Corrects(S, d, i)
           /\ ClassOf(S, i).label = Extending[d] <=> S[i].side = Forward(d) /\ Gains(S, d, i)
<1> DEFINE previous == Previous(S, i)
           p == S[i]
           q == S[i - 2]
           delta == (p.price - q.price) * Unit
           tolerance == Tolerance(p)
<1>1. ClassOf(S, i).label = Label(p, previous)
  BY DEF ClassOf
<1>2. p \in SwingType /\ p.side \in Sides /\ p.price \in Int /\ tolerance \in Nat
  <2>1. p \in SwingType
    OBVIOUS
  <2>2. tolerance \in Nat
    BY <2>1, ToleranceIsNat
  <2> QED BY <2>1, <2>2 DEF SwingType
<1>3. CASE ~(i > 2)
  <2>1. previous = {}
    BY <1>3 DEF Previous
  <2>2. Label(p, previous) = "UNCLASSIFIED"
    BY <2>1 DEF Label
  <2> QED BY <1>1, <1>3, <2>2 DEF Corrects, Gains, Corrective, Extending, Directions
<1>4. CASE i > 2
  <2>1. previous = {q} /\ previous # {}
    BY <1>4 DEF Previous
  <2>2. The(previous) = q
    BY <2>1, TheOne
  <2>3. q \in SwingType /\ q.price \in Int
    <3>1. i - 2 \in DOMAIN S
      BY <1>4
    <3>2. q \in SwingType
      BY <3>1
    <3> QED BY <3>2 DEF SwingType
  <2>4. Unit \in Nat \ {0}
    BY UnitsAreNat
  <2> DEFINE gap == p.price - q.price
  <2>5. gap \in Int /\ delta \in Int /\ delta = gap * Unit /\ (-gap) * Unit = -delta
    BY <1>2, <2>3, <2>4
  <2>6. q.price - p.price = -gap
    BY <1>2, <2>3
  <2>7. Label(p, previous) =
          CASE delta > tolerance -> IF p.side = "HIGH" THEN "HH" ELSE "HL"
            [] ~(delta > tolerance) /\ delta < -tolerance -> IF p.side = "HIGH" THEN "LH" ELSE "LL"
            [] OTHER -> IF p.side = "HIGH" THEN "EH" ELSE "EL"
    <3>1. Label(p, previous) =
            CASE delta > tolerance -> IF p.side = "HIGH" THEN "HH" ELSE "HL"
              [] delta < -tolerance -> IF p.side = "HIGH" THEN "LH" ELSE "LL"
              [] OTHER -> IF p.side = "HIGH" THEN "EH" ELSE "EL"
      BY <2>1, <2>2 DEF Label
    <3>2. ~(delta > tolerance /\ delta < -tolerance)
      BY <1>2, <2>5
    <3> HIDE DEF delta, tolerance, previous
    <3> QED BY <3>1, <3>2
  <2>8. Gains(S, "UP", i) <=> delta > tolerance
    BY <1>4 DEF Gains, Signed
  <2>9. Gains(S, "DOWN", i) <=> delta < -tolerance
    <3>1. Gains(S, "DOWN", i) <=> (-gap) * Unit > tolerance
      BY <1>4 DEF Gains, Signed
    <3> HIDE DEF delta, tolerance, gap
    <3> QED BY <1>2, <2>5, <3>1
  <2>10. ~(delta > tolerance /\ delta < -tolerance)
    BY <1>2, <2>5
  <2> HIDE DEF delta, tolerance, previous, gap
  <2>11. CASE d = "UP"
    BY <1>1, <1>2, <2>7, <2>8, <2>10, <2>11 DEF Corrects, Corrective, Extending, Forward, Backward, Other, Sides
  <2>12. CASE d = "DOWN"
    BY <1>1, <1>2, <2>7, <2>9, <2>10, <2>12 DEF Corrects, Corrective, Extending, Forward, Backward, Other, Sides
  <2> QED BY <2>11, <2>12 DEF Directions
<1> QED BY <1>3, <1>4

\* The structure that classifies a swing keeps the last of each side.
NextSide(S, p) == S # <<>> => p.side = Other(S[Len(S)].side)
StructureMade(new, S, p) ==
    StructureKeeps(new, Append(S, p)) /\ new.classified = {ClassOf(Append(S, p), Len(S) + 1)}

LEMMA StructureGoesOn ==
    ASSUME NEW S \in Seq(SwingType), NEW st, NEW bar, NEW n, StructureKeeps(st, S),
           NEW p \in SwingType, NextSide(S, p)
    PROVE  StructureMade(StructureUpdate(st, {p}, bar, n), S, p)
<1> DEFINE T == Append(S, p)
           L == Len(S)
           new == StructureUpdate(st, {p}, bar, n)
           c == Classified(st, p)
           classified == {Classified(st, x) : x \in {p}}
           latest == [s \in Sides |-> IF \E x \in classified : x.swing.side = s
                                      THEN classified ELSE st.latest[s]]
<1>1. new.latest = latest /\ new.classified = classified
  BY DEF StructureUpdate
<1>2. classified = {c} /\ c.swing = p
  BY DEF Classified
<1>3. L \in Nat /\ Len(T) = L + 1 /\ T[L + 1] = p /\ \A k \in 1..L : T[k] = S[k]
  OBVIOUS
<1>0. L \in Nat /\ Len(T) = L + 1
  OBVIOUS
<1>4. p.side \in Sides /\ Other(p.side) \in Sides /\ Other(p.side) # p.side /\ Other(Other(p.side)) = p.side
  BY DEF SwingType, Sides, Other
<1>5. new.latest[p.side] = {c} /\ new.latest[Other(p.side)] = st.latest[Other(p.side)]
  BY <1>1, <1>2, <1>4
<1>6. L >= 1 => S[L] \in SwingType /\ S[L].side \in Sides /\ p.side = Other(S[L].side) /\ Other(p.side) = S[L].side
  <2>1. ASSUME L >= 1 PROVE S[L] \in SwingType /\ S[L].side \in Sides /\ p.side = Other(S[L].side)
    <3>1. S # <<>> /\ S[L] \in SwingType
      BY <2>1
    <3> QED BY <3>1 DEF SwingType, NextSide
  <2>2. \A s \in Sides : Other(Other(s)) = s
    BY DEF Sides, Other
  <2> QED BY <2>1, <2>2
<1> HIDE DEF T, new, c, classified, latest
<1>7. {x.swing : x \in st.latest[p.side]} = Previous(T, L + 1)
  <2>1. CASE L = 0
    <3>1. st.latest[p.side] = {}
      BY <1>4, <2>1 DEF StructureKeeps
    <3> QED BY <1>3, <2>1, <3>1 DEF Previous
  <2>2. CASE L = 1
    <3>1. st.latest[p.side] = {}
      BY <1>6, <2>2 DEF StructureKeeps
    <3> QED BY <1>3, <2>2, <3>1 DEF Previous
  <2>3. CASE L >= 2
    <3>1. st.latest[p.side] = {ClassOf(S, L - 1)}
      BY <1>6, <2>3 DEF StructureKeeps
    <3>2. {x.swing : x \in st.latest[p.side]} = {S[L - 1]}
      BY <3>1 DEF ClassOf
    <3>3. L + 1 > 2 /\ (L + 1) - 2 = L - 1 /\ T[L - 1] = S[L - 1]
      BY <1>3, <2>3
    <3> QED BY <3>2, <3>3 DEF Previous
  <2>4. L = 0 \/ L = 1 \/ L >= 2
    <3> HIDE DEF L
    <3> QED BY <1>0
  <2> QED BY <2>1, <2>2, <2>3, <2>4
<1>8. c = ClassOf(T, L + 1)
  BY <1>3, <1>7 DEF c, Classified, ClassOf
<1>9. L >= 1 => ClassOf(T, L) = ClassOf(S, L)
  <2>1. ASSUME L >= 1 PROVE ClassOf(T, L) = ClassOf(S, L)
    <3>1. T[L] = S[L]
      BY <1>3, <2>1
    <3>2. L > 2 => T[L - 2] = S[L - 2]
      BY <1>3
    <3>3. Previous(T, L) = Previous(S, L)
      BY <3>2 DEF Previous
    <3> QED BY <3>1, <3>3 DEF ClassOf
  <2> QED BY <2>1
<1>10. StructureKeeps(new, T)
  <2>1. T # <<>> /\ Len(T) >= 1 /\ T[Len(T)].side = p.side
    BY <1>3 DEF T
  <2>2. new.latest[T[Len(T)].side] = {ClassOf(T, Len(T))}
    BY <1>3, <1>5, <1>8, <2>1
  <2>3. ASSUME Len(T) = 1 PROVE new.latest[Other(T[1].side)] = {}
    <3>1. L = 0 /\ S = <<>>
      <4>1. L = 0
        <5> HIDE DEF L
        <5>1. L + 1 = 1
          BY <1>0, <2>3, Zenon
        <5> QED BY <1>0, <5>1
      <4> QED BY <4>1
    <3> QED BY <1>3, <1>4, <1>5, <3>1 DEF StructureKeeps
  <2>4. ASSUME Len(T) >= 2 PROVE new.latest[Other(T[Len(T)].side)] = {ClassOf(T, Len(T) - 1)}
    <3>1. L >= 1 /\ Len(T) - 1 = L
      BY <1>3, <2>4
    <3>2. st.latest[S[L].side] = {ClassOf(S, L)}
      BY <3>1 DEF StructureKeeps
    <3> QED BY <1>5, <1>6, <1>9, <2>1, <3>1, <3>2
  <2> QED BY <2>1, <2>2, <2>3, <2>4 DEF StructureKeeps
<1>11. new.classified = {ClassOf(T, L + 1)}
  BY <1>1, <1>2, <1>8
<1> QED BY <1>10, <1>11 DEF new, T, StructureMade

\* The running extremes after a bar of a warm ATR.
LEMMA MovedTracks ==
    ASSUME NEW n \in Nat \ {0}, NEW bs, Prices(bs, n), NEW atr, AtrIs(atr, n),
           NEW sw, SwingTypes(sw, n - 1), SwingState(sw, bs, atr, n - 1), ~(n < AtrWarmup)
    PROVE  /\ SwingTypes(Extremes(sw, bs[n], n, atr[n]), n)
           /\ Extremes(sw, bs[n], n, atr[n]).confirmed = sw.confirmed
           /\ Tracks(Extremes(sw, bs[n], n, atr[n]), bs, atr, n)
<1>1. bs[n] \in Bar /\ atr[n] \in Nat /\ AtrWarmup \in Nat \ {0}
  BY WarmupIsNat DEF Prices, AtrIs
<1>2. SwingTypes(Extremes(sw, bs[n], n, atr[n]), n) /\ Extremes(sw, bs[n], n, atr[n]).confirmed = sw.confirmed
  BY <1>1, ExtremesTyped
<1>3. CASE n = AtrWarmup
  <2>1. sw = FreshSwings
    BY <1>1, <1>3 DEF SwingState
  <2> QED BY <1>2, <1>3, <2>1, ExtremesBegin
<1>4. CASE n # AtrWarmup
  <2>1. AtrWarmup < n /\ ~(n - 1 < AtrWarmup)
    BY <1>1, <1>4
  <2>2. Tracks(sw, bs, atr, n - 1)
    BY <2>1 DEF SwingState
  <2> QED BY <1>2, <2>1, <2>2, ExtremesTrack
<1> QED BY <1>3, <1>4

\* The swing a bar confirms is the most extreme of the bars since its own.
LEMMA SwingIsExtreme ==
    ASSUME NEW n \in Nat \ {0}, NEW bs, Prices(bs, n), NEW atr, AtrIs(atr, n),
           NEW sw, SwingTypes(sw, n - 1), SwingState(sw, bs, atr, n - 1), NEW p,
           SwingUpdate(sw, bs[n], n, atr[n]).confirmed = Append(sw.confirmed, p)
    PROVE  p.event \in Nat /\ Tops(p.side, bs, p.event, n, p.price)
<1> DEFINE bar == bs[n]
           new == SwingUpdate(sw, bar, n, atr[n])
           moved == Extremes(sw, bar, n, atr[n])
           sides == Confirming(moved, bar, n)
           S == sw.confirmed
           side == IF "HIGH" \in sides THEN "HIGH" ELSE "LOW"
<1>1. S \in Seq(SwingType) /\ Append(S, p) # S /\ AtrWarmup \in Nat \ {0}
  BY WarmupIsNat DEF SwingTypes, Confirmed
<1>2. ~(n < AtrWarmup)
  BY <1>1 DEF SwingUpdate
<1>3. SwingTypes(moved, n) /\ moved.confirmed = S /\ Tracks(moved, bs, atr, n)
  BY <1>2, MovedTracks
<1>4. sides # {}
  BY <1>1, <1>2, <1>3 DEF SwingUpdate
<1>5. sides \subseteq moved.search /\ moved.search \subseteq Sides
  BY <1>3 DEF Confirming, SwingTypes
<1>6. side \in moved.search /\ side \in Sides
  BY <1>4, <1>5 DEF Sides
<1>7. new = Confirm(moved, side, bar, n, atr[n])
  BY <1>2, <1>4 DEF SwingUpdate
<1>0. new.confirmed = Append(S, p)
  OBVIOUS
<1> HIDE DEF new, moved, sides, side
<1>8. Append(S, p) = Append(S, SwingOf(moved, side, n))
  <2>1. ConfirmMakes(moved, new, side, bar, n, atr[n])
    BY <1>6, <1>7, ConfirmMade
  <2> QED BY <1>0, <1>3, <2>1 DEF ConfirmMakes
<1>9. p = SwingOf(moved, side, n)
  <2> DEFINE q == SwingOf(moved, side, n)
  <2> HIDE DEF q
  <2>1. Append(S, p) = Append(S, q)
    BY <1>8 DEF q
  <2>2. Append(S, p)[Len(S) + 1] = p /\ Append(S, q)[Len(S) + 1] = q
    BY <1>1
  <2>3. p = q
    BY <2>1, <2>2
  <2> QED BY <2>3 DEF q
<1>10. PICK c \in ExtremeType : /\ moved.candidate[side] = {c}
                                /\ Holds(bs, atr, c, side, FromOf(S, Len(S)), n)
  BY <1>3, <1>6 DEF Tracks
<1>11. The(moved.candidate[side]) = c
  BY <1>10, TheOne
<1>12. p.event = c.bar /\ p.price = c.price /\ p.side = side
  BY <1>9, <1>11 DEF SwingOf
<1> DEFINE from == FromOf(S, Len(S))
<1>13. from \in Nat
  <2>1. Confirmed(S, n) /\ Len(S) \in 0..Len(S)
    BY <1>3 DEF SwingTypes, Confirmed
  <2> QED BY <2>1, FromBeforeAfter
<1> HIDE DEF from
<1>14. /\ c.bar \in from..n /\ c.price = PriceOf(side, bs[c.bar])
       /\ \A j \in from..n : ~Beyond(side, PriceOf(side, bs[j]), c.price)
  BY <1>10 DEF Holds, from
<1>15. c.bar \in Nat /\ c.bar \in c.bar..n /\ \A j \in c.bar..n : j \in from..n
  BY <1>13, <1>14
<1> QED BY <1>12, <1>14, <1>15 DEF Tops

\* Swings confirmed before are confirmed after.
LEMMA SwingsAlternate ==
    ASSUME NEW n \in Nat, NEW bs, NEW atr, NEW S \in Seq(SwingType), SwingsOf(bs, atr, S, n)
    PROVE  Alternates(S)
<1>1. ASSUME NEW k \in 1..(Len(S) - 1) PROVE S[k + 1].side = Other(S[k].side)
  <2>1. k \in 0..(Len(S) - 1) /\ k # 0
    OBVIOUS
  <2>2. IsTurn(bs, atr, S, k, n)
    BY <2>1 DEF SwingsOf
  <2> QED BY <2>1, <2>2 DEF IsTurn, SearchedOf
<1> QED BY <1>1 DEF Alternates

\* The extreme of a leg, one bar later.
Farther(d, x, bar) == IF d = "UP" THEN Max({x, bar.high}) ELSE Min({x, bar.low})

LEMMA FartherIs ==
    ASSUME NEW d \in Directions, NEW x \in Int, NEW bar \in Bar
    PROVE  /\ Farther(d, x, bar) \in Int
           /\ Farther(d, x, bar) = IF Beyond(Forward(d), PriceOf(Forward(d), bar), x)
                                   THEN PriceOf(Forward(d), bar) ELSE x
<1>1. bar.high \in Int /\ bar.low \in Int
  BY DEF Bar
<1>2. CASE d = "UP"
  <2>1. Max({x, bar.high}) = IF x <= bar.high THEN bar.high ELSE x
    BY <1>1, MaxOfTwo
  <2>2. Forward(d) = "HIGH" /\ PriceOf(Forward(d), bar) = bar.high
    BY <1>2 DEF Forward, PriceOf
  <2>3. Beyond(Forward(d), PriceOf(Forward(d), bar), x) <=> bar.high > x
    BY <2>2 DEF Beyond
  <2>4. Farther(d, x, bar) = IF x <= bar.high THEN bar.high ELSE x
    BY <1>2, <2>1 DEF Farther
  <2> QED BY <1>1, <2>2, <2>3, <2>4
<1>3. CASE d = "DOWN"
  <2>1. Min({x, bar.low}) = IF x <= bar.low THEN x ELSE bar.low
    BY <1>1, MinOfTwo
  <2>2. Forward(d) = "LOW" /\ PriceOf(Forward(d), bar) = bar.low
    BY <1>3 DEF Forward, PriceOf
  <2>3. Beyond(Forward(d), PriceOf(Forward(d), bar), x) <=> bar.low < x
    BY <2>2 DEF Beyond
  <2>4. Farther(d, x, bar) = IF x <= bar.low THEN x ELSE bar.low
    BY <1>3, <2>1 DEF Farther
  <2> QED BY <1>1, <2>2, <2>3, <2>4
<1> QED BY <1>2, <1>3 DEF Directions

\* What a bar changes of a leg, and what it leaves.
LEMMA MeasuredFields ==
    ASSUME NEW leg \in LegType, NEW bar, NEW n
    PROVE  /\ Measured(leg, bar, n).index = leg.index
           /\ Measured(leg, bar, n).direction = leg.direction
           /\ Measured(leg, bar, n).initial = leg.initial
           /\ Measured(leg, bar, n).protected = leg.protected
           /\ Measured(leg, bar, n).directional = leg.directional
           /\ Measured(leg, bar, n).established = leg.established
           /\ Measured(leg, bar, n).since = leg.since
           /\ Measured(leg, bar, n).duration = n - leg.initial.event + 1
           /\ Measured(leg, bar, n).movement = Signed(leg.direction, bar.close - leg.initial.price)
           /\ Measured(leg, bar, n).extreme = Farther(leg.direction, leg.extreme, bar)
           /\ Measured(leg, bar, n).retracement =
                Signed(leg.direction, Farther(leg.direction, leg.extreme, bar) - bar.close)
<1> DEFINE best == Farther(leg.direction, leg.extreme, bar)
           movement == Signed(leg.direction, bar.close - leg.initial.price)
           retracement == Signed(leg.direction, best - bar.close)
           duration == n - leg.initial.event + 1
           new == Measured(leg, bar, n)
<1>1. new = [leg EXCEPT !.now = n, !.duration = duration, !.movement = movement,
               !.extreme = best, !.retracement = retracement]
  BY DEF Measured, Farther
<1> HIDE DEF best, movement, retracement, duration, new
<1>2. /\ new.index = leg.index /\ new.direction = leg.direction /\ new.initial = leg.initial
      /\ new.protected = leg.protected /\ new.directional = leg.directional
      /\ new.established = leg.established /\ new.since = leg.since /\ new.duration = duration
      /\ new.movement = movement /\ new.extreme = best /\ new.retracement = retracement
  BY <1>1 DEF LegType
<1> QED BY <1>2 DEF new, duration, movement, best, retracement

LEMMA TopsGoOn ==
    ASSUME NEW d \in Directions, NEW n \in Nat \ {0}, NEW b, NEW from \in Nat \ {0}, from <= n, Prices(b, n),
           NEW x \in Int, Tops(Forward(d), b, from, n - 1, x)
    PROVE  Tops(Forward(d), b, from, n, Farther(d, x, b[n]))
<1> DEFINE s == Forward(d)
           y == Farther(d, x, b[n])
           p(j) == PriceOf(s, b[j])
<1>1. s \in Sides
  BY DirectionSides
<1>2. \A j \in from..n : p(j) \in Int
  BY <1>1, PriceIsInt DEF Prices
<1>3. y \in Int /\ y = IF Beyond(s, p(n), x) THEN p(n) ELSE x
  <2>1. b[n] \in Bar
    BY DEF Prices
  <2> QED BY <2>1, FartherIs
<1>4. /\ \E j \in from..(n - 1) : x = p(j)
      /\ \A j \in from..(n - 1) : ~Beyond(s, p(j), x)
  BY DEF Tops
<1> HIDE DEF y, p, s
<1>5. \E j \in from..n : y = p(j)
  <2>1. CASE Beyond(s, p(n), x)
    <3>1. n \in from..n
      OBVIOUS
    <3> QED BY <1>3, <2>1, <3>1
  <2>2. CASE ~Beyond(s, p(n), x)
    <3>1. PICK j \in from..(n - 1) : x = p(j)
      BY <1>4
    <3>2. j \in from..n
      OBVIOUS
    <3> QED BY <1>3, <2>2, <3>1, <3>2
  <2> QED BY <2>1, <2>2
<1>6. ASSUME NEW j \in from..n PROVE ~Beyond(s, p(j), y)
  <2>1. p(j) \in Int /\ p(n) \in Int
    BY <1>2
  <2>2. CASE j = n
    BY <1>3, <2>1, <2>2 DEF Beyond
  <2>3. CASE j # n
    <3>1. j \in from..(n - 1)
      BY <2>3
    <3>2. ~Beyond(s, p(j), x)
      BY <1>4, <3>1
    <3> QED BY <1>3, <2>1, <3>2 DEF Beyond
  <2> QED BY <2>2, <2>3
<1> QED BY <1>5, <1>6 DEF Tops, y, p, s

\* A bar among those topped moves nothing.
LEMMA TopsStay ==
    ASSUME NEW d \in Directions, NEW n \in Nat \ {0}, NEW b, NEW from \in Nat, from <= n, b[n] \in Bar,
           NEW x \in Int, Tops(Forward(d), b, from, n, x)
    PROVE  Farther(d, x, b[n]) = x
<1>1. n \in from..n
  OBVIOUS
<1>2. ~Beyond(Forward(d), PriceOf(Forward(d), b[n]), x)
  BY <1>1 DEF Tops
<1> QED BY <1>2, FartherIs

\* The most extreme price is the maximum of the highs, or the minimum of the lows.
BestOf(d, b, from, n) ==
    IF d = "UP" THEN Max({b[j].high : j \in from..n}) ELSE Min({b[j].low : j \in from..n})

LEMMA TopsIs ==
    ASSUME NEW d \in Directions, NEW n \in Nat, NEW b, NEW from \in Nat \ {0}, Prices(b, n),
           NEW x \in Int, Tops(Forward(d), b, from, n, x)
    PROVE  x = BestOf(d, b, from, n)
<1> SUFFICES x = IF d = "UP" THEN Max({b[j].high : j \in from..n}) ELSE Min({b[j].low : j \in from..n})
  BY DEF BestOf
<1>1. \A j \in from..n : b[j].high \in Int /\ b[j].low \in Int
  BY DEF Prices, Bar
<1>2. CASE d = "UP"
  <2> DEFINE H == {b[j].high : j \in from..n}
  <2>1. /\ \E j \in from..n : x = b[j].high
        /\ \A j \in from..n : ~(b[j].high > x)
    BY <1>2 DEF Tops, Forward, PriceOf, Beyond
  <2>2. x \in H /\ \A y \in H : y \in Int /\ y <= x
    BY <1>1, <2>1
  <2> HIDE DEF H
  <2>3. Max(H) \in H /\ \A y \in H : Max(H) >= y
    BY <2>2 DEF Max
  <2>4. Max(H) = x
    <3> DEFINE m == Max(H)
    <3> HIDE DEF m
    <3>1. m \in H /\ \A y \in H : m >= y
      BY <2>3 DEF m
    <3>2. m \in Int /\ x \in Int /\ m <= x
      BY <2>2, <3>1
    <3>3. m >= x
      BY <2>2, <3>1
    <3>4. m = x
      BY <3>2, <3>3
    <3> QED BY <3>4 DEF m
  <2> QED BY <1>2, <2>4 DEF H
<1>3. CASE d = "DOWN"
  <2> DEFINE W == {b[j].low : j \in from..n}
  <2>1. /\ \E j \in from..n : x = b[j].low
        /\ \A j \in from..n : ~(b[j].low < x)
    BY <1>3 DEF Tops, Forward, PriceOf, Beyond
  <2>2. x \in W /\ \A y \in W : y \in Int /\ x <= y
    BY <1>1, <2>1
  <2> HIDE DEF W
  <2>3. Min(W) \in W /\ \A y \in W : Min(W) <= y
    BY <2>2 DEF Min
  <2>4. Min(W) = x
    <3> DEFINE m == Min(W)
    <3> HIDE DEF m
    <3>1. m \in W /\ \A y \in W : m <= y
      BY <2>3 DEF m
    <3>2. m \in Int /\ x \in Int /\ x <= m
      BY <2>2, <3>1
    <3>3. m <= x
      BY <2>2, <3>1
    <3>4. m = x
      BY <3>2, <3>3
    <3> QED BY <3>4 DEF m
  <2> QED BY <1>3, <2>4 DEF W
<1> QED BY <1>2, <1>3 DEF Directions

\* The swings S are the first of the swings T.
GoesOn(S, T) == Len(S) <= Len(T) /\ \A k \in 1..Len(S) : T[k] = S[k]

\* The bars b are the first n - 1 of the bars c.
Follows(b, c, n) == Prices(c, n) /\ \A j \in 1..(n - 1) : c[j] = b[j]

LEMMA FoundedGoesOn ==
    ASSUME NEW S \in Seq(SwingType), NEW T \in Seq(SwingType), GoesOn(S, T), NEW d, NEW swing \in SwingType,
           FoundedBy(S, d, swing)
    PROVE  /\ FoundedBy(T, d, swing)
           /\ swing.index + 1 \in 1..Len(S) /\ T[swing.index + 1] = S[swing.index + 1]
<1> DEFINE i == swing.index
           L == Len(S)
           M == Len(T)
<1>1. i \in Nat /\ L \in Nat /\ M \in Nat /\ L <= M
  BY DEF SwingType, GoesOn
<1>2. i > 2 /\ i < L
  BY DEF FoundedBy, FoundsOf, Corrects, Gains
<1> HIDE DEF i, L, M
<1>3. {i, i + 1, i - 1, i - 2} \subseteq 1..L /\ i \in 1..M /\ i + 1 > 2 /\ (i + 1) - 2 = i - 1 /\ i < M
  BY <1>1, <1>2
<1>4. T[i] = S[i] /\ T[i + 1] = S[i + 1] /\ T[i - 1] = S[i - 1] /\ T[i - 2] = S[i - 2]
  BY <1>3 DEF GoesOn, L
<1>5. FoundsOf(S, d, i) /\ S[i] = swing
  BY DEF FoundedBy, i
<1>6. FoundsOf(T, d, i)
  BY <1>3, <1>4, <1>5 DEF FoundsOf, Corrects, Gains, M
<1>7. i \in DOMAIN T
  BY <1>3 DEF M
<1> QED BY <1>3, <1>4, <1>5, <1>6, <1>7 DEF FoundedBy, i, L

\* A leg no close has broken is still what it was said to be, one bar later.
LEMMA LegGoesOn ==
    ASSUME NEW n \in Nat \ {0}, NEW S, Confirmed(S, n - 1), NEW T \in Seq(SwingType), GoesOn(S, T),
           NEW b, NEW c, Follows(b, c, n), NEW leg \in LegType, LegKeeps(leg, S, b, n - 1),
           ~Ends(Measured(leg, c[n], n), c[n], n)
    PROVE  LegKeeps(Measured(leg, c[n], n), T, c, n)
<1> DEFINE d == leg.direction
           new == Measured(leg, c[n], n)
           i == leg.initial.index
           from == S[i + 1].event
           x == leg.extreme
<1>1. /\ d \in Directions /\ leg.initial \in SwingType /\ leg.protected \in SwingType
      /\ x \in Int /\ S \in Seq(SwingType)
  BY DEF LegType, Confirmed
<1>2. /\ FoundedBy(S, d, leg.initial) /\ FoundedBy(S, d, leg.protected)
      /\ Signed(d, leg.protected.price - leg.initial.price) >= 0
      /\ leg.since \in 1..(n - 1) /\ leg.established \in 1..(n - 1)
      /\ \A j \in leg.since..(n - 1) : ~ClosesThrough(d, b[j], leg.protected)
      /\ Tops(Forward(d), b, from, n - 1, x)
  BY DEF LegKeeps
<1>3. /\ FoundedBy(T, d, leg.initial) /\ FoundedBy(T, d, leg.protected)
      /\ i + 1 \in 1..Len(S) /\ T[i + 1] = S[i + 1]
  BY <1>1, <1>2, FoundedGoesOn
<1>0. n - 1 \in Nat
  OBVIOUS
<1>4. from \in 1..(n - 1)
  <2>1. i + 1 \in DOMAIN S
    BY <1>1, <1>3
  <2> QED BY <1>0, <2>1, ConfirmedDates
<1>5. /\ new.direction = d /\ new.initial = leg.initial /\ new.protected = leg.protected
      /\ new.since = leg.since /\ new.established = leg.established
      /\ new.extreme = Farther(d, x, c[n])
      /\ new.retracement = Signed(d, Farther(d, x, c[n]) - c[n].close)
  BY MeasuredFields
<1>6. leg.protected.detection < n
  <2>1. leg.protected.index \in DOMAIN S /\ S[leg.protected.index] = leg.protected
    BY <1>2 DEF FoundedBy
  <2>2. leg.protected.detection \in 1..(n - 1)
    BY <1>0, <2>1, ConfirmedDates
  <2> QED BY <2>2
<1>7. ~ClosesThrough(d, c[n], leg.protected)
  BY <1>5, <1>6 DEF Ends
<1> HIDE DEF new, from, i, x, d
<1>8. ASSUME NEW j \in leg.since..n PROVE ~ClosesThrough(d, c[j], leg.protected)
  <2>1. CASE j = n
    BY <1>7, <2>1
  <2>2. CASE j # n
    <3>1. j \in leg.since..(n - 1) /\ j \in 1..(n - 1)
      BY <1>2, <2>2
    <3>2. c[j] = b[j]
      BY <3>1 DEF Follows
    <3> QED BY <1>2, <3>1, <3>2
  <2> QED BY <2>1, <2>2
<1>9. Tops(Forward(d), c, from, n, Farther(d, x, c[n]))
  <2>1. \A j \in from..(n - 1) : c[j] = b[j]
    BY <1>4 DEF Follows
  <2>2. Tops(Forward(d), c, from, n - 1, x)
    BY <1>2, <2>1 DEF Tops
  <2>3. from \in Nat \ {0} /\ from <= n /\ Prices(c, n)
    BY <1>4 DEF Follows
  <2> QED BY <1>1, <2>2, <2>3, TopsGoOn
<1>10. T[i + 1].event = from
  BY <1>3 DEF from
<1>11. leg.since \in 1..n /\ leg.established \in 1..n
  BY <1>2
<1> QED BY <1>2, <1>3, <1>5, <1>8, <1>9, <1>10, <1>11 DEF LegKeeps, new, i

\* The bar is one more on which the leg may have passed both gates.
LEMMA PassesGoOn ==
    ASSUME NEW n \in Nat \ {0}, NEW b, NEW c, Follows(b, c, n), NEW leg \in LegType, NEW new \in LegType,
           leg.established \in 1..(n - 1), new.established = leg.established, new.initial = leg.initial,
           new.direction = leg.direction, new.duration = n - leg.initial.event + 1,
           new.movement = Signed(leg.direction, c[n].close - leg.initial.price)
    PROVE  (\E j \in new.established..n : PassesAt(new, c, j)) <=>
             Passes(new) \/ \E j \in leg.established..(n - 1) : PassesAt(leg, b, j)
<1>1. PassesAt(new, c, n) <=> Passes(new)
  BY DEF PassesAt, Passes
<1>2. \A j \in leg.established..(n - 1) : PassesAt(new, c, j) <=> PassesAt(leg, b, j)
  <2>1. ASSUME NEW j \in leg.established..(n - 1) PROVE PassesAt(new, c, j) <=> PassesAt(leg, b, j)
    <3>1. c[j] = b[j]
      BY DEF Follows
    <3> QED BY <3>1 DEF PassesAt
  <2> QED BY <2>1
<1>3. \A j \in leg.established..n : j = n \/ j \in leg.established..(n - 1)
  OBVIOUS
<1>4. n \in leg.established..n /\ \A j \in leg.established..(n - 1) : j \in leg.established..n
  OBVIOUS
<1> QED BY <1>1, <1>2, <1>3, <1>4

\* A leg established on a bar has passed by then if it passes on it.
LEMMA PassesBegin ==
    ASSUME NEW n \in Nat \ {0}, NEW c, NEW leg, leg.established = n,
           leg.duration = n - leg.initial.event + 1,
           leg.movement = Signed(leg.direction, c[n].close - leg.initial.price)
    PROVE  (\E j \in leg.established..n : PassesAt(leg, c, j)) <=> Passes(leg)
<1>1. PassesAt(leg, c, n) <=> Passes(leg)
  BY DEF PassesAt, Passes
<1>2. \A j \in n..n : j = n
  OBVIOUS
<1>3. n \in n..n
  OBVIOUS
<1> QED BY <1>1, <1>2, <1>3

\* The extreme that completes what waits in a direction.
CompletesWith(w, d, c, bar, n) ==
    /\ Corrective[d] = w.label
    /\ c.label = Extending[d]
    /\ c.swing.detection > w.swing.detection
    /\ Signed(d, c.swing.price - w.swing.price) > 0
    /\ ~(w.swing.detection < n /\ ClosesThrough(d, bar, w.swing))

\* A leg as it is established, before the bar measures it.
Seed(k, d, p, q, x, n) ==
    [index |-> k, direction |-> d, initial |-> p, protected |-> p, directional |-> q,
     established |-> n, since |-> n, now |-> n, extreme |-> x, duration |-> 0, movement |-> 0,
     retracement |-> 0]
Founded(k, d, w, c, bar, n) ==
    Measured(Seed(k, d, w.swing, c.swing, Farther(d, c.swing.price, bar), n), bar, n)
AdvancedTo(leg, w, c, n) == [leg EXCEPT !.protected = w.swing, !.directional = c.swing, !.since = n]

Kept(lg, new) == new.active = lg.active /\ new.transitions = lg.transitions
Begins(new, kind, leg) ==
    new.active = {leg} /\ new.pending = {} /\ new.transitions = <<[type |-> kind, leg |-> leg]>>

\* What the structure of a bar makes of the legs.
ProgressMakes(lg, new, c, bar, n) ==
    \/ c.label \in {"HL", "LH"} /\ Kept(lg, new) /\ new.pending = PendingAfter(lg, c)
    \/ /\ c.label \notin {"HL", "LH"} /\ Kept(lg, new) /\ new.pending = {}
       /\ \A w \in lg.pending : \A d \in Directions : ~CompletesWith(w, d, c, bar, n)
    \/ /\ lg.active = {}
       /\ \E w \in lg.pending : \E d \in Directions :
            /\ CompletesWith(w, d, c, bar, n)
            /\ Begins(new, "ESTABLISHED", Founded(lg.legs + 1, d, w, c, bar, n))
    \/ \E leg \in lg.active : \E w \in lg.pending : \E d \in Directions :
         /\ CompletesWith(w, d, c, bar, n)
         /\ Begins(new, "PROTECTION_ADVANCED", AdvancedTo(leg, w, c, n))

LEMMA CorrectiveIs ==
    ASSUME NEW d \in Directions, NEW label, Corrective[d] = label
    PROVE  (CHOOSE x \in Directions : Corrective[x] = label) = d
BY DEF Directions, Corrective

LEMMA ProgressMade ==
    ASSUME NEW j, NEW n, NEW lg, LegTypes(lg, j, n), NEW c, NEW bar, lg.transitions = <<>>
    PROVE  ProgressMakes(lg, Progress(lg, c, bar, n), c, bar, n)
<1> DEFINE new == Progress(lg, c, bar, n)
           p == The(lg.pending).swing
           d == CHOOSE x \in Directions : Corrective[x] = The(lg.pending).label
           leg0 == The(lg.active)
           advanced == [leg0 EXCEPT !.protected = p, !.directional = c.swing, !.since = n]
           extreme == IF d = "UP" THEN Max({c.swing.price, bar.high})
                      ELSE Min({c.swing.price, bar.low})
           seed == [index |-> lg.legs + 1, direction |-> d, initial |-> p, protected |-> p,
                    directional |-> c.swing, established |-> n, since |-> n, now |-> n,
                    extreme |-> extreme, duration |-> 0, movement |-> 0, retracement |-> 0]
           leg == IF lg.active = {} THEN Measured(seed, bar, n) ELSE advanced
           kind == IF lg.active = {} THEN "ESTABLISHED" ELSE "PROTECTION_ADVANCED"
           moves == Append(lg.transitions, [type |-> kind, leg |-> leg])
           waits == PendingAfter(lg, c)
<1>1. new = IF c.label \in {"HL", "LH"} THEN [lg EXCEPT !.pending = waits]
            ELSE IF ~Completes(lg, c, bar, n) THEN [lg EXCEPT !.pending = {}]
            ELSE [lg EXCEPT !.pending = {}, !.active = {leg}, !.legs = leg.index,
                     !.transitions = moves]
  BY DEF Progress
<1>2. {"active", "pending", "legs", "transitions"} \subseteq DOMAIN lg
  <2>1. lg = [active |-> lg.active, pending |-> lg.pending, segment |-> lg.segment,
             close |-> lg.close, ema |-> lg.ema, last |-> lg.last, legs |-> lg.legs,
             crosses |-> lg.crosses, transitions |-> lg.transitions]
    BY DEF LegTypes
  <2> QED BY <2>1
<1> HIDE DEF new, leg, kind, moves, waits
<1>3. CASE c.label \in {"HL", "LH"}
  <2>1. new.active = lg.active /\ new.transitions = lg.transitions /\ new.pending = waits
    BY <1>1, <1>2, <1>3
  <2> QED BY <1>3, <2>1 DEF ProgressMakes, Kept, new, waits
<1>4. Completes(lg, c, bar, n) <=> \E w \in lg.pending : \E e \in Directions : CompletesWith(w, e, c, bar, n)
  BY DEF Completes, CompletesWith
<1>5. CASE c.label \notin {"HL", "LH"} /\ ~Completes(lg, c, bar, n)
  <2>1. new.active = lg.active /\ new.transitions = lg.transitions /\ new.pending = {}
    BY <1>1, <1>2, <1>5
  <2> QED BY <1>4, <1>5, <2>1 DEF ProgressMakes, Kept, new
<1>6. CASE c.label \notin {"HL", "LH"} /\ Completes(lg, c, bar, n)
  <2>1. PICK w \in lg.pending : \E e \in Directions : CompletesWith(w, e, c, bar, n)
    BY <1>4, <1>6
  <2>2. PICK e \in Directions : CompletesWith(w, e, c, bar, n)
    BY <2>1
  <2>3. lg.pending = {w}
    BY <2>1 DEF LegTypes, Optional
  <2>4. The(lg.pending) = w
    BY <2>3, TheOne
  <2>5. p = w.swing /\ d = e
    BY <2>2, <2>4, CorrectiveIs DEF CompletesWith
  <2>6. moves = <<[type |-> kind, leg |-> leg]>>
    BY DEF moves
  <2>7. new.active = {leg} /\ new.transitions = moves /\ new.pending = {}
    BY <1>1, <1>2, <1>6
  <2>8. Begins(new, kind, leg)
    BY <2>6, <2>7 DEF Begins
  <2>9. CASE lg.active = {}
    <3>1. extreme = Farther(d, c.swing.price, bar)
      BY DEF Farther
    <3>2. seed = Seed(lg.legs + 1, d, p, c.swing, Farther(d, c.swing.price, bar), n)
      BY <3>1 DEF Seed
    <3>3. leg = Founded(lg.legs + 1, e, w, c, bar, n)
      <4>1. leg = Measured(seed, bar, n)
        BY <2>9 DEF leg
      <4> HIDE DEF seed, p, d
      <4> QED BY <2>5, <3>2, <4>1 DEF Founded
    <3>4. kind = "ESTABLISHED"
      BY <2>9 DEF kind
    <3> QED BY <2>2, <2>8, <2>9, <3>3, <3>4 DEF ProgressMakes, new
  <2>10. CASE lg.active # {}
    <3>1. PICK y \in lg.active : lg.active = {y}
      BY <2>10 DEF LegTypes, Optional
    <3>2. leg0 = y
      BY <3>1, TheOne
    <3>3. leg = AdvancedTo(y, w, c, n)
      <4>1. leg = advanced
        BY <2>10 DEF leg
      <4> QED BY <2>5, <3>2, <4>1 DEF AdvancedTo
    <3>4. kind = "PROTECTION_ADVANCED"
      BY <2>10 DEF kind
    <3> QED BY <2>2, <2>8, <3>1, <3>3, <3>4 DEF ProgressMakes, new
  <2> QED BY <2>9, <2>10
<1> QED BY <1>3, <1>5, <1>6

\* The extreme that completes what waits founds a leg by it.
LEMMA CompletionFounds ==
    ASSUME NEW n \in Nat \ {0}, NEW S, Confirmed(S, n - 1), S # <<>>, NEW p \in SwingType,
           NEW w, w = ClassOf(S, Len(S)), NEW c, c = ClassOf(Append(S, p), Len(S) + 1),
           NEW d \in Directions, NEW bar, CompletesWith(w, d, c, bar, n)
    PROVE  /\ FoundedBy(Append(S, p), d, w.swing)
           /\ w.swing \in SwingType /\ w.swing.index = Len(S)
           /\ ~ClosesThrough(d, bar, w.swing)
           /\ c.swing = p /\ p.side = Forward(d)
<1> DEFINE T == Append(S, p)
           L == Len(S)
<1>1. S \in Seq(SwingType) /\ L \in Nat \ {0} /\ T \in Seq(SwingType) /\ L \in DOMAIN S
  BY DEF Confirmed
<1>2. /\ Len(T) = L + 1 /\ T[L + 1] = p
      /\ \A k \in 1..L : T[k] = S[k]
  BY <1>1
<1>3. w.swing = S[L] /\ c.swing = p
  BY <1>2 DEF ClassOf
<1>4. w.swing \in SwingType /\ w.swing.index = L /\ w.swing.detection < n
  <2>1. n - 1 \in Nat
    OBVIOUS
  <2>2. S[L].detection \in 1..(n - 1)
    BY <1>1, <2>1, ConfirmedDates
  <2> QED BY <1>1, <1>3, <2>2 DEF Confirmed
<1>5. w.label = Corrective[d] /\ c.label = Extending[d]
  BY DEF CompletesWith
<1>6. Corrects(S, d, L)
  BY <1>1, <1>5, LabelSays
<1>7. p.side = Forward(d) /\ Gains(T, d, L + 1)
  <2>1. L + 1 \in DOMAIN T /\ T \in Seq(SwingType)
    BY <1>1, <1>2
  <2>2. c = ClassOf(T, L + 1)
    OBVIOUS
  <2> HIDE DEF T, L
  <2>3. ClassOf(T, L + 1).label = Extending[d]
    BY <1>5, <2>2
  <2>4. T[L + 1].side = Forward(d) /\ Gains(T, d, L + 1)
    BY <2>1, <2>3, LabelSays
  <2> QED BY <1>2, <2>4
<1>8. Corrects(T, d, L)
  <2>1. L > 2
    BY <1>6 DEF Corrects, Gains
  <2>2. T[L] = S[L] /\ T[L - 2] = S[L - 2]
    BY <1>1, <1>2, <2>1
  <2> HIDE DEF T, L
  <2> QED BY <1>6, <2>2 DEF Corrects, Gains
<1>9. Signed(d, T[L + 1].price - T[L].price) > 0
  <2>1. Signed(d, c.swing.price - w.swing.price) > 0
    BY DEF CompletesWith
  <2>2. T[L] = w.swing
    BY <1>1, <1>2, <1>3
  <2> QED BY <1>2, <1>3, <2>1, <2>2
<1>10. FoundsOf(T, d, L)
  <2> HIDE DEF T
  <2> QED BY <1>1, <1>2, <1>7, <1>8, <1>9 DEF FoundsOf
<1>11. FoundedBy(T, d, w.swing)
  <2>1. L \in DOMAIN T /\ T[L] = w.swing
    BY <1>1, <1>2, <1>3
  <2> HIDE DEF T
  <2> QED BY <1>4, <1>10, <2>1 DEF FoundedBy
<1>12. ~ClosesThrough(d, bar, w.swing)
  BY <1>4 DEF CompletesWith
<1> QED BY <1>3, <1>4, <1>7, <1>11, <1>12

\* Better and not worse add up.
LEMMA SignedAddsUp ==
    ASSUME NEW d, NEW x \in Int, NEW y \in Int, NEW z \in Int, Signed(d, x - y) > 0, Signed(d, y - z) >= 0
    PROVE  Signed(d, x - z) >= 0
BY DEF Signed

\* A leg whose protection advances is still what it is said to be.
LEMMA AdvancedKeeps ==
    ASSUME NEW n \in Nat \ {0}, NEW S, Confirmed(S, n - 1), S # <<>>, NEW p \in SwingType,
           NEW w, w = ClassOf(S, Len(S)), NEW c, c = ClassOf(Append(S, p), Len(S) + 1),
           NEW b, NEW d \in Directions, CompletesWith(w, d, c, b[n], n),
           NEW leg \in LegType, LegKeeps(leg, Append(S, p), b, n),
           w.label = Corrective[leg.direction], Signed(leg.direction, w.swing.price - leg.protected.price) > 0
    PROVE  /\ LegKeeps(AdvancedTo(leg, w, c, n), Append(S, p), b, n)
           /\ AdvancedTo(leg, w, c, n).direction = leg.direction
           /\ AdvancedTo(leg, w, c, n).initial = leg.initial
           /\ AdvancedTo(leg, w, c, n).established = leg.established
           /\ AdvancedTo(leg, w, c, n).index = leg.index
           /\ AdvancedTo(leg, w, c, n).duration = leg.duration
           /\ AdvancedTo(leg, w, c, n).movement = leg.movement
<1> DEFINE T == Append(S, p)
           new == AdvancedTo(leg, w, c, n)
<1>1. d = leg.direction
  BY DEF CompletesWith, Corrective, LegType, Directions
<1>2. FoundedBy(T, d, w.swing) /\ w.swing \in SwingType /\ ~ClosesThrough(d, b[n], w.swing)
  BY CompletionFounds
<1>3. new = [leg EXCEPT !.protected = w.swing, !.directional = c.swing, !.since = n]
  BY DEF AdvancedTo
<1>4. /\ new.direction = leg.direction /\ new.initial = leg.initial /\ new.established = leg.established
      /\ new.protected = w.swing /\ new.since = n /\ new.extreme = leg.extreme
      /\ new.retracement = leg.retracement /\ new.index = leg.index /\ new.duration = leg.duration
      /\ new.movement = leg.movement
  <2> HIDE DEF new
  <2> QED BY <1>3 DEF LegType
<1>5. Signed(leg.direction, w.swing.price - leg.initial.price) >= 0
  <2>1. Signed(leg.direction, leg.protected.price - leg.initial.price) >= 0
    BY DEF LegKeeps
  <2>2. w.swing.price \in Int /\ leg.protected.price \in Int /\ leg.initial.price \in Int
    BY <1>2 DEF LegType, SwingType
  <2> QED BY <2>1, <2>2, SignedAddsUp
<1> HIDE DEF new, T
<1>6. \A j \in n..n : ~ClosesThrough(leg.direction, b[j], w.swing)
  <2>1. \A j \in n..n : j = n
    OBVIOUS
  <2> QED BY <1>1, <1>2, <2>1
<1>7. LegKeeps(leg, T, b, n)
  BY DEF T
<1>8. n \in 1..n
  OBVIOUS
<1>9. LegKeeps(new, T, b, n)
  BY <1>1, <1>2, <1>4, <1>5, <1>6, <1>7, <1>8 DEF LegKeeps
<1> QED BY <1>4, <1>9 DEF new, T

\* A leg that is founded is what it is said to be.
LEMMA FoundedKeeps ==
    ASSUME NEW n \in Nat \ {0}, NEW S, Confirmed(S, n - 1), S # <<>>, NEW p \in SwingType,
           NEW w, w = ClassOf(S, Len(S)), NEW c, c = ClassOf(Append(S, p), Len(S) + 1),
           NEW b, Prices(b, n), NEW d \in Directions, CompletesWith(w, d, c, b[n], n),
           NEW k \in Nat, p.event \in 1..n, Tops(p.side, b, p.event, n, p.price)
    PROVE  /\ Founded(k, d, w, c, b[n], n) \in LegType
           /\ LegKeeps(Founded(k, d, w, c, b[n], n), Append(S, p), b, n)
           /\ Founded(k, d, w, c, b[n], n).established = n
           /\ Founded(k, d, w, c, b[n], n).direction = d
           /\ Founded(k, d, w, c, b[n], n).initial = w.swing
           /\ Founded(k, d, w, c, b[n], n).duration = n - w.swing.event + 1
           /\ Founded(k, d, w, c, b[n], n).movement = Signed(d, b[n].close - w.swing.price)
<1> DEFINE T == Append(S, p)
           new == Founded(k, d, w, c, b[n], n)
           x == Farther(d, c.swing.price, b[n])
           seed == Seed(k, d, w.swing, c.swing, x, n)
           L == Len(S)
<1>1. /\ FoundedBy(T, d, w.swing) /\ w.swing \in SwingType /\ ~ClosesThrough(d, b[n], w.swing)
      /\ w.swing.index = L /\ c.swing = p /\ p.side = Forward(d)
  BY CompletionFounds
<1>2. b[n] \in Bar /\ p.price \in Int
  BY DEF Prices, SwingType
<1>3. x = p.price
  <2>1. p.event \in Nat /\ p.event <= n
    OBVIOUS
  <2> QED BY <1>1, <1>2, <2>1, TopsStay
<1> HIDE DEF x
<1>4. seed \in LegType
  <2>1. x \in Int
    BY <1>2, <1>3
  <2> QED BY <1>1, <2>1 DEF Seed, LegType
<1>5. /\ seed.index = k /\ seed.direction = d /\ seed.initial = w.swing /\ seed.protected = w.swing
      /\ seed.established = n /\ seed.since = n /\ seed.extreme = x
  BY DEF Seed
<1>6. new = Measured(seed, b[n], n)
  BY DEF Founded, x
<1> HIDE DEF seed, new
<1>7. Farther(d, x, b[n]) = x
  <2>1. p.event \in Nat /\ p.event <= n
    OBVIOUS
  <2> QED BY <1>1, <1>2, <1>3, <2>1, TopsStay
<1>8. /\ new.direction = d /\ new.initial = w.swing /\ new.protected = w.swing
      /\ new.established = n /\ new.since = n /\ new.extreme = x
      /\ new.duration = n - w.swing.event + 1
      /\ new.movement = Signed(d, b[n].close - w.swing.price)
      /\ new.retracement = Signed(d, x - b[n].close)
  BY <1>4, <1>5, <1>6, <1>7, MeasuredFields
<1>9. new \in LegType
  <2>1. w.swing.event \in 1..n
    <3>1. n - 1 \in Nat /\ L \in DOMAIN S
      BY DEF Confirmed
    <3>2. S[L].event \in 1..(n - 1)
      BY <3>1, ConfirmedDates
    <3>3. w.swing = S[L]
      BY DEF ClassOf
    <3> QED BY <3>2, <3>3
  <2>2. seed.initial.event \in 1..n /\ seed.established <= n
    BY <1>5, <2>1
  <2>3. LegAt(new, n)
    BY <1>2, <1>4, <1>6, <2>2, MeasuredTyped
  <2> QED BY <2>3 DEF LegAt
<1>10. T[L + 1] = p
  BY DEF Confirmed
<1>11. Signed(d, w.swing.price - w.swing.price) >= 0
  <2>1. w.swing.price \in Int
    BY <1>1 DEF SwingType
  <2> QED BY <2>1 DEF Signed
<1>12. \A j \in n..n : ~ClosesThrough(d, b[j], w.swing)
  <2>1. \A j \in n..n : j = n
    OBVIOUS
  <2> QED BY <1>1, <2>1
<1>13. n \in 1..n
  OBVIOUS
<1>14. Tops(Forward(d), b, T[new.initial.index + 1].event, n, new.extreme)
  BY <1>1, <1>3, <1>8, <1>10
<1> HIDE DEF T, L
<1>15. LegKeeps(new, T, b, n)
  BY <1>1, <1>8, <1>11, <1>12, <1>13, <1>14 DEF LegKeeps
<1> QED BY <1>8, <1>9, <1>15 DEF new, T

LEMMA CorrectiveNames ==
    ASSUME NEW label, label \in {"HL", "LH"}
    PROVE  /\ (CHOOSE x \in Directions : Corrective[x] = label) \in Directions
           /\ Corrective[CHOOSE x \in Directions : Corrective[x] = label] = label
BY DEF Directions, Corrective

\* What a corrective swing leaves waiting.
LEMMA PendingMade ==
    ASSUME NEW j, NEW n, NEW lg, LegTypes(lg, j, n), NEW S \in Seq(SwingType), NEW p \in SwingType,
           Alternates(Append(S, p)), PendingKeeps(lg, S),
           NEW c, c = ClassOf(Append(S, p), Len(S) + 1), c.label \in {"HL", "LH"},
           NEW new, Kept(lg, new), new.pending = PendingAfter(lg, c)
    PROVE  /\ PendingKeeps(new, Append(S, p))
           /\ new.active = {} => new.pending # {}
<1> DEFINE d == CHOOSE x \in Directions : Corrective[x] = c.label
           T == Append(S, p)
           L == Len(S)
           against == \E leg \in lg.active : leg.direction # d
           better == \E leg \in lg.active : /\ leg.direction = d
                                 /\ Signed(d, c.swing.price - leg.protected.price) > 0
<1>1. PendingAfter(lg, c) = CASE lg.active = {} -> {c}
                              [] against -> {}
                              [] better -> {c}
                              [] OTHER -> lg.pending
  BY DEF PendingAfter
<1>2. d \in Directions /\ Corrective[d] = c.label
  BY CorrectiveNames
<1>3. L \in Nat /\ Len(T) = L + 1 /\ T # <<>> /\ T[L + 1] = p /\ T \in Seq(SwingType)
      /\ \A k \in 1..L : T[k] = S[k]
  OBVIOUS
<1>4. Corrects(T, d, L + 1)
  <2>1. L + 1 \in DOMAIN T
    BY <1>3
  <2>2. ClassOf(T, L + 1).label = Corrective[d]
    BY <1>2
  <2> HIDE DEF T, L, d
  <2> QED BY <1>2, <1>3, <2>1, <2>2, LabelSays
<1>5. new.active = lg.active
  BY DEF Kept
<1>6. lg.active = {} \/ \E leg \in LegType : lg.active = {leg}
  BY DEF LegTypes, Optional
<1>7. c = ClassOf(T, Len(T))
  BY <1>3
<1>8. CASE lg.active = {}
  <2>1. ~against /\ ~better
    BY <1>8
  <2>2. new.pending = {c}
    <3> HIDE DEF against, better
    <3> QED BY <1>1, <1>8, <2>1
  <2> HIDE DEF T
  <2> QED BY <1>3, <1>5, <1>7, <1>8, <2>2 DEF PendingKeeps, Awaited, T
<1>9. ASSUME NEW leg \in LegType, lg.active = {leg}
      PROVE  /\ PendingKeeps(new, T)
             /\ new.active = {} => new.pending # {}
  <2>1. CASE leg.direction # d
    <3>1. against
      BY <1>9, <2>1
    <3>2. ~better
      BY <1>9, <2>1
    <3>3. new.pending = {}
      <4>1. lg.active # {}
        BY <1>9
      <4> HIDE DEF against, better
      <4> QED BY <1>1, <3>1, <3>2, <4>1
    <3> QED BY <1>5, <1>9, <3>3 DEF PendingKeeps
  <2>2. CASE leg.direction = d /\ better
    <3>1. ~against
      BY <1>9, <2>2
    <3>2. new.pending = {c}
      <4>1. lg.active # {}
        BY <1>9
      <4> HIDE DEF against
      <4> QED BY <1>1, <2>2, <3>1, <4>1
    <3>3. c.label = Corrective[leg.direction]
      BY <1>2, <2>2
    <3>4. Signed(leg.direction, c.swing.price - leg.protected.price) > 0
      BY <1>9, <2>2
    <3>5. Awaited(c, new, T)
      <4> HIDE DEF T
      <4> QED BY <1>3, <1>5, <1>7, <1>9, <3>3, <3>4 DEF Awaited
    <3> QED BY <1>5, <1>9, <3>2, <3>5 DEF PendingKeeps
  <2>3. CASE leg.direction = d /\ ~better
    <3>1. ~against
      BY <1>9, <2>3
    <3>2. new.pending = lg.pending
      <4>1. lg.active # {}
        BY <1>9
      <4> HIDE DEF against, better
      <4> QED BY <1>1, <2>3, <3>1, <4>1
    <3>3. ASSUME NEW x \in lg.pending PROVE FALSE
      <4>1. S # <<>> /\ x = ClassOf(S, L) /\ x.label = Corrective[leg.direction]
        BY <1>9 DEF PendingKeeps, Awaited
      <4>2. L \in DOMAIN S /\ L \in 1..(Len(T) - 1) /\ T[L] = S[L]
        BY <1>3, <4>1
      <4>3. Corrects(S, d, L)
        <5> HIDE DEF L, d
        <5> QED BY <1>2, <2>3, <4>1, <4>2, LabelSays
      <4>4. S[L].side = Backward(d) /\ p.side = Backward(d)
        <5> HIDE DEF T, d, L
        <5> QED BY <1>3, <1>4, <4>3 DEF Corrects
      <4>5. p.side = Other(S[L].side)
        <5>1. Alternates(T)
          OBVIOUS
        <5>2. T[L + 1].side = Other(T[L].side)
          <6> HIDE DEF T, L
          <6> QED BY <4>2, <5>1 DEF Alternates
        <5> QED BY <1>3, <4>2, <5>2
      <4> HIDE DEF d, L
      <4> QED BY <1>2, <4>4, <4>5, DirectionSides
    <3> QED BY <1>5, <1>9, <3>2, <3>3 DEF PendingKeeps
  <2> QED BY <2>1, <2>2, <2>3
<1> HIDE DEF T
<1> QED BY <1>6, <1>8, <1>9 DEF T

\* The swing a bar confirms, if any, and what it classifies.
SwingComes(S, T, classified, b, n) ==
    \/ T = S /\ classified = {}
    \/ \E p \in SwingType :
         /\ T = Append(S, p) /\ classified = {ClassOf(T, Len(S) + 1)}
         /\ p.index = Len(S) + 1 /\ p.detection = n /\ p.event \in 1..(n - 1)
         /\ Tops(p.side, b, p.event, n, p.price)

LEMMA SwingsGoOn ==
    ASSUME NEW n \in Nat \ {0}, NEW S, Confirmed(S, n - 1), NEW T, NEW classified, NEW b,
           SwingComes(S, T, classified, b, n)
    PROVE  GoesOn(S, T) /\ T \in Seq(SwingType) /\ S \in Seq(SwingType)
<1>1. S \in Seq(SwingType)
  BY DEF Confirmed
<1>2. CASE T = S
  BY <1>1, <1>2 DEF GoesOn
<1>3. ASSUME NEW p \in SwingType, T = Append(S, p) PROVE GoesOn(S, T) /\ T \in Seq(SwingType)
  BY <1>1, <1>3 DEF GoesOn
<1> QED BY <1>1, <1>2, <1>3 DEF SwingComes

\* What a bar measures of a leg.
Timed(leg, bar, n) ==
    /\ leg.duration = n - leg.initial.event + 1
    /\ leg.movement = Signed(leg.direction, bar.close - leg.initial.price)
Continued(old, leg, bar, n) ==
    /\ leg.index = old.index /\ leg.direction = old.direction /\ leg.initial = old.initial
    /\ leg.established = old.established
    /\ Timed(leg, bar, n)
LegMade(active, leg, bar, n) ==
    \/ \E old \in active : Continued(old, leg, bar, n)
    \/ active = {} /\ leg.established = n /\ Timed(leg, bar, n)

\* The legs before the structure of the bar, when it ends none.
LEMMA LegsStand ==
    ASSUME NEW i, NEW n \in Nat \ {0}, NEW lg, LegTypes(lg, i, n - 1), NEW S, Confirmed(S, n - 1),
           NEW T \in Seq(SwingType), GoesOn(S, T), NEW b, NEW c, Follows(b, c, n),
           \A leg \in lg.active : LegKeeps(leg, S, b, n - 1), PendingKeeps(lg, S),
           NEW next, Stands(lg, next, c[n], n), next.pending = lg.pending, EndedLegs(lg, c[n], n) = {}
    PROVE  /\ \A leg \in next.active : LegKeeps(leg, T, c, n) /\ LegMade(lg.active, leg, c[n], n)
           /\ PendingKeeps(next, S)
           /\ next.active = {} <=> lg.active = {}
<1>1. next.active = MeasuredLegs(lg, c[n], n)
  BY DEF Stands
<1>2. \A leg \in lg.active : leg \in LegType
  BY DEF LegTypes, LegAt
<1>3. ASSUME NEW leg \in next.active PROVE LegKeeps(leg, T, c, n) /\ LegMade(lg.active, leg, c[n], n)
  <2>1. PICK old \in lg.active : leg = Measured(old, c[n], n)
    BY <1>1 DEF MeasuredLegs
  <2>2. ~Ends(leg, c[n], n)
    BY <1>1 DEF EndedLegs
  <2>3. LegKeeps(leg, T, c, n)
    BY <1>2, <2>1, <2>2, LegGoesOn
  <2>4. Continued(old, leg, c[n], n)
    <3>1. /\ leg.index = old.index /\ leg.direction = old.direction /\ leg.initial = old.initial
          /\ leg.established = old.established
          /\ leg.duration = n - old.initial.event + 1
          /\ leg.movement = Signed(old.direction, c[n].close - old.initial.price)
      BY <1>2, <2>1, MeasuredFields
    <3> QED BY <3>1 DEF Continued, Timed
  <2> QED BY <2>3, <2>4 DEF LegMade
<1>4. PendingKeeps(next, S)
  <2>1. ASSUME NEW x \in lg.pending PROVE Awaited(x, next, S)
    <3>1. Awaited(x, lg, S)
      BY DEF PendingKeeps
    <3>2. ASSUME NEW leg \in next.active
          PROVE  /\ x.label = Corrective[leg.direction]
                 /\ Signed(leg.direction, x.swing.price - leg.protected.price) > 0
      <4>1. PICK old \in lg.active : leg = Measured(old, c[n], n)
        BY <1>1 DEF MeasuredLegs
      <4>2. leg.direction = old.direction /\ leg.protected = old.protected
        BY <1>2, <4>1, MeasuredFields
      <4>3. /\ x.label = Corrective[old.direction]
            /\ Signed(old.direction, x.swing.price - old.protected.price) > 0
        BY <3>1 DEF Awaited
      <4> QED BY <4>2, <4>3
    <3> QED BY <3>1, <3>2 DEF Awaited
  <2> QED BY <2>1 DEF PendingKeeps
<1>5. next.active = {} <=> lg.active = {}
  BY <1>1 DEF MeasuredLegs
<1> QED BY <1>3, <1>4, <1>5

\* What the structure of a bar leaves of an active leg.
SameLeg(old, leg) ==
    /\ leg.index = old.index /\ leg.direction = old.direction /\ leg.initial = old.initial
    /\ leg.established = old.established
    /\ leg.duration = old.duration /\ leg.movement = old.movement
Retained(active, leg, bar, n) ==
    \/ \E old \in active : SameLeg(old, leg)
    \/ active = {} /\ leg.established = n /\ Timed(leg, bar, n)

\* The structure of a bar keeps what the legs are said to be.
LEMMA ProgressKeeps ==
    ASSUME NEW j, NEW n \in Nat \ {0}, NEW lg, LegTypes(lg, j, n), lg.transitions = <<>>,
           NEW S, Confirmed(S, n - 1), NEW p \in SwingType, p.event \in 1..(n - 1),
           NEW b, Prices(b, n), Tops(p.side, b, p.event, n, p.price), Alternates(Append(S, p)),
           \A leg \in lg.active : LegKeeps(leg, Append(S, p), b, n), PendingKeeps(lg, S),
           NEW c, c = ClassOf(Append(S, p), Len(S) + 1)
    PROVE  /\ \A leg \in Progress(lg, c, b[n], n).active :
                LegKeeps(leg, Append(S, p), b, n) /\ Retained(lg.active, leg, b[n], n)
           /\ PendingKeeps(Progress(lg, c, b[n], n), Append(S, p))
           /\ \/ c.label \notin {"HL", "LH"} \/ Progress(lg, c, b[n], n).active # {}
              \/ Progress(lg, c, b[n], n).pending # {}
           /\ \A w \in lg.pending : \A d \in Directions :
                CompletesWith(w, d, c, b[n], n) => Progress(lg, c, b[n], n).active # {}
           /\ lg.active # {} => Progress(lg, c, b[n], n).active # {}
<1> DEFINE new == Progress(lg, c, b[n], n)
           T == Append(S, p)
<1>1. ProgressMakes(lg, new, c, b[n], n)
  BY ProgressMade
<1>2. S \in Seq(SwingType)
  BY DEF Confirmed
<1>3. \A leg \in lg.active : leg \in LegType
  BY DEF LegTypes, LegAt
<1>4. \A w \in lg.pending : \A d \in Directions :
        CompletesWith(w, d, c, b[n], n) => c.label \notin {"HL", "LH"}
  BY DEF CompletesWith, Extending, Directions
<1>5. \A w \in lg.pending : S # <<>> /\ w = ClassOf(S, Len(S))
  BY DEF PendingKeeps, Awaited
<1> SUFFICES /\ \A leg \in new.active : LegKeeps(leg, T, b, n) /\ Retained(lg.active, leg, b[n], n)
             /\ PendingKeeps(new, T)
             /\ c.label \notin {"HL", "LH"} \/ new.active # {} \/ new.pending # {}
             /\ \A w \in lg.pending : \A d \in Directions :
                  CompletesWith(w, d, c, b[n], n) => new.active # {}
             /\ lg.active # {} => new.active # {}
  OBVIOUS
<1> HIDE DEF new
<1>6. ASSUME new.active = lg.active
      PROVE  \A leg \in new.active : LegKeeps(leg, T, b, n) /\ Retained(lg.active, leg, b[n], n)
  <2>1. \A leg \in lg.active : SameLeg(leg, leg)
    BY DEF SameLeg
  <2> HIDE DEF T
  <2> QED BY <1>6, <2>1 DEF Retained, T
<1>7. CASE c.label \in {"HL", "LH"} /\ Kept(lg, new) /\ new.pending = PendingAfter(lg, c)
  <2>1. PendingKeeps(new, T) /\ (new.active = {} => new.pending # {})
    BY <1>2, <1>7, PendingMade
  <2>2. new.active = lg.active
    BY <1>7 DEF Kept
  <2> HIDE DEF T
  <2> QED BY <1>4, <1>6, <1>7, <2>1, <2>2
<1>8. CASE /\ c.label \notin {"HL", "LH"} /\ Kept(lg, new) /\ new.pending = {}
           /\ \A w \in lg.pending : \A d \in Directions : ~CompletesWith(w, d, c, b[n], n)
  <2>1. new.active = lg.active
    BY <1>8 DEF Kept
  <2>2. PendingKeeps(new, T)
    BY <1>8 DEF PendingKeeps
  <2> HIDE DEF T
  <2> QED BY <1>6, <1>8, <2>1, <2>2
<1>9. ASSUME NEW leg, LegKeeps(leg, T, b, n), Retained(lg.active, leg, b[n], n),
             NEW kind, Begins(new, kind, leg), NEW w \in lg.pending, NEW d \in Directions,
             CompletesWith(w, d, c, b[n], n)
      PROVE  /\ \A x \in new.active : LegKeeps(x, T, b, n) /\ Retained(lg.active, x, b[n], n)
             /\ PendingKeeps(new, T)
             /\ c.label \notin {"HL", "LH"}
             /\ new.active # {}
  <2>1. new.active = {leg} /\ new.pending = {}
    BY <1>9 DEF Begins
  <2>2. PendingKeeps(new, T)
    BY <2>1 DEF PendingKeeps
  <2> HIDE DEF T
  <2> QED BY <1>4, <1>9, <2>1, <2>2
<1>10. ASSUME lg.active = {}, NEW w \in lg.pending, NEW d \in Directions, CompletesWith(w, d, c, b[n], n),
              Begins(new, "ESTABLISHED", Founded(lg.legs + 1, d, w, c, b[n], n))
       PROVE  LegKeeps(Founded(lg.legs + 1, d, w, c, b[n], n), T, b, n)
              /\ Retained(lg.active, Founded(lg.legs + 1, d, w, c, b[n], n), b[n], n)
  <2> DEFINE leg == Founded(lg.legs + 1, d, w, c, b[n], n)
  <2>1. lg.legs + 1 \in Nat /\ p.event \in 1..n
    BY DEF LegTypes
  <2>2. S # <<>> /\ w = ClassOf(S, Len(S))
    BY <1>5
  <2>3. /\ LegKeeps(leg, T, b, n)
        /\ leg.established = n /\ leg.direction = d /\ leg.initial = w.swing
        /\ leg.duration = n - w.swing.event + 1
        /\ leg.movement = Signed(d, b[n].close - w.swing.price)
    BY <1>10, <2>1, <2>2, FoundedKeeps
  <2> HIDE DEF leg, T
  <2>4. Retained(lg.active, leg, b[n], n)
    BY <1>10, <2>3 DEF Retained, Timed
  <2> QED BY <2>3, <2>4 DEF leg
<1>11. ASSUME NEW leg \in lg.active, NEW w \in lg.pending, NEW d \in Directions,
              CompletesWith(w, d, c, b[n], n)
       PROVE  LegKeeps(AdvancedTo(leg, w, c, n), T, b, n)
              /\ Retained(lg.active, AdvancedTo(leg, w, c, n), b[n], n)
  <2>1. S # <<>> /\ w = ClassOf(S, Len(S))
    BY <1>5
  <2>2. /\ w.label = Corrective[leg.direction]
        /\ Signed(leg.direction, w.swing.price - leg.protected.price) > 0
    BY DEF PendingKeeps, Awaited
  <2>3. leg \in LegType /\ LegKeeps(leg, T, b, n)
    BY <1>3
  <2> DEFINE to == AdvancedTo(leg, w, c, n)
  <2>4. /\ LegKeeps(to, T, b, n)
        /\ to.direction = leg.direction /\ to.initial = leg.initial
        /\ to.established = leg.established /\ to.index = leg.index
        /\ to.duration = leg.duration /\ to.movement = leg.movement
    BY <1>11, <2>1, <2>2, <2>3, AdvancedKeeps
  <2> HIDE DEF to, T
  <2>5. Retained(lg.active, to, b[n], n)
    BY <2>4 DEF Retained, SameLeg
  <2> QED BY <2>4, <2>5 DEF to
<1> HIDE DEF T
<1>12. CASE /\ lg.active = {}
            /\ \E w \in lg.pending : \E d \in Directions :
                 /\ CompletesWith(w, d, c, b[n], n)
                 /\ Begins(new, "ESTABLISHED", Founded(lg.legs + 1, d, w, c, b[n], n))
  <2>1. PICK w \in lg.pending : \E d \in Directions :
                 /\ CompletesWith(w, d, c, b[n], n)
                 /\ Begins(new, "ESTABLISHED", Founded(lg.legs + 1, d, w, c, b[n], n))
    BY <1>12
  <2>2. PICK d \in Directions : /\ CompletesWith(w, d, c, b[n], n)
                 /\ Begins(new, "ESTABLISHED", Founded(lg.legs + 1, d, w, c, b[n], n))
    BY <2>1
  <2>3. LegKeeps(Founded(lg.legs + 1, d, w, c, b[n], n), T, b, n)
        /\ Retained(lg.active, Founded(lg.legs + 1, d, w, c, b[n], n), b[n], n)
    BY <1>10, <1>12, <2>2
  <2> QED BY <1>9, <2>2, <2>3
<1>13. CASE \E leg \in lg.active : \E w \in lg.pending : \E d \in Directions :
              /\ CompletesWith(w, d, c, b[n], n)
              /\ Begins(new, "PROTECTION_ADVANCED", AdvancedTo(leg, w, c, n))
  <2>1. PICK leg \in lg.active : \E w \in lg.pending : \E d \in Directions :
              /\ CompletesWith(w, d, c, b[n], n)
              /\ Begins(new, "PROTECTION_ADVANCED", AdvancedTo(leg, w, c, n))
    BY <1>13
  <2>2. PICK w \in lg.pending : \E d \in Directions :
              /\ CompletesWith(w, d, c, b[n], n)
              /\ Begins(new, "PROTECTION_ADVANCED", AdvancedTo(leg, w, c, n))
    BY <2>1
  <2>3. PICK d \in Directions : /\ CompletesWith(w, d, c, b[n], n)
              /\ Begins(new, "PROTECTION_ADVANCED", AdvancedTo(leg, w, c, n))
    BY <2>2
  <2>4. LegKeeps(AdvancedTo(leg, w, c, n), T, b, n) /\ Retained(lg.active, AdvancedTo(leg, w, c, n), b[n], n)
    BY <1>11, <2>3
  <2> QED BY <1>9, <2>3, <2>4
<1> QED BY <1>1, <1>7, <1>8, <1>12, <1>13 DEF ProgressMakes

LEMMA ClassIsKnown ==
    ASSUME NEW n \in Nat \ {0}, NEW S \in Seq(SwingType), NEW p \in SwingType,
           p.index = Len(S) + 1, p.detection = n, p.event \in 1..(n - 1)
    PROVE  Known(ClassOf(Append(S, p), Len(S) + 1), Len(S) + 1, n)
<1> DEFINE T == Append(S, p)
           L == Len(S)
           c == ClassOf(T, L + 1)
<1>1. T \in Seq(SwingType) /\ Len(T) = L + 1 /\ T[L + 1] = p /\ L \in Nat
  OBVIOUS
<1>2. Previous(T, L + 1) \in Optional(SwingType)
  <2>1. CASE L + 1 > 2
    <3>1. (L + 1) - 2 \in DOMAIN T
      BY <1>1, <2>1
    <3>2. T[(L + 1) - 2] \in SwingType
      BY <1>1, <3>1
    <3> HIDE DEF T, L
    <3> QED BY <2>1, <3>2 DEF Previous, Optional
  <2>2. CASE ~(L + 1 > 2)
    BY <2>2 DEF Previous, Optional
  <2> QED BY <2>1, <2>2
<1>3. /\ c.swing = p /\ c.previous = Previous(T, L + 1) /\ c.label = Label(p, Previous(T, L + 1))
      /\ c = [swing |-> p, previous |-> Previous(T, L + 1), label |-> Label(p, Previous(T, L + 1))]
  <2> HIDE DEF T, L
  <2> QED BY <1>1 DEF ClassOf
<1>4. c \in ClassType
  <2> HIDE DEF T, L, c
  <2> QED BY <1>2, <1>3, LabelTyped DEF ClassType
<1>5. p.index \in 1..(L + 1) /\ p.detection <= n /\ p.event \in 1..n
  BY <1>1
<1> HIDE DEF c
<1> QED BY <1>3, <1>4, <1>5 DEF Known, c

\* What a bar says of an ended leg, and what it makes of the others.
TellsEnd(new) == \E leg : new.transitions = <<[type |-> "TERMINATED", leg |-> leg]>>
GoesWith(lg, new, c, bar, n) ==
    /\ c.label \notin {"HL", "LH"} \/ new.active # {} \/ new.pending # {}
    /\ \A w \in lg.pending : \A d \in Directions : CompletesWith(w, d, c, bar, n) => new.active # {}
Goes(lg, new, S, T, bar, n) ==
    /\ lg.active # {} => new.active # {}
    /\ T = S => new.pending = lg.pending
    /\ T # S => GoesWith(lg, new, ClassOf(T, Len(T)), bar, n)

LEMMA LegsMake ==
    ASSUME NEW n \in Nat \ {0}, NEW S, Confirmed(S, n - 1), NEW lg, LegTypes(lg, Len(S), n - 1),
           NEW b, NEW c, Follows(b, c, n), NEW T, Alternates(T), NEW classified,
           SwingComes(S, T, classified, c, n), NEW ema,
           \A leg \in lg.active : LegKeeps(leg, S, b, n - 1), PendingKeeps(lg, S)
    PROVE  /\ \A leg \in LegUpdate(lg, classified, ema, c[n], n).active :
                LegKeeps(leg, T, c, n) /\ LegMade(lg.active, leg, c[n], n)
           /\ PendingKeeps(LegUpdate(lg, classified, ema, c[n], n), T)
           /\ TellsEnd(LegUpdate(lg, classified, ema, c[n], n))
              \/ Goes(lg, LegUpdate(lg, classified, ema, c[n], n), S, T, c[n], n)
           /\ TellsEnd(LegUpdate(lg, classified, ema, c[n], n))
              => LegUpdate(lg, classified, ema, c[n], n).active = {}
<1> DEFINE bar == c[n]
           new == LegUpdate(lg, classified, ema, bar, n)
           next == BeforeStructure(lg, classified, ema, bar, n)
           ended == EndedLegs(lg, bar, n)
           i == Len(S)
           j == After(classified, i)
<1>1. new = IF ended # {} \/ classified = {} THEN next ELSE Progress(next, The(classified), bar, n)
  BY LegUpdateShape
<1>2. S \in Seq(SwingType) /\ T \in Seq(SwingType) /\ GoesOn(S, T) /\ i \in Nat
  BY SwingsGoOn DEF Confirmed
<1>3. bar \in Bar /\ Prices(c, n)
  BY DEF Follows, Prices
<1>4. Continues(classified, i)
  <2>1. CASE classified = {}
    BY <2>1 DEF Continues
  <2>2. ASSUME NEW p \in SwingType, classified = {ClassOf(Append(S, p), i + 1)},
               p.index = i + 1, p.detection = n, p.event \in 1..(n - 1)
        PROVE  Continues(classified, i)
    <3> DEFINE x == ClassOf(Append(S, p), i + 1)
    <3>1. Known(x, i + 1, n)
      BY <1>2, <2>2, ClassIsKnown
    <3>2. x.swing = p
      BY <1>2 DEF ClassOf
    <3> HIDE DEF x
    <3> QED BY <2>2, <3>1, <3>2 DEF Continues, Known, x
  <2> QED BY <2>1, <2>2 DEF SwingComes
<1>5. /\ LegTypes(next, j, n)
      /\ \/ ended # {} /\ Turned(lg.active, next, bar, n)
         \/ ended = {} /\ Stands(lg, next, bar, n)
  BY <1>2, <1>3, <1>4, BeforeStructureTyped
<1>6. next.pending = IF ended # {} THEN {} ELSE lg.pending
  BY DEF BeforeStructure
<1> SUFFICES /\ \A leg \in new.active : LegKeeps(leg, T, c, n) /\ LegMade(lg.active, leg, bar, n)
             /\ PendingKeeps(new, T)
             /\ TellsEnd(new) \/ Goes(lg, new, S, T, bar, n)
             /\ TellsEnd(new) => new.active = {}
  OBVIOUS
<1> HIDE DEF new, next, ended, j
<1>7. CASE ended # {}
  <2>1. new = next /\ new.pending = {}
    BY <1>1, <1>6, <1>7
  <2>2. Turned(lg.active, next, bar, n)
    BY <1>5, <1>7
  <2>3. new.active = {} /\ TellsEnd(new)
    BY <2>1, <2>2 DEF Turned, TellsEnd
  <2>4. PendingKeeps(new, T)
    BY <2>1 DEF PendingKeeps
  <2> QED BY <2>3, <2>4
<1>8. CASE ended = {}
  <2>1. Stands(lg, next, bar, n) /\ next.pending = lg.pending /\ next.transitions = <<>>
    BY <1>5, <1>6, <1>8 DEF Stands
  <2>2. /\ \A leg \in next.active : LegKeeps(leg, T, c, n) /\ LegMade(lg.active, leg, bar, n)
        /\ PendingKeeps(next, S)
        /\ next.active = {} <=> lg.active = {}
    BY <1>2, <1>8, <2>1, LegsStand DEF ended
  <2>3. CASE T = S /\ classified = {}
    <3>1. new = next
      BY <1>1, <2>3
    <3>2. ~TellsEnd(new)
      <4>1. new.transitions = <<>>
        BY <2>1, <3>1
      <4> QED BY <4>1 DEF TellsEnd
    <3> QED BY <2>1, <2>2, <2>3, <3>1, <3>2 DEF Goes
  <2>4. ASSUME NEW p \in SwingType, T = Append(S, p), classified = {ClassOf(T, i + 1)},
               p.index = i + 1, p.detection = n, p.event \in 1..(n - 1),
               Tops(p.side, c, p.event, n, p.price)
        PROVE  /\ \A leg \in new.active : LegKeeps(leg, T, c, n) /\ LegMade(lg.active, leg, bar, n)
               /\ PendingKeeps(new, T)
               /\ Goes(lg, new, S, T, bar, n)
               /\ ~TellsEnd(new)
    <3> DEFINE x == ClassOf(T, i + 1)
    <3>0. T # S /\ Len(T) = i + 1
      BY <1>2, <2>4
    <3>1. new = Progress(next, x, bar, n)
      <4>1. The(classified) = x /\ classified # {}
        BY <2>4, TheOne
      <4> QED BY <1>1, <1>8, <4>1
    <3>2. /\ \A leg \in new.active : LegKeeps(leg, T, c, n) /\ Retained(next.active, leg, bar, n)
          /\ PendingKeeps(new, T)
          /\ x.label \notin {"HL", "LH"} \/ new.active # {} \/ new.pending # {}
          /\ \A w \in next.pending : \A d \in Directions : CompletesWith(w, d, x, bar, n) => new.active # {}
          /\ next.active # {} => new.active # {}
      <4> DEFINE U == Append(S, p)
      <4>1. /\ \A leg \in next.active : LegKeeps(leg, U, c, n)
            /\ Alternates(U)
        BY <2>2, <2>4
      <4>2. x = ClassOf(U, Len(S) + 1)
        BY <2>4
      <4>3. LegTypes(next, j, n) /\ next.transitions = <<>>
        BY <1>5, <2>1
      <4> HIDE DEF x, U
      <4>4. /\ \A leg \in Progress(next, x, bar, n).active :
                  LegKeeps(leg, U, c, n) /\ Retained(next.active, leg, bar, n)
            /\ PendingKeeps(Progress(next, x, bar, n), U)
            /\ x.label \notin {"HL", "LH"} \/ Progress(next, x, bar, n).active # {}
               \/ Progress(next, x, bar, n).pending # {}
            /\ \A w \in next.pending : \A d \in Directions :
                 CompletesWith(w, d, x, bar, n) => Progress(next, x, bar, n).active # {}
            /\ next.active # {} => Progress(next, x, bar, n).active # {}
        BY <1>3, <2>2, <2>4, <4>1, <4>2, <4>3, ProgressKeeps DEF U
      <4> HIDE DEF bar
      <4> QED BY <2>4, <3>1, <4>4 DEF U
    <3> HIDE DEF x
    <3>3. ASSUME NEW leg, Retained(next.active, leg, bar, n) PROVE LegMade(lg.active, leg, bar, n)
      <4>1. CASE next.active = {} /\ leg.established = n /\ Timed(leg, bar, n)
        BY <2>2, <4>1 DEF LegMade
      <4>2. ASSUME NEW old \in next.active, SameLeg(old, leg) PROVE LegMade(lg.active, leg, bar, n)
        <5>1. LegMade(lg.active, old, bar, n) /\ lg.active # {}
          BY <2>2
        <5>2. PICK first \in lg.active : Continued(first, old, bar, n)
          BY <5>1 DEF LegMade
        <5>3. Continued(first, leg, bar, n)
          BY <4>2, <5>2 DEF Continued, SameLeg, Timed
        <5> QED BY <5>3 DEF LegMade
      <4> QED BY <3>3, <4>1, <4>2 DEF Retained
    <3>4. ClassOf(T, Len(T)) = x
      BY <3>0 DEF x
    <3>5. Goes(lg, new, S, T, bar, n)
      BY <2>1, <2>2, <3>0, <3>2, <3>4 DEF Goes, GoesWith
    <3>6. ~TellsEnd(new)
      <4>1. Known(x, i + 1, n) /\ j = i + 1
        BY <1>2, <2>4, ClassIsKnown DEF x, After, j
      <4>2. Progresses(next, new, n)
        BY <1>2, <1>3, <1>5, <2>1, <3>1, <4>1, ProgressTyped
      <4>3. CASE new.transitions = <<>>
        BY <4>3 DEF TellsEnd
      <4>4. ASSUME NEW leg, NEW kind \in {"ESTABLISHED", "PROTECTION_ADVANCED"},
                   new.transitions = <<[type |-> kind, leg |-> leg]>>
            PROVE  ~TellsEnd(new)
        <5>1. ASSUME NEW y, new.transitions = <<[type |-> "TERMINATED", leg |-> y]>> PROVE FALSE
          <6>1. new.transitions[1].type = kind
            BY <4>4
          <6>2. new.transitions[1].type = "TERMINATED"
            BY <5>1
          <6> QED BY <6>1, <6>2
        <5> QED BY <5>1 DEF TellsEnd
      <4> QED BY <4>2, <4>3, <4>4 DEF Progresses
    <3> QED BY <3>2, <3>3, <3>5, <3>6
  <2> QED BY <2>3, <2>4 DEF SwingComes
<1> QED BY <1>7, <1>8

StickyIn(q, leg) == \E a \in q.active : a.leg.index = leg.index /\ a.qualified

LEMMA QualifiedBy ==
    ASSUME NEW q, NEW lg, NEW leg, lg.active = {leg}, NEW n, NEW a \in QualificationUpdate(q, lg, n).active
    PROVE  a.qualified <=> StickyIn(q, leg) \/ Passes(leg)
<1> DEFINE new == QualificationUpdate(q, lg, n)
           Sticky(x) == \E y \in q.active : y.leg.index = x.index /\ y.qualified
           earned == {x \in lg.active : ~Sticky(x) /\ Passes(x)}
<1>1. new.active = {[leg |-> x, qualified |-> Sticky(x) \/ x \in earned] : x \in lg.active}
  BY DEF QualificationUpdate
<1>2. \A x : Sticky(x) <=> StickyIn(q, x)
  BY DEF StickyIn
<1> HIDE DEF new, Sticky
<1>3. PICK x \in lg.active : a = [leg |-> x, qualified |-> Sticky(x) \/ x \in earned]
  BY <1>1 DEF new
<1>4. x = leg
  OBVIOUS
<1> DEFINE value == Sticky(x) \/ x \in earned
<1>5. a.qualified = value
  <2> HIDE DEF value
  <2>1. a = [leg |-> x, qualified |-> value]
    BY <1>3 DEF value
  <2> QED BY <2>1
<1>6. x \in earned <=> ~Sticky(leg) /\ Passes(leg)
  BY <1>4
<1>7. value <=> StickyIn(q, leg) \/ Passes(leg)
  <2> HIDE DEF earned
  <2> QED BY <1>2, <1>4, <1>6
<1> HIDE DEF value
<1> QED BY <1>5, <1>7

\* The leg has passed both gates on a bar since it was established.
HasPassed(leg, b, n) == \E j \in leg.established..n : PassesAt(leg, b, j)

LEMMA QualificationKeeps ==
    ASSUME NEW i, NEW n \in Nat \ {0}, NEW lg, LegTypes(lg, i, n - 1), NEW S, NEW b, NEW c, Follows(b, c, n),
           \A leg \in lg.active : LegKeeps(leg, S, b, n - 1),
           NEW q, QualificationTypes(q, lg.active), Qualified(q, lg, b, n - 1),
           NEW k, NEW new, LegTypes(new, k, n), \A leg \in new.active : LegMade(lg.active, leg, c[n], n)
    PROVE  Qualified(QualificationUpdate(q, new, n), new, c, n)
<1> DEFINE q1 == QualificationUpdate(q, new, n)
<1> SUFFICES ASSUME NEW leg \in new.active, NEW a \in q1.active PROVE QualifiedAt(a, leg, c, n)
  BY DEF Qualified
<1>1. leg \in LegType /\ new.active = {leg}
  BY DEF LegTypes, Optional
<1>2. a.qualified <=> StickyIn(q, leg) \/ Passes(leg)
  BY <1>1, QualifiedBy
<1> SUFFICES HasPassed(leg, c, n) <=> StickyIn(q, leg) \/ Passes(leg)
  BY <1>2 DEF QualifiedAt, HasPassed
<1>3. CASE lg.active = {} /\ leg.established = n /\ Timed(leg, c[n], n)
  <2>1. ~StickyIn(q, leg)
    BY <1>3 DEF QualificationTypes, StickyIn
  <2>2. HasPassed(leg, c, n) <=> Passes(leg)
    BY <1>3, PassesBegin DEF HasPassed, Timed
  <2> QED BY <2>1, <2>2
<1>4. ASSUME NEW old \in lg.active, Continued(old, leg, c[n], n)
      PROVE  HasPassed(leg, c, n) <=> StickyIn(q, leg) \/ Passes(leg)
  <2>1. lg.active = {old} /\ old \in LegType
    BY DEF LegTypes, Optional
  <2>2. old.established \in 1..(n - 1)
    BY DEF LegKeeps
  <2>3. HasPassed(leg, c, n) <=> Passes(leg) \/ HasPassed(old, b, n - 1)
    <3>1. /\ leg.established = old.established /\ leg.initial = old.initial
          /\ leg.direction = old.direction /\ leg.duration = n - old.initial.event + 1
          /\ leg.movement = Signed(old.direction, c[n].close - old.initial.price)
      BY <1>4 DEF Continued, Timed
    <3> QED BY <1>1, <2>1, <2>2, <3>1, PassesGoOn DEF HasPassed
  <2>4. \A x \in q.active : x.leg = old /\ (x.qualified <=> HasPassed(old, b, n - 1))
    BY <2>1 DEF QualificationTypes, Qualified, QualifiedAt, HasPassed
  <2>5. \E x \in q.active : x.leg = old
    BY DEF QualificationTypes
  <2>6. leg.index = old.index
    BY <1>4 DEF Continued
  <2>7. StickyIn(q, leg) <=> HasPassed(old, b, n - 1)
    BY <2>4, <2>5, <2>6 DEF StickyIn
  <2> QED BY <2>3, <2>7
<1> QED BY <1>3, <1>4 DEF LegMade

-----------------------------------------------------------------------------
(* What a bar publishes, as a set.                                         *)

One(S) == IF S = {} THEN {} ELSE {The(S)}
ContentsOf(events) == {events[i].ref[2] : i \in DOMAIN events}

ToldSwings(m, n) == {Event("SWING_POINT_CONFIRMED", p.event, n, p) : p \in One(CurrentSwings(m.swings, n))}
ToldClasses(m, n) ==
    {Event("SWING_STRUCTURE_CLASSIFIED", c.swing.event, n, c) : c \in One(m.structure.classified)}
ToldBreaks(m, n, s) == {Event(BreakEvent[s], n, n, b.swing) : b \in One({x \in m.structure.breaks : x.side = s})}
ToldCrosses(m, n) == {Event("EMA_CROSS", n, n, [direction |-> d]) : d \in One(m.legs.crosses)}
LegEventOf(t, n) ==
    Event(LegEvent[t.type], IF t.type = "ESTABLISHED" THEN t.leg.initial.event ELSE n, n, t.leg)
ToldLegs(m, n) == {LegEventOf(t, n) : t \in ValuesOf(m.legs.transitions)}
ToldEnded(m, n) == {Event("TREND_LEG_QUALIFICATION_ENDED", n, n, e) : e \in One(m.qualification.ended)}
ToldEarned(m, n) == {Event("TREND_LEG_QUALIFIED", n, n, leg) : leg \in One(m.qualification.earned)}
ToldAll(m, n) ==
    ToldSwings(m, n) \cup ToldClasses(m, n) \cup ToldBreaks(m, n, "HIGH") \cup ToldBreaks(m, n, "LOW")
    \cup ToldCrosses(m, n) \cup ToldLegs(m, n) \cup ToldEnded(m, n) \cup ToldEarned(m, n)

Proper(s) == s \in Seq(ValuesOf(s))

LEMMA ProperOne ==
    Proper(<<>>) /\ ValuesOf(<<>>) = {} /\ \A x : Proper(<<x>>) /\ ValuesOf(<<x>>) = {x}
<1>1. Proper(<<>>) /\ ValuesOf(<<>>) = {}
  BY DEF Proper, ValuesOf
<1>2. ASSUME NEW x PROVE Proper(<<x>>) /\ ValuesOf(<<x>>) = {x}
  <2>1. ValuesOf(<<x>>) = {x}
    BY DEF ValuesOf
  <2>2. <<x>> \in Seq({x})
    OBVIOUS
  <2> QED BY <2>1, <2>2 DEF Proper
<1> QED BY <1>1, <1>2

LEMMA ProperJoined ==
    ASSUME NEW a, Proper(a), NEW b, Proper(b)
    PROVE  Proper(a \o b) /\ ValuesOf(a \o b) = ValuesOf(a) \cup ValuesOf(b)
<1> DEFINE A == ValuesOf(a)
           B == ValuesOf(b)
           c == a \o b
<1>1. a \in Seq(A) /\ b \in Seq(B)
  BY DEF Proper
<1>2. Proper(c) /\ A \subseteq ValuesOf(c) /\ B \subseteq ValuesOf(c)
  BY JoinedLogs DEF Proper
<1>3. ValuesOf(c) \subseteq A \cup B
  <2> HIDE DEF A, B
  <2>1. a \in Seq(A \cup B) /\ b \in Seq(A \cup B)
    BY <1>1
  <2>2. \A k \in DOMAIN c : c[k] \in A \cup B
    BY <2>1, JoinedValues
  <2> QED BY <2>2 DEF ValuesOf
<1> HIDE DEF c, A, B
<1>4. ValuesOf(c) = A \cup B
  BY <1>2, <1>3
<1> QED BY <1>2, <1>4 DEF c, A, B

LEMMA EventsHold ==
    ASSUME NEW m, NEW n, m.legs.transitions = <<>> \/ \E t : m.legs.transitions = <<t>>
    PROVE  ContentsOf(Events(m, n)) = ToldAll(m, n)
<1> DEFINE t == m.legs.transitions
           s6 == [i \in DOMAIN t |-> Event(LegEvent[t[i].type],
                            IF t[i].type = "ESTABLISHED" THEN t[i].leg.initial.event ELSE n, n, t[i].leg)]
           s1 == Each(CurrentSwings(m.swings, n),
                      LAMBDA p : Event("SWING_POINT_CONFIRMED", p.event, n, p))
           s2 == Each(m.structure.classified,
                      LAMBDA c : Event("SWING_STRUCTURE_CLASSIFIED", c.swing.event, n, c))
           s3 == Each({b \in m.structure.breaks : b.side = "HIGH"},
                      LAMBDA b : Event(BreakEvent.HIGH, n, n, b.swing))
           s4 == Each({b \in m.structure.breaks : b.side = "LOW"},
                      LAMBDA b : Event(BreakEvent.LOW, n, n, b.swing))
           s5 == Each(m.legs.crosses, LAMBDA d : Event("EMA_CROSS", n, n, [direction |-> d]))
           s7 == Each(m.qualification.ended,
                      LAMBDA e : Event("TREND_LEG_QUALIFICATION_ENDED", n, n, e))
           s8 == Each(m.qualification.earned, LAMBDA leg : Event("TREND_LEG_QUALIFIED", n, n, leg))
           listed == s1 \o s2 \o s3 \o s4 \o s5 \o s6 \o s7 \o s8
<1>0. Events(m, n) = [i \in DOMAIN listed |-> [event |-> listed[i].event, ref |-> <<i, listed[i]>>]]
  BY DEF Events
<1>1. Proper(s1) /\ ValuesOf(s1) = ToldSwings(m, n)
  BY ProperOne DEF Each, One, ToldSwings
<1>2. Proper(s2) /\ ValuesOf(s2) = ToldClasses(m, n)
  BY ProperOne DEF Each, One, ToldClasses
<1>3. Proper(s3) /\ ValuesOf(s3) = ToldBreaks(m, n, "HIGH")
  <2> DEFINE B == {b \in m.structure.breaks : b.side = "HIGH"}
             x == Event(BreakEvent.HIGH, n, n, The(B).swing)
  <2>1. s3 = IF B = {} THEN <<>> ELSE <<x>>
    BY DEF Each
  <2>2. ToldBreaks(m, n, "HIGH") = IF B = {} THEN {} ELSE {x}
    BY DEF ToldBreaks, One
  <2> HIDE DEF B, x, s3
  <2> QED BY <2>1, <2>2, ProperOne
<1>4. Proper(s4) /\ ValuesOf(s4) = ToldBreaks(m, n, "LOW")
  <2> DEFINE B == {b \in m.structure.breaks : b.side = "LOW"}
             x == Event(BreakEvent.LOW, n, n, The(B).swing)
  <2>1. s4 = IF B = {} THEN <<>> ELSE <<x>>
    BY DEF Each
  <2>2. ToldBreaks(m, n, "LOW") = IF B = {} THEN {} ELSE {x}
    BY DEF ToldBreaks, One
  <2> HIDE DEF B, x, s4
  <2> QED BY <2>1, <2>2, ProperOne
<1>5. Proper(s5) /\ ValuesOf(s5) = ToldCrosses(m, n)
  <2> DEFINE B == m.legs.crosses
             x == Event("EMA_CROSS", n, n, [direction |-> The(B)])
  <2>1. s5 = IF B = {} THEN <<>> ELSE <<x>>
    BY DEF Each
  <2>2. ToldCrosses(m, n) = IF B = {} THEN {} ELSE {x}
    BY DEF ToldCrosses, One
  <2> HIDE DEF B, x, s5
  <2> QED BY <2>1, <2>2, ProperOne
<1>6. Proper(s6) /\ ValuesOf(s6) = ToldLegs(m, n)
  <2>1. DOMAIN s6 = DOMAIN t /\ \A i \in DOMAIN t : s6[i] = LegEventOf(t[i], n)
    BY DEF LegEventOf
  <2>2. s6 = [i \in DOMAIN s6 |-> s6[i]]
    OBVIOUS
  <2> HIDE DEF s6
  <2>3. ValuesOf(s6) = ToldLegs(m, n)
    BY <2>1 DEF ToldLegs, ValuesOf
  <2>4. Proper(s6)
    <3>1. CASE t = <<>>
      <4>1. s6 = <<>>
        BY <2>1, <2>2, <3>1
      <4> QED BY <4>1, ProperOne
    <3>2. ASSUME NEW x, t = <<x>> PROVE Proper(s6)
      <4>1. DOMAIN s6 = {1}
        BY <2>1, <3>2
      <4>2. s6 = [i \in {1} |-> s6[1]]
        BY <2>2, <4>1
      <4>3. s6 = <<s6[1]>>
        BY <4>2
      <4> QED BY <4>3, ProperOne
    <3> QED BY <3>1, <3>2
  <2> QED BY <2>3, <2>4
<1>7. Proper(s7) /\ ValuesOf(s7) = ToldEnded(m, n)
  BY ProperOne DEF Each, One, ToldEnded
<1>8. Proper(s8) /\ ValuesOf(s8) = ToldEarned(m, n)
  BY ProperOne DEF Each, One, ToldEarned
<1> HIDE DEF s1, s2, s3, s4, s5, s6, s7, s8
<1> DEFINE j2 == s1 \o s2
           j3 == j2 \o s3
           j4 == j3 \o s4
           j5 == j4 \o s5
           j6 == j5 \o s6
           j7 == j6 \o s7
           j8 == j7 \o s8
<1>9. Proper(j2) /\ ValuesOf(j2) = ValuesOf(s1) \cup ValuesOf(s2)
  BY <1>1, <1>2, ProperJoined
<1> HIDE DEF j2
<1>10. Proper(j3) /\ ValuesOf(j3) = ValuesOf(j2) \cup ValuesOf(s3)
  BY <1>3, <1>9, ProperJoined
<1> HIDE DEF j3
<1>11. Proper(j4) /\ ValuesOf(j4) = ValuesOf(j3) \cup ValuesOf(s4)
  BY <1>4, <1>10, ProperJoined
<1> HIDE DEF j4
<1>12. Proper(j5) /\ ValuesOf(j5) = ValuesOf(j4) \cup ValuesOf(s5)
  BY <1>5, <1>11, ProperJoined
<1> HIDE DEF j5
<1>13. Proper(j6) /\ ValuesOf(j6) = ValuesOf(j5) \cup ValuesOf(s6)
  BY <1>6, <1>12, ProperJoined
<1> HIDE DEF j6
<1>14. Proper(j7) /\ ValuesOf(j7) = ValuesOf(j6) \cup ValuesOf(s7)
  BY <1>7, <1>13, ProperJoined
<1> HIDE DEF j7
<1>15. Proper(j8) /\ ValuesOf(j8) = ValuesOf(j7) \cup ValuesOf(s8)
  BY <1>8, <1>14, ProperJoined
<1>16. listed = j8
  BY DEF j2, j3, j4, j5, j6, j7
<1> HIDE DEF listed, j8
<1>17. ValuesOf(listed) = ToldAll(m, n)
  BY <1>1, <1>2, <1>3, <1>4, <1>5, <1>6, <1>7, <1>8, <1>9, <1>10, <1>11, <1>12, <1>13, <1>14, <1>15,
     <1>16 DEF ToldAll
<1>18. ContentsOf(Events(m, n)) = ValuesOf(listed)
  <2>1. DOMAIN Events(m, n) = DOMAIN listed
    BY <1>0
  <2>2. \A i \in DOMAIN listed : Events(m, n)[i].ref[2] = listed[i]
    BY <1>0
  <2> QED BY <2>1, <2>2 DEF ContentsOf, ValuesOf
<1> QED BY <1>17, <1>18

\* The transitions of a bar.
LEMMA TurnsOnce ==
    ASSUME NEW old, NEW new, NEW bar, NEW n, Turns(old, new, bar, n)
    PROVE  new.transitions = <<>> \/ \E t : new.transitions = <<t>>
BY DEF Turns, Turned, Stands

\* What is new among the references of a step is what the bar published.
LEMMA PublishedBy ==
    ASSUME NEW m, MarketTypes(m), NEW bar \in Bar, NEW new, Advanced(m, new, bar)
    PROVE  ContentsOf(new.events) = ToldAll(new, m.bars + 1)
<1> DEFINE n == m.bars + 1
           made == Made(m, bar)
<1>1. /\ made.swings = NextSwings(m, bar) /\ made.structure = NextStructure(m, bar)
      /\ made.legs = NextLegs(m, bar)
      /\ made.qualification = QualificationUpdate(m.qualification, NextLegs(m, bar), n)
  BY DEF Made
<1>2. /\ new.swings = made.swings /\ new.structure = made.structure /\ new.legs = made.legs
      /\ new.qualification = made.qualification /\ new.events = Events(made, n)
  BY <1>1 DEF Advanced
<1>3. Turns(m.legs, NextLegs(m, bar), bar, n)
  BY ChainTyped
<1> HIDE DEF n, made
<1>4. made.legs.transitions = <<>> \/ \E t : made.legs.transitions = <<t>>
  BY <1>1, <1>3, TurnsOnce
<1>5. ContentsOf(new.events) = ToldAll(made, n)
  BY <1>2, <1>4, EventsHold
<1>6. ToldAll(made, n) = ToldAll(new, n)
  BY <1>2 DEF ToldAll, ToldSwings, ToldClasses, ToldBreaks, ToldCrosses, ToldLegs, ToldEnded, ToldEarned
<1> QED BY <1>5, <1>6 DEF n

\* A leg that ends on a bar is said to have.
LEMMA EndIsTold ==
    ASSUME NEW m, MarketTypes(m), NEW bar \in Bar, NEW new, Advanced(m, new, bar), TellsEnd(new.legs)
    PROVE  EndedAt(RefsIn(new), m.bars + 1)
<1> DEFINE n == m.bars + 1
<1>1. PICK leg : new.legs.transitions = <<[type |-> "TERMINATED", leg |-> leg]>>
  BY DEF TellsEnd
<1> DEFINE t == [type |-> "TERMINATED", leg |-> leg]
           x == LegEventOf(t, n)
<1>2. t \in ValuesOf(new.legs.transitions)
  BY <1>1, ProperOne
<1>3. x \in ContentsOf(new.events)
  <2>1. x \in ToldLegs(new, n)
    BY <1>2 DEF ToldLegs
  <2> HIDE DEF x, n
  <2> QED BY <2>1, PublishedBy DEF ToldAll, n
<1>4. x.type = "TREND_LEG_ENDED" /\ x.detection = n
  BY DEF LegEventOf, Event, LegEvent
<1> HIDE DEF x, n
<1>5. PICK i \in DOMAIN new.events : new.events[i].ref[2] = x
  BY <1>3 DEF ContentsOf
<1>6. new.events[i].ref \in RefsIn(new)
  BY DEF RefsIn
<1>7. EndedAt(RefsIn(new), n)
  BY <1>4, <1>5, <1>6 DEF EndedAt
<1> QED BY <1>7 DEF n

-----------------------------------------------------------------------------
(* What waits, and what it establishes.                                    *)

LEMMA FewerEnded ==
    ASSUME NEW n \in Nat \ {0}, NEW refs, NEW refs2, refs \subseteq refs2, NEW from \in Nat,
           NoneEnded(refs2, from, n)
    PROVE  NoneEnded(refs, from, n - 1) /\ (from <= n => ~EndedAt(refs2, n))
<1>1. \A j \in from..(n - 1) : j \in from..n
  OBVIOUS
<1>2. from <= n => n \in from..n
  OBVIOUS
<1> QED BY <1>1, <1>2 DEF NoneEnded, EndedAt

LEMMA WaitsGoOn ==
    ASSUME NEW n \in Nat \ {0}, NEW S, Confirmed(S, n - 1), NEW T, Confirmed(T, n), Alternates(T),
           NEW classified, NEW c, SwingComes(S, T, classified, c, n),
           NEW lg, NEW new, NEW refs, NEW refs2, refs \subseteq refs2,
           Waits(lg, S, refs, n - 1), PendingKeeps(lg, S),
           TellsEnd(new) => EndedAt(refs2, n),
           TellsEnd(new) \/ Goes(lg, new, S, T, c[n], n)
    PROVE  Waits(new, T, refs2, n) /\ Establishes(new, T, c, refs2, n)
<1> DEFINE L == Len(S)
           M == Len(T)
<1>1. S \in Seq(SwingType) /\ T \in Seq(SwingType) /\ L \in Nat /\ M \in Nat /\ n - 1 \in Nat
  BY DEF Confirmed
<1>2. \A k \in DOMAIN T : T[k].detection \in Nat /\ T[k].detection <= n
  <2> SUFFICES ASSUME NEW k \in DOMAIN T PROVE T[k].detection \in Nat /\ T[k].detection <= n
    OBVIOUS
  <2>1. T[k].detection \in 1..n
    BY ConfirmedDates
  <2> QED BY <2>1
<1>3. \A k \in DOMAIN S : S[k].detection \in 1..(n - 1)
  <2> SUFFICES ASSUME NEW k \in DOMAIN S PROVE S[k].detection \in 1..(n - 1)
    OBVIOUS
  <2> QED BY <1>1, ConfirmedDates
<1>4. ASSUME NEW k \in DOMAIN T, NoneEnded(refs2, T[k].detection, n)
      PROVE  Goes(lg, new, S, T, c[n], n) /\ NoneEnded(refs, T[k].detection, n - 1)
  BY <1>2, <1>4, FewerEnded
<1>5. T = S \/ \E p \in SwingType : T = Append(S, p) /\ p.detection = n /\ p.index = L + 1
  BY DEF SwingComes
<1>6. Waits(new, T, refs2, n)
  <2> SUFFICES ASSUME NEW d \in Directions, T # <<>>, Corrects(T, d, M), NoneEnded(refs2, T[M].detection, n)
               PROVE  new.active # {} \/ new.pending # {}
    BY DEF Waits
  <2>1. M \in DOMAIN T
    BY <1>1
  <2>2. Goes(lg, new, S, T, c[n], n) /\ NoneEnded(refs, T[M].detection, n - 1)
    BY <1>4, <2>1
  <2>3. CASE T = S
    <3>1. lg.active # {} \/ lg.pending # {}
      BY <2>2, <2>3 DEF Waits
    <3> QED BY <2>2, <2>3, <3>1 DEF Goes
  <2>4. CASE T # S
    <3>1. ClassOf(T, M).label \in {"HL", "LH"}
      <4>1. ClassOf(T, M).label = Corrective[d]
        <5> HIDE DEF M
        <5> QED BY <1>1, <2>1, LabelSays
      <4> QED BY <4>1 DEF Corrective, Directions
    <3> QED BY <2>2, <2>4, <3>1 DEF Goes, GoesWith
  <2> QED BY <2>3, <2>4
<1>7. Establishes(new, T, c, refs2, n)
  <2> SUFFICES ASSUME NEW d \in Directions, NEW i \in DOMAIN T, FoundsOf(T, d, i), T[i + 1].detection = n,
                      NoneEnded(refs2, T[i].detection, n), ~ClosesThrough(d, c[n], T[i])
               PROVE  new.active # {}
    BY DEF Establishes
  <2>1. Goes(lg, new, S, T, c[n], n) /\ NoneEnded(refs, T[i].detection, n - 1)
    BY <1>4
  <2>2. i \in 1..M /\ i < M /\ i > 2 /\ Gains(T, d, i + 1) /\ Corrects(T, d, i)
        /\ Signed(d, T[i + 1].price - T[i].price) > 0
    BY <1>1 DEF FoundsOf, Corrects, Gains
  <2>3. T # S
    <3>1. ASSUME T = S PROVE FALSE
      <4>1. i + 1 \in DOMAIN S
        BY <1>1, <2>2, <3>1
      <4>2. S[i + 1].detection \in 1..(n - 1)
        BY <1>3, <4>1
      <4> QED BY <3>1, <4>2
    <3> QED BY <3>1
  <2>4. PICK p \in SwingType : T = Append(S, p) /\ p.detection = n /\ p.index = L + 1
    BY <1>5, <2>3
  <2>5. M = L + 1 /\ T[L + 1] = p /\ \A k \in 1..L : T[k] = S[k]
    BY <1>1, <2>4
  <2>6. i = L
    <3>1. ASSUME i # L PROVE FALSE
      <4>0. i + 1 \in 1..L
        <5> HIDE DEF L, M
        <5> QED BY <1>1, <2>2, <2>5, <3>1
      <4>1. T[i + 1] = S[i + 1] /\ i + 1 \in DOMAIN S
        BY <1>1, <2>5, <4>0
      <4>2. S[i + 1].detection \in 1..(n - 1)
        BY <1>3, <4>1
      <4> QED BY <4>1, <4>2
    <3> QED BY <3>1
  <2>7. L \in DOMAIN S /\ L > 2 /\ T[L] = S[L] /\ T[L - 2] = S[L - 2] /\ S # <<>>
    <3>1. L \in 1..L /\ L - 2 \in 1..L /\ L > 2
      <4> HIDE DEF L, M
      <4> QED BY <1>1, <2>2, <2>5, <2>6
    <3>2. T[L] = S[L] /\ T[L - 2] = S[L - 2]
      <4> HIDE DEF L, M
      <4> QED BY <2>5, <3>1
    <3>3. L \in DOMAIN S
      <4>1. DOMAIN S = 1..L
        BY <1>1
      <4> HIDE DEF L, M
      <4> QED BY <3>1, <4>1
    <3>4. S # <<>>
      <4>1. S = <<>> => L = 0
        OBVIOUS
      <4> HIDE DEF L, M
      <4> QED BY <3>1, <4>1
    <3> HIDE DEF L, M
    <3> QED BY <3>1, <3>2, <3>3, <3>4
  <2>8. Corrects(S, d, L)
    <3> HIDE DEF L, M
    <3> QED BY <2>2, <2>6, <2>7 DEF Corrects, Gains
  <2>9. lg.active # {} \/ lg.pending # {}
    <3>1. NoneEnded(refs, S[Len(S)].detection, n - 1)
      BY <2>1, <2>6, <2>7
    <3> QED BY <2>7, <2>8, <3>1 DEF Waits
  <2>10. CASE lg.active # {}
    BY <2>1, <2>10 DEF Goes
  <2>11. ASSUME NEW w \in lg.pending PROVE new.active # {}
    <3> DEFINE x == ClassOf(T, M)
    <3>1. w = ClassOf(S, L)
      BY DEF PendingKeeps, Awaited
    <3>2. w.label = Corrective[d] /\ w.swing = S[L]
      <4>1. w.swing = S[L]
        BY <3>1 DEF ClassOf
      <4>2. w.label = Corrective[d]
        <5> HIDE DEF L
        <5> QED BY <1>1, <2>7, <2>8, <3>1, LabelSays
      <4> QED BY <4>1, <4>2
    <3>3. x.label = Extending[d] /\ x.swing = p
      <4>1. M \in DOMAIN T /\ M = i + 1
        BY <1>1, <2>5, <2>6
      <4>2. T[M].side = Forward(d)
        <5>1. T[L + 1].side = Other(T[L].side)
          <6>1. L \in 1..(Len(T) - 1)
            BY <1>1, <2>5, <2>7
          <6> QED BY <6>1 DEF Alternates
        <5>2. T[L].side = Backward(d)
          BY <2>2, <2>6 DEF Corrects
        <5> QED BY <2>5, <5>1, <5>2, DirectionSides
      <4>3. x.label = Extending[d]
        <5> HIDE DEF M
        <5> QED BY <1>1, <2>2, <4>1, <4>2, LabelSays
      <4>4. x.swing = p
        BY <2>5 DEF ClassOf
      <4> QED BY <4>3, <4>4
    <3>4. S[L].detection < n
      <4>1. S[L].detection \in 1..(n - 1)
        BY <1>3, <2>7
      <4> QED BY <4>1
    <3>5. CompletesWith(w, d, x, c[n], n)
      <4>1. Signed(d, p.price - S[L].price) > 0 /\ ~ClosesThrough(d, c[n], S[L])
        BY <2>2, <2>5, <2>6, <2>7
      <4>2. p.detection > S[L].detection
        BY <2>4, <3>4, <1>3, <2>7
      <4> HIDE DEF x, L
      <4> QED BY <3>2, <3>3, <4>1, <4>2 DEF CompletesWith
    <3> HIDE DEF x
    <3>6. GoesWith(lg, new, x, c[n], n)
      BY <2>1, <2>3 DEF Goes, x
    <3> QED BY <3>5, <3>6 DEF GoesWith
  <2> QED BY <2>9, <2>10, <2>11
<1> QED BY <1>6, <1>7

\* What the swings of a bar are made from.
LEMMA SwingsReach ==
    ASSUME NEW bs \in Seq(Bar), NEW bar \in Bar, NEW m, MarketTypes(m), m.bars = Len(bs),
           SwingsHold(bs, Len(bs), m), NEW new, MarketTypes(new), Advanced(m, new, bar)
    PROVE  \E atr : /\ AtrIs(atr, Len(bs) + 1)
                    /\ SwingState(m.swings, Append(bs, bar), atr, Len(bs))
                    /\ new.swings = SwingUpdate(m.swings, bar, Len(bs) + 1, atr[Len(bs) + 1])
<1> DEFINE n == Len(bs) + 1
           cs == Append(bs, bar)
           old == AtrsOf(bs, n - 1)
           sw == m.swings
<1>1. n \in Nat \ {0} /\ n - 1 \in Nat /\ Len(bs) = n - 1
  OBVIOUS
<1>2. cs[n] = bar /\ (\A j \in 1..n : cs[j] \in Bar) /\ \A j \in 1..(n - 1) : cs[j] = bs[j] /\ bs[j] \in Bar
  OBVIOUS
<1> HIDE DEF n, cs, old
<1>3. AtrIs(old, n - 1) /\ SwingState(sw, bs, old, n - 1) /\ SwingsOf(bs, old, sw.confirmed, n - 1)
  BY <1>1 DEF SwingsHold, old
<1>4. AtrValue(new.atr) \in Nat
  <2>1. AtrTypes(new.atr)
    BY DEF MarketTypes
  <2>2. CASE new.atr.value = {}
    BY <2>2 DEF AtrValue
  <2>3. ASSUME NEW v \in Nat, new.atr.value = {v} PROVE AtrValue(new.atr) \in Nat
    BY <2>3, TheOne DEF AtrValue
  <2> QED BY <2>1, <2>2, <2>3 DEF AtrTypes, Optional
<1> DEFINE atr == [j \in 1..n |-> IF j = n THEN AtrValue(new.atr) ELSE old[j]]
<1>5. atr[n] = AtrValue(new.atr) /\ \A j \in 1..(n - 1) : atr[j] = old[j]
  BY <1>1
<1>6. AtrIs(atr, n)
  <2>1. \A j \in 1..n : j = n \/ j \in 1..(n - 1)
    BY <1>1
  <2>2. \A j \in 1..n : atr[j] \in Nat
    BY <1>3, <1>4, <1>5, <2>1 DEF AtrIs
  <2> QED BY <2>2 DEF AtrIs
<1> HIDE DEF atr
<1>7. SwingTypes(sw, n - 1)
  BY <1>1 DEF MarketTypes
<1>8. SwingState(sw, cs, atr, n - 1)
  <2>1. Prices(bs, n - 1) /\ \A j \in 1..(n - 1) : cs[j] = bs[j] /\ atr[j] = old[j]
    BY <1>2, <1>5 DEF Prices
  <2> QED BY <1>1, <1>3, <1>7, <2>1, SwingsByBars
<1>9. new.swings = SwingUpdate(sw, bar, n, atr[n])
  <2>1. m.bars + 1 = n
    BY DEF n
  <2>2. new.atr = NextAtr(m, bar)
    BY DEF Advanced
  <2> QED BY <1>5, <2>1, <2>2 DEF Advanced, NextSwings, AtrValue
<1> QED BY <1>1, <1>6, <1>8, <1>9 DEF cs, n

LEMMA StructureStays ==
    ASSUME NEW S \in Seq(SwingType), NEW st, StructureKeeps(st, S), NEW bar, NEW n
    PROVE  StructureKeeps(StructureUpdate(st, {}, bar, n), S) /\ StructureUpdate(st, {}, bar, n).classified = {}
<1> DEFINE new == StructureUpdate(st, {}, bar, n)
           classified == {Classified(st, p) : p \in {}}
           latest == [s \in Sides |-> IF \E c \in classified : c.swing.side = s
                                      THEN classified ELSE st.latest[s]]
<1>1. new.latest = latest /\ new.classified = classified
  BY DEF StructureUpdate
<1>2. classified = {}
  OBVIOUS
<1>3. \A s \in Sides : latest[s] = st.latest[s]
  BY <1>2
<1> HIDE DEF new, latest, classified
<1>4. \A s \in Sides : new.latest[s] = st.latest[s]
  BY <1>1, <1>3
<1>0. \A x \in SwingType : x.side \in Sides /\ Other(x.side) \in Sides
  BY DEF SwingType, Sides, Other
<1>5. Len(S) >= 1 => S[Len(S)].side \in Sides /\ Other(S[Len(S)].side) \in Sides
  <2>1. Len(S) >= 1 => S[Len(S)] \in SwingType
    OBVIOUS
  <2> QED BY <1>0, <2>1
<1>6. Len(S) = 1 => Other(S[1].side) \in Sides
  <2>1. Len(S) = 1 => S[1] \in SwingType
    OBVIOUS
  <2> QED BY <1>0, <2>1
<1> QED BY <1>1, <1>2, <1>4, <1>5, <1>6 DEF StructureKeeps, new

\* The swing a bar confirms is the extreme of the bars since it, and the
\* structure classifies it against the last one of its side.
LEMMA StructureContinues ==
    ASSUME NEW bs \in Seq(Bar), NEW bar \in Bar, NEW m, MarketTypes(m), m.bars = Len(bs),
           SwingsHold(bs, Len(bs), m), NEW new, MarketTypes(new), Advanced(m, new, bar),
           StructureKeeps(m.structure, m.swings.confirmed)
    PROVE  /\ StructureKeeps(new.structure, new.swings.confirmed)
           /\ SwingComes(m.swings.confirmed, new.swings.confirmed, new.structure.classified,
                         Append(bs, bar), Len(bs) + 1)
           /\ Alternates(new.swings.confirmed)
<1> DEFINE n == Len(bs) + 1
           cs == Append(bs, bar)
           S == m.swings.confirmed
           T == new.swings.confirmed
           st == m.structure
           current == CurrentSwings(new.swings, n)
<1>1. n \in Nat \ {0} /\ n - 1 \in Nat /\ Len(bs) = n - 1
  OBVIOUS
<1>2. Prices(cs, n) /\ cs[n] = bar
  BY DEF Prices
<1>3. SwingTypes(m.swings, n - 1) /\ Confirmed(S, n - 1) /\ S \in Seq(SwingType)
      /\ SwingTypes(new.swings, n) /\ T \in Seq(SwingType)
  <2>1. new.bars = n
    BY DEF Advanced
  <2> HIDE DEF n
  <2> QED BY <1>1, <2>1 DEF MarketTypes, SwingTypes, Confirmed
<1>4. SwingsHold(cs, n, new)
  BY SwingsContinue
<1>5. PICK atr : /\ AtrIs(atr, n) /\ SwingState(m.swings, cs, atr, n - 1)
                 /\ new.swings = SwingUpdate(m.swings, bar, n, atr[n])
  BY <1>1, SwingsReach
<1>6. new.structure = StructureUpdate(st, current, bar, n)
  <2>1. new.swings = NextSwings(m, bar) /\ m.bars + 1 = n
    BY DEF Advanced
  <2> QED BY <2>1 DEF Advanced, NextStructure
<1> HIDE DEF n, cs
<1>7. Alternates(S) /\ Alternates(T)
  BY <1>1, <1>3, <1>4, SwingsAlternate DEF SwingsHold
<1>8. Confirms(S, T, n)
  <2>1. atr[n] \in Nat
    BY <1>1, <1>5 DEF AtrIs
  <2> QED BY <1>1, <1>3, <1>5, <2>1, SwingUpdateTyped
<1>9. \/ T = S /\ current = {}
      \/ \E p \in SwingType : /\ T = Append(S, p) /\ current = {p} /\ p.index = Len(S) + 1
                              /\ p.detection = n /\ p.event \in 1..(n - 1)
  <2> DEFINE sw == new.swings
  <2>1. Confirms(S, sw.confirmed, n)
    BY <1>8
  <2> HIDE DEF S, sw
  <2>2. \/ sw.confirmed = S /\ CurrentSwings(sw, n) = {}
        \/ \E p \in SwingType : /\ sw.confirmed = Append(S, p) /\ CurrentSwings(sw, n) = {p}
                                /\ p.index = Len(S) + 1
                                /\ p.detection = n /\ p.event \in 1..(n - 1)
    BY <1>1, <1>3, <2>1, CurrentSwing
  <2> QED BY <2>2 DEF sw
<1> HIDE DEF current
<1>10. CASE T = S /\ current = {}
  <2>1. StructureKeeps(new.structure, S) /\ new.structure.classified = {}
    BY <1>3, <1>6, <1>10, StructureStays
  <2> QED BY <1>7, <1>10, <2>1 DEF SwingComes, n, cs
<1>11. ASSUME NEW p \in SwingType, T = Append(S, p), current = {p}, p.index = Len(S) + 1,
              p.detection = n, p.event \in 1..(n - 1)
       PROVE  /\ StructureKeeps(new.structure, T)
              /\ SwingComes(S, T, new.structure.classified, cs, n)
  <2>1. Tops(p.side, cs, p.event, n, p.price)
    <3>1. SwingUpdate(m.swings, cs[n], n, atr[n]).confirmed = Append(m.swings.confirmed, p)
      BY <1>2, <1>5, <1>11
    <3> QED BY <1>1, <1>2, <1>3, <1>5, <3>1, SwingIsExtreme
  <2>2. S # <<>> => p.side = Other(S[Len(S)].side)
    <3> SUFFICES ASSUME S # <<>> PROVE p.side = Other(S[Len(S)].side)
      OBVIOUS
    <3>1. Len(S) \in 1..(Len(T) - 1) /\ T[Len(S) + 1] = p /\ T[Len(S)] = S[Len(S)]
      BY <1>3, <1>11
    <3>2. T[Len(S) + 1].side = Other(T[Len(S)].side)
      BY <1>7, <3>1 DEF Alternates
    <3> QED BY <3>1, <3>2
  <2>3. StructureMade(new.structure, S, p)
    <3>1. new.structure = StructureUpdate(st, {p}, bar, n)
      BY <1>6, <1>11
    <3>2. NextSide(S, p)
      BY <2>2 DEF NextSide
    <3>3. StructureKeeps(st, S)
      OBVIOUS
    <3> HIDE DEF S, st
    <3> QED BY <1>3, <3>1, <3>2, <3>3, StructureGoesOn
  <2> QED BY <1>11, <2>1, <2>3 DEF SwingComes, StructureMade
<1> QED BY <1>7, <1>9, <1>10, <1>11 DEF n, cs

LEMMA LegsBegin == LegsHold(<<>>, 0, FreshMarket, {})
<1> DEFINE m == FreshMarket
<1>1. /\ m.swings.confirmed = <<>> /\ m.structure.latest = [s \in Sides |-> {}]
      /\ m.legs.active = {} /\ m.legs.pending = {}
  BY DEF FreshMarket, FreshSwings, FreshStructure, FreshLegs
<1> HIDE DEF m
<1>2. StructureKeeps(m.structure, <<>>)
  <2>1. Len(<<>>) = 0
    OBVIOUS
  <2> QED BY <1>1, <2>1 DEF StructureKeeps
<1>3. Qualified(m.qualification, m.legs, <<>>, 0) /\ PendingKeeps(m.legs, <<>>)
  BY <1>1 DEF Qualified, PendingKeeps
<1>4. Waits(m.legs, <<>>, {}, 0) /\ Establishes(m.legs, <<>>, <<>>, {}, 0)
  BY DEF Waits, Establishes
<1>5. LegsHold(<<>>, 0, m, {})
  BY <1>1, <1>2, <1>3, <1>4 DEF LegsHold
<1> QED BY <1>5 DEF m

LEMMA EndedMore ==
    ASSUME NEW refs, NEW more, NEW n, EndedAt(more, n) PROVE EndedAt(refs \cup more, n)
BY DEF EndedAt

LEMMA LegsContinue ==
    ASSUME ThresholdsDescend, NEW b \in Seq(Bar), NEW bar \in Bar, NEW m, MarketTypes(m), m.bars = Len(b),
           SwingsHold(b, Len(b), m), NEW rt, RuntimeTypes(rt, Len(b)), LegsHold(b, Len(b), m, rt.refs),
           NEW new, MarketTypes(new), Advanced(m, new, bar), Publishes(new, bar)
    PROVE  LegsHold(Append(b, bar), Len(b) + 1, new, StepOf(rt, new, bar).refs)
<1> DEFINE n == Len(b) + 1
           c == Append(b, bar)
           rt2 == StepOf(rt, new, bar)
           S == m.swings.confirmed
           T == new.swings.confirmed
           lg == m.legs
           next == new.legs
           classified == new.structure.classified
           ema == EmaUpdate(m.ema, bar).value
           q == m.qualification
<1>1. n \in Nat \ {0} /\ n - 1 \in Nat /\ Len(b) = n - 1
  OBVIOUS
<1>2. Follows(b, c, n) /\ c[n] = bar
  BY DEF Follows, Prices
<1>3. new.bars = n /\ m.bars = n - 1
  BY <1>1 DEF Advanced
<1>4. /\ StructureKeeps(new.structure, T)
      /\ SwingComes(S, T, classified, c, n)
      /\ Alternates(T)
  BY StructureContinues DEF LegsHold
<1>5. /\ next = LegUpdate(lg, classified, ema, bar, n)
      /\ new.qualification = QualificationUpdate(q, next, n)
  BY DEF Advanced, NextLegs
<1>6. rt2.refs = rt.refs \cup RefsIn(new)
  <2>1. Steps(rt, rt2, new, bar)
    BY <1>1, <1>3, RuntimeCommits
  <2> QED BY <2>1 DEF Steps
<1>7. TellsEnd(next) => EndedAt(rt2.refs, n)
  <2>1. TellsEnd(next) => EndedAt(RefsIn(new), n)
    BY EndIsTold
  <2> QED BY <1>6, <2>1, EndedMore
<1> HIDE DEF n, c, rt2, ema
<1>8. /\ Confirmed(S, n - 1) /\ LegTypes(lg, Len(S), n - 1) /\ QualificationTypes(q, lg.active)
      /\ Confirmed(T, n) /\ LegTypes(next, Len(T), n)
  BY <1>3 DEF MarketTypes, SwingTypes
<1>9. /\ \A leg \in lg.active : LegKeeps(leg, S, b, n - 1)
      /\ Qualified(q, lg, b, n - 1) /\ PendingKeeps(lg, S) /\ Waits(lg, S, rt.refs, n - 1)
  BY <1>1 DEF LegsHold
<1> HIDE DEF S, T, lg, next, classified, q
<1>10. /\ \A leg \in next.active : LegKeeps(leg, T, c, n) /\ LegMade(lg.active, leg, c[n], n)
       /\ PendingKeeps(next, T)
       /\ TellsEnd(next) \/ Goes(lg, next, S, T, c[n], n)
  <2> DEFINE made == LegUpdate(lg, classified, ema, c[n], n)
  <2>1. next = made
    BY <1>2, <1>5
  <2>2. /\ \A leg \in made.active : LegKeeps(leg, T, c, n) /\ LegMade(lg.active, leg, c[n], n)
        /\ PendingKeeps(made, T)
        /\ TellsEnd(made) \/ Goes(lg, made, S, T, c[n], n)
    BY <1>1, <1>2, <1>4, <1>8, <1>9, LegsMake
  <2> HIDE DEF made
  <2> QED BY <2>1, <2>2
<1>11. Qualified(new.qualification, next, c, n)
  BY <1>1, <1>2, <1>5, <1>8, <1>9, <1>10, QualificationKeeps
<1>12. Waits(next, T, rt2.refs, n) /\ Establishes(next, T, c, rt2.refs, n)
  <2>1. rt.refs \subseteq rt2.refs
    BY <1>6
  <2> QED BY <1>1, <1>4, <1>7, <1>8, <1>9, <1>10, <2>1, WaitsGoOn
<1>13. LegsHold(c, n, new, rt2.refs)
  BY <1>4, <1>10, <1>11, <1>12 DEF LegsHold, T, next
<1> QED BY <1>13 DEF c, n, rt2

LegInv == SwingInv /\ LegsHold(bars, Len(bars), market, runtime.refs)

LEMMA LegInvKeeps == ThresholdsDescend /\ LegInv /\ [Next]_vars => LegInv'
<1> SUFFICES ASSUME ThresholdsDescend, LegInv, [Next]_vars PROVE LegInv'
  OBVIOUS
<1>1. MarketInv /\ MarketInv' /\ SwingInv /\ SwingInv'
  BY NextKeeps, SwingInvKeeps DEF LegInv, SwingInv
<1>2. CASE UNCHANGED vars
  BY <1>1, <1>2 DEF vars, LegInv
<1>3. CASE Next
  <2>1. PICK bar \in Bar : Consumes(bar)
    BY <1>1, <1>3, NextConsumes
  <2>2. bars' = Append(bars, bar) /\ Len(bars') = Len(bars) + 1 /\ bars \in Seq(Bar)
    BY <1>1, <2>1 DEF Consumes, MarketInv
  <2>3. /\ MarketTypes(market) /\ market.bars = Len(bars) /\ MarketTypes(market')
        /\ Advanced(market, market', bar) /\ Publishes(market', bar)
        /\ runtime' = StepOf(runtime, market', bar) /\ RuntimeTypes(runtime, Len(bars))
        /\ SwingsHold(bars, Len(bars), market)
        /\ LegsHold(bars, Len(bars), market, runtime.refs)
    BY <1>1, <2>1 DEF Consumes, MarketInv, SwingInv, LegInv
  <2>4. LegsHold(Append(bars, bar), Len(bars) + 1, market', StepOf(runtime, market', bar).refs)
    BY <2>2, <2>3, LegsContinue
  <2>5. LegsHold(bars', Len(bars'), market', runtime'.refs)
    BY <2>2, <2>3, <2>4
  <2> QED BY <1>1, <2>5 DEF LegInv
<1> QED BY <1>2, <1>3

LEMMA FoundsIs ==
    ASSUME NEW S, NEW d, NEW i \in Int
    PROVE  FoundsOf(S, d, i) <=> /\ S[i].side = Backward(d)
                                 /\ i > 2 /\ i < Len(S)
                                 /\ Signed(d, S[i].price - S[i - 2].price) * Unit > Tolerance(S[i])
                                 /\ Signed(d, S[i + 1].price - S[i - 1].price) * Unit > Tolerance(S[i + 1])
                                 /\ Signed(d, S[i + 1].price - S[i].price) > 0
<1>1. (i + 1) - 2 = i - 1 /\ (i > 2 => i + 1 > 2)
  OBVIOUS
<1> QED BY <1>1 DEF FoundsOf, Corrects, Gains

LEMMA QuietIs ==
    ASSUME NEW from, Published("TREND_LEG_ENDED", from, Now) = {}
    PROVE  NoneEnded(runtime.refs, from, Now)
BY DEF Published, History, NoneEnded, EndedAt

\* What the definition says of an active leg.
LEMMA LegIs ==
    ASSUME LegInv, NEW leg \in market.legs.active
    PROVE  /\ leg.duration = Now - leg.initial.event + 1
           /\ leg.extreme = IF leg.direction = "UP"
                            THEN Max({bars[j].high : j \in market.swings.confirmed[leg.initial.index + 1].event..Now})
                            ELSE Min({bars[j].low : j \in market.swings.confirmed[leg.initial.index + 1].event..Now})
<1> DEFINE S == market.swings.confirmed
           n == Len(bars)
           d == leg.direction
           from == S[leg.initial.index + 1].event
           x == leg.extreme
<1>1. /\ bars \in Seq(Bar) /\ n \in Nat /\ MarketTypes(market) /\ market.bars = n
      /\ LegKeeps(leg, S, bars, n)
  BY DEF LegInv, SwingInv, MarketInv, LegsHold
<1>2. LegAt(leg, n) /\ leg \in LegType /\ Confirmed(S, n)
  BY <1>1 DEF MarketTypes, LegTypes, LegAt, SwingTypes
<1>3. leg.duration = Now - leg.initial.event + 1
  BY <1>2 DEF LegAt, Now
<1>4. d \in Directions /\ x \in Int /\ leg.initial.index \in Nat
  BY <1>2 DEF LegType, SwingType
<1>5. from \in Nat \ {0}
  <2>1. FoundedBy(S, d, leg.initial)
    BY <1>1 DEF LegKeeps
  <2>2. leg.initial.index + 1 \in DOMAIN S
    <3>1. leg.initial.index \in DOMAIN S /\ leg.initial.index < Len(S)
      BY <2>1 DEF FoundedBy, FoundsOf
    <3>2. S \in Seq(SwingType)
      BY <1>2 DEF Confirmed
    <3> QED BY <1>4, <3>1, <3>2
  <2>3. from \in 1..n
    BY <1>1, <1>2, <2>2, ConfirmedDates
  <2> QED BY <2>3
<1>6. Tops(Forward(d), bars, from, n, x) /\ Prices(bars, n)
  BY <1>1 DEF LegKeeps, Prices
<1> HIDE DEF x, from, n, d
<1>7. x = BestOf(d, bars, from, n)
  <2>1. n \in Nat
    BY <1>1
  <2> QED BY <2>1, <1>4, <1>5, <1>6, TopsIs
<1> QED BY <1>3, <1>7 DEF x, d, from, n, Now, BestOf

LEMMA LegsSay == LegInv => LegsAreReference
<1> SUFFICES ASSUME LegInv PROVE LegsAreReference
  OBVIOUS
<1> DEFINE S == market.swings.confirmed
           Founds(d, i) ==
             /\ S[i].side = Backward(d)
             /\ i > 2 /\ i < Len(S)
             /\ Signed(d, S[i].price - S[i - 2].price) * Unit > Tolerance(S[i])
             /\ Signed(d, S[i + 1].price - S[i - 1].price) * Unit > Tolerance(S[i + 1])
             /\ Signed(d, S[i + 1].price - S[i].price) > 0
           Quiet(from) == Published("TREND_LEG_ENDED", from, Now) = {}
           Best(leg) == IF leg.direction = "UP"
                        THEN Max({bars[j].high : j \in S[leg.initial.index + 1].event .. Now})
                        ELSE Min({bars[j].low : j \in S[leg.initial.index + 1].event .. Now})
<1>1. /\ \A leg \in market.legs.active : LegKeeps(leg, S, bars, Now)
      /\ Qualified(market.qualification, market.legs, bars, Now)
      /\ Establishes(market.legs, S, bars, runtime.refs, Now)
  BY DEF LegInv, LegsHold, Now
<1>2. S \in Seq(SwingType) /\ DOMAIN S \subseteq Int /\ Len(S) \in Nat
  <2>1. S \in Seq(SwingType)
    BY DEF LegInv, SwingInv, MarketInv, MarketTypes, SwingTypes, Confirmed
  <2> HIDE DEF S
  <2> QED BY <2>1
<1>3. \A d : \A i \in Int : Founds(d, i) <=> FoundsOf(S, d, i)
  BY FoundsIs
<1>4. \A from : Quiet(from) => NoneEnded(runtime.refs, from, Now)
  BY QuietIs
<1>5. \A leg \in market.legs.active : leg.duration = Now - leg.initial.event + 1 /\ leg.extreme = Best(leg)
  BY LegIs
<1>6. LegsAreReference <=>
        /\ \A leg \in market.legs.active :
             /\ Founds(leg.direction, leg.initial.index) /\ Founds(leg.direction, leg.protected.index)
             /\ Signed(leg.direction, leg.protected.price - leg.initial.price) >= 0
             /\ \A j \in leg.since .. Now : ~ClosesThrough(leg.direction, bars[j], leg.protected)
             /\ leg.duration = Now - leg.initial.event + 1
             /\ leg.extreme = Best(leg) /\ leg.retracement = Signed(leg.direction, Best(leg) - bars[Now].close)
             /\ \A q \in market.qualification.active :
                  q.qualified <=> \E j \in leg.established .. Now :
                    /\ j - leg.initial.event + 1 >= MinDuration
                    /\ Signed(leg.direction, bars[j].close - leg.initial.price) >= MinMovement
        /\ \A d \in Directions : \A i \in DOMAIN S :
             /\ Founds(d, i) /\ S[i + 1].detection = Now
             /\ Quiet(S[i].detection) /\ ~ClosesThrough(d, bars[Now], S[i])
             => market.legs.active # {}
  BY DEF LegsAreReference
<1> HIDE DEF S, Founds, Quiet, Best
<1>7. ASSUME NEW leg \in market.legs.active
      PROVE  /\ Founds(leg.direction, leg.initial.index) /\ Founds(leg.direction, leg.protected.index)
             /\ Signed(leg.direction, leg.protected.price - leg.initial.price) >= 0
             /\ \A j \in leg.since .. Now : ~ClosesThrough(leg.direction, bars[j], leg.protected)
             /\ leg.duration = Now - leg.initial.event + 1
             /\ leg.extreme = Best(leg) /\ leg.retracement = Signed(leg.direction, Best(leg) - bars[Now].close)
  <2>1. LegKeeps(leg, S, bars, Now)
    BY <1>1
  <2>2. FoundedBy(S, leg.direction, leg.initial) /\ FoundedBy(S, leg.direction, leg.protected)
    BY <2>1 DEF LegKeeps
  <2>3. Founds(leg.direction, leg.initial.index) /\ Founds(leg.direction, leg.protected.index)
    <3>1. leg.initial.index \in Int /\ leg.protected.index \in Int
      BY <1>2, <2>2 DEF FoundedBy
    <3> QED BY <1>3, <2>2, <3>1 DEF FoundedBy
  <2> QED BY <1>5, <2>1, <2>3 DEF LegKeeps
<1>8. ASSUME NEW leg \in market.legs.active, NEW q \in market.qualification.active
      PROVE  q.qualified <=> \E j \in leg.established .. Now :
                    /\ j - leg.initial.event + 1 >= MinDuration
                    /\ Signed(leg.direction, bars[j].close - leg.initial.price) >= MinMovement
  BY <1>1 DEF Qualified, QualifiedAt, PassesAt
<1>9. ASSUME NEW d \in Directions, NEW i \in DOMAIN S, Founds(d, i), S[i + 1].detection = Now,
             Quiet(S[i].detection), ~ClosesThrough(d, bars[Now], S[i])
      PROVE  market.legs.active # {}
  <2>1. FoundsOf(S, d, i)
    BY <1>2, <1>3, <1>9
  <2> QED BY <1>1, <1>4, <1>9, <2>1 DEF Establishes
<1> QED BY <1>6, <1>7, <1>8, <1>9

\* Whatever the bars and the parameters, what is published of a leg is what the
\* bars since its swings say: two swings of its direction, the corrective one
\* and the extreme after it, founded it, no close since has broken the level
\* that protects it, its measures cover every bar, it is qualified from the
\* first bar it passes both gates, and a pair of swings that founds a leg while
\* none has ended establishes one (trend_leg.py:288,
\* trend_leg_qualification.py:258).
THEOREM LegsFollowSwings == ThresholdsDescend => (Spec => []LegsAreReference)
<1> SUFFICES ASSUME ThresholdsDescend PROVE Spec => []LegsAreReference
  OBVIOUS
<1>1. Init => LegInv
  <2> SUFFICES ASSUME Init PROVE LegInv
    OBVIOUS
  <2>1. bars = <<>> /\ Len(bars) = 0 /\ market = FreshMarket /\ runtime = FreshRuntime(Patterns)
    BY DEF Init
  <2>2. runtime.refs = {}
    BY <2>1 DEF FreshRuntime
  <2> QED BY <2>1, <2>2, InitHolds, SwingsBegin, LegsBegin DEF LegInv, SwingInv
<1>2. LegInv /\ [Next]_vars => LegInv'
  BY LegInvKeeps
<1>3. LegInv => LegsAreReference
  BY LegsSay
<1> QED BY <1>1, <1>2, <1>3, PTL DEF Spec

-----------------------------------------------------------------------------
(* Open candidates against what has been published since they opened.      *)

\* What was published of a type on bar j.
On(refs, type, j) == {e \in {r[2] : r \in refs} : e.type = type /\ e.detection = j}

\* What decides a candidate on bar j.
EndedOn(refs, k, j) == \E e \in On(refs, "TREND_LEG_ENDED", j) : e.evidence.index = k
ExtremeOn(refs, d, j) == \E e \in On(refs, "SWING_STRUCTURE_CLASSIFIED", j) : e.evidence.label = Extending[d]
BrokenOn(refs, swing, j) == \E e \in On(refs, BreakEvent[swing.side], j) : e.evidence = swing
ReclaimedOn(refs, d, j) == \E e \in On(refs, "EMA_CROSS", j) : e.evidence.direction = d

Strikes(s, t, refs, c, j) ==
    \/ s = Reversal /\ t = "protected_swing_break" /\ EndedOn(refs, c.leg, j)
    \/ s = Reversal /\ t = "same_direction_extreme" /\ ExtremeOn(refs, c.direction, j)
    \/ s = Continuation /\ t = "protected_swing_break" /\ BrokenOn(refs, c.protected, j)
    \/ s = Continuation /\ t = "ema_reclaim" /\ ReclaimedOn(refs, c.direction, j)

\* A reclaim, and on that bar or later a break of the swing it continues.
FollowsUp(refs, c, b) ==
    \E i \in c.started + 1..b : \E j \in i..b : ReclaimedOn(refs, c.direction, i) /\ BrokenOn(refs, c.continuation, j)

\* What a candidate that remembers c is decided by, by bar b.
Decides(s, t, refs, c, b) ==
    \/ t = "candidate_age_limit" /\ b - c.started >= MaxAge
    \/ \E j \in c.started + 1..b : Strikes(s, t, refs, c, j)
    \/ s = Continuation /\ t = "continuation_break" /\ FollowsUp(refs, c, b)

\* The leg last published by bar a has number k and direction d.
LastLeg(refs, a, k, d) ==
    \E j \in 1..a : \E e \in On(refs, "TREND_LEG_STARTED", j) :
      /\ e.evidence.index = k /\ e.evidence.direction = d
      /\ \A i \in j..a : On(refs, "TREND_LEG_STARTED", i) \subseteq {e}

\* The latest swing of a side by bar a.
LatestSwing(S, a, side, p) ==
    \E i \in DOMAIN S :
      /\ S[i] = p /\ p.side = side /\ p.detection <= a
      /\ \A j \in DOMAIN S : S[j].side = side /\ S[j].detection <= a => j <= i

\* What a candidate remembers of the bar it opened on.
Scene(s, refs, S, c) ==
    /\ LastLeg(refs, c.started, c.leg, c.direction) /\ c.direction \in Directions
    /\ s = Continuation => /\ LatestSwing(S, c.started, Backward(c.direction), c.protected)
                           /\ LatestSwing(S, c.started, Forward(c.direction), c.continuation)

Remembers(s, c) ==
    {"direction", "leg", "started"} \cup (IF s = Continuation THEN {"protected", "continuation"} ELSE {}) \subseteq DOMAIN c

Trends == {Continuation, Reversal}
OpenStates == {"CANDIDATE", "RECLAIMED"}

\* What has decided an open candidate: nothing but the reclaim of a reclaimed one.
OnlyReclaimed(s, state, refs, c, b) ==
    /\ \A t : Decides(s, t, refs, c, b) => state = "RECLAIMED" /\ t = "ema_reclaim"
    /\ state = "RECLAIMED" => Decides(s, "ema_reclaim", refs, c, b)

RunsIn(lg, c) == \E leg \in lg.active : leg.index = c.leg /\ leg.direction = c.direction

\* An open candidate of slot s, after bar n.
CandidateHolds(s, slot, refs, S, lg, n) ==
    /\ Remembers(s, slot.context) /\ slot.context.started \in 1..n
    /\ Scene(s, refs, S, slot.context)
    /\ OnlyReclaimed(s, slot.state, refs, slot.context, n)
    /\ s = Reversal => slot.state = "CANDIDATE" /\ RunsIn(lg, slot.context)

\* The occurrence event i of the log is of has opened on bar a.
Opens(e, s) == e.slot = s /\ e.edge.from = "INACTIVE"
Opened(log, s, i, a) ==
    /\ \E j \in 1..i : Opens(log[j], s) /\ log[j].detection = a
    /\ \A j \in 1..i : Opens(log[j], s) => log[j].detection <= a

\* An event of a candidate that remembers c is the first that decided it, by
\* precedence among those of its bar.
Fits(s, e, refs, c) ==
    /\ e.edge.to = "CANDIDATE" => e.detection = c.started
    /\ e.edge.to # "CANDIDATE" =>
         /\ Decides(s, e.edge.trigger, refs, c, e.detection)
         /\ e.edge.to # "RECLAIMED" => \A t : Decides(s, t, refs, c, e.detection - 1) => t = "ema_reclaim"
         /\ e.edge.trigger # "ema_reclaim" =>
              \A t : Decides(s, t, refs, c, e.detection) /\ t # "ema_reclaim" =>
                Rank(Patterns[s], e.edge.trigger) <= Rank(Patterns[s], t)

Explained(log, s, i, refs, S) ==
    \E c : Scene(s, refs, S, c) /\ Opened(log, s, i, c.started) /\ Fits(s, log[i], refs, c)

LastOf(log, s, i) == \A j \in i + 1..Len(log) : log[j].slot # s

Traced(log, s, slot, refs, S, n) ==
    /\ \A i \in DOMAIN log : log[i].slot = s => log[i].detection \in 1..n /\ Explained(log, s, i, refs, S)
    /\ \A i \in DOMAIN log : log[i].slot = s /\ LastOf(log, s, i) /\ log[i].edge.to \in OpenStates
                             => log[i].edge.to = slot.state
    /\ slot.state \in OpenStates => Opened(log, s, Len(log), slot.context.started)

\* What has been published is dated on the bars consumed.
DatedBy(refs, n) == \A r \in refs : r[2].detection \in 1..n

LegsStarted(lg, refs, n) == \A leg \in lg.active : LastLeg(refs, n, leg.index, leg.direction)

\* Every event of the log is of a binding.
LoggedBy(log) == \A i \in DOMAIN log : log[i].slot \in 1..3

CandidatesHold(n, m, rt) ==
    /\ DatedBy(rt.refs, n)
    /\ LoggedBy(rt.log)
    /\ LegsStarted(m.legs, rt.refs, n)
    /\ \A s \in Trends :
         /\ SlotShape(rt.slots[s])
         /\ rt.slots[s].state \in OpenStates =>
              CandidateHolds(s, rt.slots[s], rt.refs, m.swings.confirmed, m.legs, n)
         /\ Traced(rt.log, s, rt.slots[s], rt.refs, m.swings.confirmed, n)

-----------------------------------------------------------------------------
(* What was published by the bar before stays.                             *)

Same(refs, refs2, n) == \A type : \A j \in 1..(n - 1) : On(refs2, type, j) = On(refs, type, j)

\* What is told of the bar n is what the market state publishes on it.
Hears(refs, m, n) == \A type : On(refs, type, n) = Observed(m, type)

\* What is published on a bar joins what was published before it.
LEMMA OnGrows ==
    ASSUME NEW n \in Nat \ {0}, NEW refs, DatedBy(refs, n - 1), NEW m, m.bars = n, NEW bar,
           AllTold(m.events, bar, n)
    PROVE  /\ DatedBy(refs \cup RefsIn(m), n) /\ Same(refs, refs \cup RefsIn(m), n)
           /\ Hears(refs \cup RefsIn(m), m, n)
<1> DEFINE more == RefsIn(m)
           both == refs \cup more
<1>1. \A r \in refs : r[2].detection \in 1..(n - 1) /\ r[2].detection \in 1..n /\ r[2].detection # n
  BY DEF DatedBy
<1>2. ASSUME NEW i \in DOMAIN m.events PROVE m.events[i].ref[2].detection = n
  <2>1. PICK x : m.events[i] = [event |-> x.event, ref |-> <<i, x>>] /\ Told(x, bar, n)
    BY DEF AllTold
  <2>2. m.events[i].ref[2] = x
    BY <2>1
  <2> QED BY <2>1, <2>2 DEF Told
<1>3. \A r \in more : r[2].detection = n
  BY <1>2 DEF RefsIn
<1>4. {r[2] : r \in more} = ContentsOf(m.events)
  BY DEF RefsIn, ContentsOf
<1>5. \A x \in ContentsOf(m.events) : x.detection = n
  BY <1>2 DEF ContentsOf
<1>6. \A type : Observed(m, type) = {x \in ContentsOf(m.events) : x.type = type}
  BY DEF Observed, ContentsOf
<1> HIDE DEF more, both
<1>7. DatedBy(both, n)
  <2>1. n \in 1..n
    OBVIOUS
  <2> QED BY <1>1, <1>3, <2>1 DEF DatedBy, both
<1>8. ASSUME NEW type, NEW j \in 1..(n - 1) PROVE On(both, type, j) = On(refs, type, j)
  <2>1. j # n
    OBVIOUS
  <2>2. \A r \in more : r[2].detection # j
    BY <1>3, <2>1
  <2> QED BY <2>2 DEF On, both
<1>9. ASSUME NEW type PROVE On(both, type, n) = Observed(m, type)
  <2>1. On(both, type, n) = {x \in {r[2] : r \in more} : x.type = type}
    BY <1>1, <1>3 DEF On, both
  <2> QED BY <1>4, <1>6, <2>1
<1> QED BY <1>7, <1>8, <1>9 DEF Same, Hears, both, more

\* What struck a candidate on an earlier bar is read the same ever after.
LEMMA StrikesStay ==
    ASSUME NEW n, NEW refs, NEW refs2, Same(refs, refs2, n), NEW j \in 1..(n - 1), NEW s, NEW t, NEW c
    PROVE  /\ Strikes(s, t, refs2, c, j) <=> Strikes(s, t, refs, c, j)
           /\ \A d : ReclaimedOn(refs2, d, j) <=> ReclaimedOn(refs, d, j)
           /\ \A swing : BrokenOn(refs2, swing, j) <=> BrokenOn(refs, swing, j)
<1>1. \A type : On(refs2, type, j) = On(refs, type, j)
  BY DEF Same
<1>2. \A k : EndedOn(refs2, k, j) <=> EndedOn(refs, k, j)
  BY <1>1 DEF EndedOn
<1>3. \A d : ExtremeOn(refs2, d, j) <=> ExtremeOn(refs, d, j)
  BY <1>1 DEF ExtremeOn
<1>4. \A d : ReclaimedOn(refs2, d, j) <=> ReclaimedOn(refs, d, j)
  BY <1>1 DEF ReclaimedOn
<1>5. \A swing : BrokenOn(refs2, swing, j) <=> BrokenOn(refs, swing, j)
  BY <1>1 DEF BrokenOn
<1> QED BY <1>2, <1>3, <1>4, <1>5 DEF Strikes

\* What has decided a candidate by an earlier bar stays so.
LEMMA DecidesStays ==
    ASSUME NEW n \in Nat \ {0}, NEW refs, NEW refs2, Same(refs, refs2, n), NEW c, c.started \in Nat,
           NEW b \in Int, b <= n - 1, NEW s, NEW t
    PROVE  Decides(s, t, refs2, c, b) <=> Decides(s, t, refs, c, b)
<1> DEFINE a == c.started
<1>1. \A j \in a + 1..b : j \in 1..(n - 1) /\ \A i \in j..b : i \in 1..(n - 1)
  OBVIOUS
<1> HIDE DEF a
<1>2. \A j \in a + 1..b : Strikes(s, t, refs2, c, j) <=> Strikes(s, t, refs, c, j)
  BY <1>1, StrikesStay
<1>3. FollowsUp(refs2, c, b) <=> FollowsUp(refs, c, b)
  <2>1. \A i \in a + 1..b : \A j \in i..b :
          /\ ReclaimedOn(refs2, c.direction, i) <=> ReclaimedOn(refs, c.direction, i)
          /\ BrokenOn(refs2, c.continuation, j) <=> BrokenOn(refs, c.continuation, j)
    BY <1>1, StrikesStay
  <2> QED BY <2>1 DEF FollowsUp, a
<1> QED BY <1>2, <1>3 DEF Decides, a

\* What decides a candidate on the bar itself.
DecidesNow(s, t, refs, c, n) ==
    \/ t = "candidate_age_limit" /\ n - c.started >= MaxAge
    \/ Strikes(s, t, refs, c, n)
    \/ /\ s = Continuation /\ t = "continuation_break"
       /\ BrokenOn(refs, c.continuation, n) /\ Decides(s, "ema_reclaim", refs, c, n)

LEMMA MaxAgeIsNat == MaxAge \in Nat \ {0}
BY MaxAgeAssumption

\* A waiting continuation is reclaimed when the close has crossed in its direction.
LEMMA ReclaimDecides ==
    ASSUME NEW refs, NEW c, NEW b
    PROVE  Decides(Continuation, "ema_reclaim", refs, c, b) <=>
             \E i \in c.started + 1..b : ReclaimedOn(refs, c.direction, i)
<1>1. \A j : Strikes(Continuation, "ema_reclaim", refs, c, j) <=> ReclaimedOn(refs, c.direction, j)
  BY DEF Strikes, Continuation, Reversal
<1> QED BY <1>1 DEF Decides

\* Of what decides by a bar, some decided before and the rest strikes on it.
LEMMA FollowsNext ==
    ASSUME NEW n \in Nat \ {0}, NEW refs, NEW c, c.started \in 1..(n - 1)
    PROVE  FollowsUp(refs, c, n) <=>
             \/ FollowsUp(refs, c, n - 1)
             \/ BrokenOn(refs, c.continuation, n) /\ Decides(Continuation, "ema_reclaim", refs, c, n)
<1> DEFINE a == c.started
           Rec(i) == ReclaimedOn(refs, c.direction, i)
           Brk(j) == BrokenOn(refs, c.continuation, j)
<1>1. a \in Nat
  OBVIOUS
<1>2. FollowsUp(refs, c, n) <=> \E i \in a + 1..n : \E j \in i..n : Rec(i) /\ Brk(j)
  BY DEF FollowsUp
<1>3. FollowsUp(refs, c, n - 1) <=> \E i \in a + 1..(n - 1) : \E j \in i..(n - 1) : Rec(i) /\ Brk(j)
  BY DEF FollowsUp
<1>4. Decides(Continuation, "ema_reclaim", refs, c, n) <=> \E i \in a + 1..n : Rec(i)
  BY ReclaimDecides
<1> HIDE DEF a, Rec, Brk
<1>5. ASSUME NEW i \in a + 1..n, NEW j \in i..n, Rec(i), Brk(j)
      PROVE  \/ \E x \in a + 1..(n - 1) : \E y \in x..(n - 1) : Rec(x) /\ Brk(y)
             \/ Brk(n) /\ \E x \in a + 1..n : Rec(x)
  <2>1. CASE j = n
    BY <1>5, <2>1
  <2>2. CASE j # n
    <3>1. i \in a + 1..(n - 1) /\ j \in i..(n - 1)
      BY <1>1, <2>2
    <3> QED BY <1>5, <3>1
  <2> QED BY <2>1, <2>2
<1>6. ASSUME NEW x \in a + 1..(n - 1), NEW y \in x..(n - 1), Rec(x), Brk(y)
      PROVE  \E i \in a + 1..n : \E j \in i..n : Rec(i) /\ Brk(j)
  <2>1. x \in a + 1..n /\ y \in x..n
    BY <1>1
  <2> QED BY <1>6, <2>1
<1>7. ASSUME NEW x \in a + 1..n, Rec(x), Brk(n) PROVE \E i \in a + 1..n : \E j \in i..n : Rec(i) /\ Brk(j)
  <2>1. n \in x..n
    BY <1>1
  <2> QED BY <1>7, <2>1
<1>8. (\E i \in a + 1..n : \E j \in i..n : Rec(i) /\ Brk(j)) <=>
        \/ \E x \in a + 1..(n - 1) : \E y \in x..(n - 1) : Rec(x) /\ Brk(y)
        \/ Brk(n) /\ \E x \in a + 1..n : Rec(x)
  BY <1>5, <1>6, <1>7
<1> QED BY <1>2, <1>3, <1>4, <1>8 DEF Brk

LEMMA DecidesNext ==
    ASSUME NEW n \in Nat \ {0}, NEW refs, NEW c, c.started \in 1..(n - 1), NEW s, NEW t
    PROVE  Decides(s, t, refs, c, n) <=> Decides(s, t, refs, c, n - 1) \/ DecidesNow(s, t, refs, c, n)
<1> DEFINE a == c.started
           Str(j) == Strikes(s, t, refs, c, j)
<1>1. a \in Nat /\ a <= n - 1
  OBVIOUS
<1>2. (n - 1) - a >= MaxAge => n - a >= MaxAge
  BY <1>1, MaxAgeIsNat
<1>3. (\E j \in a + 1..n : Str(j)) <=> (\E j \in a + 1..(n - 1) : Str(j)) \/ Str(n)
  <2> HIDE DEF a, Str
  <2>1. \A j \in a + 1..n : j = n \/ j \in a + 1..(n - 1)
    BY <1>1
  <2>2. n \in a + 1..n /\ \A j \in a + 1..(n - 1) : j \in a + 1..n
    BY <1>1
  <2> QED BY <2>1, <2>2
<1>4. FollowsUp(refs, c, n) <=>
             \/ FollowsUp(refs, c, n - 1)
             \/ BrokenOn(refs, c.continuation, n) /\ Decides(Continuation, "ema_reclaim", refs, c, n)
  BY FollowsNext
<1>5. Decides(s, t, refs, c, n) <=>
        \/ t = "candidate_age_limit" /\ n - a >= MaxAge
        \/ \E j \in a + 1..n : Str(j)
        \/ s = Continuation /\ t = "continuation_break" /\ FollowsUp(refs, c, n)
  BY DEF Decides
<1>6. Decides(s, t, refs, c, n - 1) <=>
        \/ t = "candidate_age_limit" /\ (n - 1) - a >= MaxAge
        \/ \E j \in a + 1..(n - 1) : Str(j)
        \/ s = Continuation /\ t = "continuation_break" /\ FollowsUp(refs, c, n - 1)
  BY DEF Decides
<1>7. DecidesNow(s, t, refs, c, n) <=>
        \/ t = "candidate_age_limit" /\ n - a >= MaxAge
        \/ Str(n)
        \/ /\ s = Continuation /\ t = "continuation_break"
           /\ BrokenOn(refs, c.continuation, n) /\ Decides(s, "ema_reclaim", refs, c, n)
  BY DEF DecidesNow
<1> HIDE DEF Str, a
<1> QED BY <1>2, <1>3, <1>4, <1>5, <1>6, <1>7

\* Nothing has decided a candidate on the bar it opens on.
LEMMA NothingYet ==
    ASSUME NEW n \in Nat \ {0}, NEW refs, NEW c, c.started = n, NEW s, NEW t
    PROVE  ~Decides(s, t, refs, c, n)
<1>1. c.started + 1..n = {}
  OBVIOUS
<1>2. ~(n - c.started >= MaxAge)
  BY MaxAgeIsNat
<1> QED BY <1>1, <1>2 DEF Decides, FollowsUp

\* What an open candidate, that nothing but its reclaim had decided, is decided
\* by one bar later.
LEMMA VerdictIs ==
    ASSUME NEW n \in Nat \ {0}, NEW refs, NEW refs2, Same(refs, refs2, n), NEW c, c.started \in 1..(n - 1),
           NEW s, NEW state, OnlyReclaimed(s, state, refs, c, n - 1), NEW t
    PROVE  /\ Decides(s, t, refs2, c, n - 1) => state = "RECLAIMED" /\ t = "ema_reclaim"
           /\ state = "RECLAIMED" => Decides(s, "ema_reclaim", refs2, c, n)
           /\ Decides(s, t, refs2, c, n) <=>
                (state = "RECLAIMED" /\ t = "ema_reclaim") \/ DecidesNow(s, t, refs2, c, n)
<1>1. c.started \in Nat /\ n - 1 \in Int /\ n - 1 <= n - 1
  OBVIOUS
<1>2. \A x : Decides(s, x, refs2, c, n - 1) <=> Decides(s, x, refs, c, n - 1)
  BY <1>1, DecidesStays
<1>3. \A x : Decides(s, x, refs2, c, n) <=> Decides(s, x, refs2, c, n - 1) \/ DecidesNow(s, x, refs2, c, n)
  BY DecidesNext
<1> QED BY <1>2, <1>3 DEF OnlyReclaimed

LEMMA ReversalVerdict ==
    ASSUME NEW n, NEW refs, NEW c, NEW t
    PROVE  DecidesNow(Reversal, t, refs, c, n) <=>
             \/ t = "protected_swing_break" /\ EndedOn(refs, c.leg, n)
             \/ t = "same_direction_extreme" /\ ExtremeOn(refs, c.direction, n)
             \/ t = "candidate_age_limit" /\ n - c.started >= MaxAge
BY DEF DecidesNow, Strikes, Reversal, Continuation

LEMMA ContinuationVerdict ==
    ASSUME NEW n, NEW refs, NEW c, NEW t
    PROVE  DecidesNow(Continuation, t, refs, c, n) <=>
             \/ t = "protected_swing_break" /\ BrokenOn(refs, c.protected, n)
             \/ t = "ema_reclaim" /\ ReclaimedOn(refs, c.direction, n)
             \/ /\ t = "continuation_break" /\ BrokenOn(refs, c.continuation, n)
                /\ Decides(Continuation, "ema_reclaim", refs, c, n)
             \/ t = "candidate_age_limit" /\ n - c.started >= MaxAge
BY DEF DecidesNow, Strikes, Reversal, Continuation

-----------------------------------------------------------------------------
(* What a candidate remembers.                                             *)

\* The swings of a bar come after those confirmed before it.
Grows(S, T, n) ==
    /\ S \in Seq(SwingType) /\ T \in Seq(SwingType) /\ GoesOn(S, T)
    /\ \A k \in DOMAIN T : k \notin DOMAIN S => T[k].detection = n

\* A bar adds at most the swing it confirms.
LEMMA SwingsGrow ==
    ASSUME NEW n \in Nat \ {0}, NEW S, Confirmed(S, n - 1), NEW T, NEW classified, NEW b,
           SwingComes(S, T, classified, b, n)
    PROVE  Grows(S, T, n)
<1>1. GoesOn(S, T) /\ T \in Seq(SwingType) /\ S \in Seq(SwingType)
  BY SwingsGoOn
<1>2. CASE T = S
  BY <1>1, <1>2 DEF Grows
<1>3. ASSUME NEW p \in SwingType, T = Append(S, p), p.detection = n PROVE Grows(S, T, n)
  <2>1. \A k \in DOMAIN T : k \notin DOMAIN S => T[k] = p
    BY <1>1, <1>3
  <2> QED BY <1>1, <1>3, <2>1 DEF Grows
<1> QED BY <1>2, <1>3 DEF SwingComes

LEMMA LatestStays ==
    ASSUME NEW n \in Nat \ {0}, NEW S, NEW T, Grows(S, T, n), NEW a \in Nat, a <= n - 1, NEW side, NEW p,
           LatestSwing(S, a, side, p)
    PROVE  LatestSwing(T, a, side, p)
<1>1. PICK i \in DOMAIN S : /\ S[i] = p /\ p.side = side /\ p.detection <= a
                            /\ \A j \in DOMAIN S : S[j].side = side /\ S[j].detection <= a => j <= i
  BY DEF LatestSwing
<1>2. DOMAIN S = 1..Len(S) /\ DOMAIN T = 1..Len(T) /\ Len(S) \in Nat /\ Len(T) \in Nat /\ Len(S) <= Len(T)
  BY DEF Grows, GoesOn
<1>3. \A k \in DOMAIN S : k \in DOMAIN T /\ T[k] = S[k]
  BY <1>2 DEF Grows, GoesOn
<1>4. ASSUME NEW j \in DOMAIN T, T[j].side = side, T[j].detection <= a PROVE j <= i
  <2>1. T[j].detection # n
    BY <1>4
  <2>2. j \in DOMAIN S
    BY <2>1 DEF Grows
  <2> QED BY <1>1, <1>3, <1>4, <2>2
<1> QED BY <1>1, <1>3, <1>4 DEF LatestSwing

\* The structure's latest swing of a side is the latest confirmed one.
LEMMA LatestKnown ==
    ASSUME NEW n \in Nat, NEW S, Confirmed(S, n), Alternates(S), NEW st, StructureKeeps(st, S),
           NEW side \in Sides, st.latest[side] # {}
    PROVE  LatestSwing(S, n, side, The(st.latest[side]).swing)
<1> DEFINE L == Len(S)
<1>1. L \in Nat /\ DOMAIN S = 1..L /\ S \in Seq(SwingType)
  BY DEF Confirmed
<1>2. \A k \in DOMAIN S : S[k].side \in Sides /\ S[k].detection <= n /\ Other(S[k].side) \in Sides
  <2>1. ASSUME NEW k \in DOMAIN S
        PROVE  S[k].side \in Sides /\ S[k].detection <= n /\ Other(S[k].side) \in Sides
    <3>1. S[k] \in SwingType /\ S[k].detection <= n
      BY <1>1 DEF Confirmed
    <3>2. S[k].side \in Sides
      BY <3>1 DEF SwingType
    <3> QED BY <3>1, <3>2, OtherSide
  <2> QED BY <2>1
<1>3. \A k : ClassOf(S, k).swing = S[k]
  BY DEF ClassOf
<1>4. S # <<>>
  BY DEF StructureKeeps
<1>5. L >= 1
  BY <1>1, <1>4
<1> HIDE DEF L
<1>6. L \in DOMAIN S
  BY <1>1, <1>5
<1>7. CASE side = S[L].side
  <2>1. The(st.latest[side]) = ClassOf(S, L)
    <3>1. st.latest[side] = {ClassOf(S, L)}
      BY <1>5, <1>7 DEF StructureKeeps, L
    <3> QED BY <3>1, TheOne
  <2>2. The(st.latest[side]).swing = S[L]
    BY <1>3, <2>1
  <2>3. \A j \in DOMAIN S : j <= L
    BY <1>1
  <2> QED BY <1>2, <1>6, <1>7, <2>2, <2>3 DEF LatestSwing
<1>8. CASE side # S[L].side
  <2>1. side = Other(S[L].side)
    BY <1>2, <1>6, <1>8 DEF Sides, Other
  <2>2. L # 1
    BY <1>8, <2>1 DEF StructureKeeps, L
  <2>3. L >= 2 /\ L - 1 \in DOMAIN S /\ L - 1 \in 1..(L - 1) /\ (L - 1) + 1 = L
    BY <1>1, <1>5, <2>2
  <2>4. The(st.latest[side]) = ClassOf(S, L - 1)
    <3>1. st.latest[side] = {ClassOf(S, L - 1)}
      BY <2>1, <2>3 DEF StructureKeeps, L
    <3> QED BY <3>1, TheOne
  <2>5. The(st.latest[side]).swing = S[L - 1]
    BY <1>3, <2>4
  <2>6. S[L].side = Other(S[L - 1].side)
    BY <2>3 DEF Alternates, L
  <2>7. S[L - 1].side = side
    BY <1>2, <2>1, <2>3, <2>6, OtherSide
  <2>8. \A j \in DOMAIN S : S[j].side = side => j <= L - 1
    <3>1. \A j \in DOMAIN S : j = L \/ j <= L - 1
      BY <1>1
    <3> QED BY <1>8, <3>1
  <2> QED BY <1>2, <2>3, <2>5, <2>7, <2>8 DEF LatestSwing
<1> QED BY <1>7, <1>8

\* The last leg started by a bar stays so, and a bar that starts none keeps it.
LEMMA LastLegStays ==
    ASSUME NEW n \in Nat \ {0}, NEW refs, NEW refs2, Same(refs, refs2, n), NEW a \in Nat, a <= n - 1,
           NEW k, NEW d, LastLeg(refs, a, k, d)
    PROVE  LastLeg(refs2, a, k, d)
<1>1. \A j \in 1..a : j \in 1..(n - 1) /\ \A i \in j..a : i \in 1..(n - 1)
  OBVIOUS
<1>2. \A j \in 1..(n - 1) : On(refs2, "TREND_LEG_STARTED", j) = On(refs, "TREND_LEG_STARTED", j)
  BY DEF Same
<1> QED BY <1>1, <1>2 DEF LastLeg

LEMMA LastLegGoesOn ==
    ASSUME NEW n \in Nat \ {0}, NEW refs, NEW refs2, Same(refs, refs2, n),
           On(refs2, "TREND_LEG_STARTED", n) = {}, NEW k, NEW d, LastLeg(refs, n - 1, k, d)
    PROVE  LastLeg(refs2, n, k, d)
<1>1. LastLeg(refs2, n - 1, k, d)
  BY LastLegStays
<1>2. \A j \in 1..(n - 1) : j \in 1..n /\ \A i \in j..n : i = n \/ i \in j..(n - 1)
  OBVIOUS
<1> QED BY <1>1, <1>2 DEF LastLeg

LEMMA LastLegBegins ==
    ASSUME NEW n \in Nat \ {0}, NEW refs, NEW e, On(refs, "TREND_LEG_STARTED", n) = {e}
    PROVE  LastLeg(refs, n, e.evidence.index, e.evidence.direction)
<1>1. n \in 1..n /\ \A i \in n..n : i = n
  OBVIOUS
<1> QED BY <1>1 DEF LastLeg

\* A scene stays what it was.
LEMMA SceneStays ==
    ASSUME NEW n \in Nat \ {0}, NEW refs, NEW refs2, Same(refs, refs2, n), NEW S, NEW T, Grows(S, T, n),
           NEW s, NEW c, c.started \in 1..(n - 1), Scene(s, refs, S, c)
    PROVE  Scene(s, refs2, T, c)
<1>1. c.started \in Nat /\ c.started <= n - 1
  OBVIOUS
<1>2. LastLeg(refs2, c.started, c.leg, c.direction)
  BY <1>1, LastLegStays DEF Scene
<1>3. s = Continuation => /\ LatestSwing(T, c.started, Backward(c.direction), c.protected)
                          /\ LatestSwing(T, c.started, Forward(c.direction), c.continuation)
  BY <1>1, LatestStays DEF Scene
<1> QED BY <1>2, <1>3 DEF Scene

\* What a candidate goes by does not change while it is open.
SameMind(s, c, c2) ==
    /\ c2.direction = c.direction /\ c2.leg = c.leg /\ c2.started = c.started
    /\ s = Continuation => c2.protected = c.protected /\ c2.continuation = c.continuation

\* A candidate is decided by what it remembers, whatever else its context holds.
LEMMA MindDecides ==
    ASSUME NEW s, NEW c, NEW c2, SameMind(s, c, c2), NEW refs, NEW S
    PROVE  /\ \A t, b : Decides(s, t, refs, c2, b) <=> Decides(s, t, refs, c, b)
           /\ Scene(s, refs, S, c2) <=> Scene(s, refs, S, c)
<1>1. \A t, j : Strikes(s, t, refs, c2, j) <=> Strikes(s, t, refs, c, j)
  BY DEF Strikes, SameMind
<1>2. s = Continuation => \A b : FollowsUp(refs, c2, b) <=> FollowsUp(refs, c, b)
  BY DEF FollowsUp, SameMind
<1>3. c2.started = c.started
  BY DEF SameMind
<1>4. Scene(s, refs, S, c2) <=> Scene(s, refs, S, c)
  BY DEF Scene, SameMind
<1>5. \A t, b : Decides(s, t, refs, c2, b) <=> Decides(s, t, refs, c, b)
  BY <1>1, <1>2, <1>3 DEF Decides
<1> QED BY <1>4, <1>5

-----------------------------------------------------------------------------
(* What a bar tells of the legs.                                           *)

IsLeg(a, b) == a.index = b.index /\ a.direction = b.direction
GoOn(old, new) ==
    /\ \A leg \in new : \E prior \in old : IsLeg(leg, prior)
    /\ \A prior \in old : \E leg \in new : IsLeg(leg, prior)

Transit(old, new) ==
    \/ /\ new.active = {}
       /\ \E prior \in old : \E leg : /\ IsLeg(leg, prior)
                                      /\ new.transitions = <<[type |-> "TERMINATED", leg |-> leg]>>
    \/ /\ GoOn(old, new.active)
       /\ \/ new.transitions = <<>>
          \/ \E leg : new.transitions = <<[type |-> "PROTECTION_ADVANCED", leg |-> leg]>>
    \/ /\ old = {}
       /\ \E leg : new.active = {leg} /\ new.transitions = <<[type |-> "ESTABLISHED", leg |-> leg]>>

\* On a bar the active leg ends, goes on, or begins.
LEMMA LegsTransit ==
    ASSUME NEW i \in Nat, NEW n \in Nat \ {0}, NEW lg, LegTypes(lg, i, n - 1), NEW bar \in Bar,
           NEW classified, NEW ema, Continues(classified, i)
    PROVE  Transit(lg.active, LegUpdate(lg, classified, ema, bar, n))
<1> DEFINE new == LegUpdate(lg, classified, ema, bar, n)
           next == BeforeStructure(lg, classified, ema, bar, n)
           ended == EndedLegs(lg, bar, n)
           j == After(classified, i)
           old == lg.active
<1>1. new = IF ended # {} \/ classified = {} THEN next ELSE Progress(next, The(classified), bar, n)
  BY LegUpdateShape
<1>2. /\ LegTypes(next, j, n)
      /\ \/ ended # {} /\ Turned(old, next, bar, n)
         \/ ended = {} /\ Stands(lg, next, bar, n)
  BY BeforeStructureTyped
<1>3. ASSUME NEW leg \in old PROVE IsLeg(Measured(leg, bar, n), leg)
  <2>1. leg \in LegType
    BY DEF LegTypes, Optional
  <2>2. leg.initial.event \in 1..n /\ leg.established <= n
    <3>1. leg.initial.event \in 1..(n - 1) /\ leg.established <= n - 1 /\ leg.established \in Int
      BY <2>1 DEF LegTypes, LegAt, LegType
    <3> QED BY <3>1
  <2> QED BY <2>1, <2>2, MeasuredTyped DEF IsLeg
<1> SUFFICES Transit(old, new)
  OBVIOUS
<1> HIDE DEF new, next, ended, j
<1>4. CASE ended # {}
  <2>1. new = next /\ Turned(old, next, bar, n)
    BY <1>1, <1>2, <1>4
  <2> QED BY <1>3, <2>1 DEF Transit, Turned
<1>5. CASE ended = {}
  <2>1. next.active = MeasuredLegs(lg, bar, n) /\ next.transitions = <<>>
    BY <1>2, <1>5 DEF Stands
  <2>2. GoOn(old, next.active)
    BY <1>3, <2>1 DEF GoOn, MeasuredLegs
  <2>3. next.active = {} => old = {}
    BY <2>2 DEF GoOn
  <2>4. CASE classified = {}
    <3>1. new = next
      BY <1>1, <2>4
    <3> QED BY <2>1, <2>2, <3>1 DEF Transit
  <2>5. CASE classified # {}
    <3> DEFINE c == The(classified)
    <3>1. new = Progress(next, c, bar, n)
      BY <1>1, <1>5, <2>5
    <3>2. ProgressMakes(next, new, c, bar, n)
      BY <1>2, <2>1, <3>1, ProgressMade
    <3> HIDE DEF c
    <3>3. CASE Kept(next, new)
      BY <2>1, <2>2, <3>3 DEF Transit, Kept
    <3>4. ASSUME next.active = {}, NEW leg, Begins(new, "ESTABLISHED", leg) PROVE Transit(old, new)
      BY <2>3, <3>4 DEF Transit, Begins
    <3>5. ASSUME NEW leg \in next.active, NEW w, Begins(new, "PROTECTION_ADVANCED", AdvancedTo(leg, w, c, n))
          PROVE  Transit(old, new)
      <4> DEFINE x == AdvancedTo(leg, w, c, n)
      <4>1. next.active = {leg} /\ leg \in LegType
        BY <1>2 DEF LegTypes, Optional
      <4>2. IsLeg(x, leg)
        BY <4>1 DEF AdvancedTo, IsLeg, LegType
      <4> HIDE DEF x
      <4>3. new.active = {x} /\ new.transitions = <<[type |-> "PROTECTION_ADVANCED", leg |-> x]>>
        BY <3>5 DEF Begins, x
      <4>4. GoOn(old, new.active)
        BY <2>2, <4>1, <4>2, <4>3 DEF GoOn, IsLeg
      <4> QED BY <4>3, <4>4 DEF Transit
    <3> QED BY <3>2, <3>3, <3>4, <3>5 DEF ProgressMakes
  <2> QED BY <2>4, <2>5
<1> QED BY <1>4, <1>5

\* The legs of a bar, and what it publishes of them.
LegsMove(old, new, m) ==
    \/ /\ new = {} /\ Observed(m, "TREND_LEG_STARTED") = {}
       /\ \E prior \in old : \E e : Observed(m, "TREND_LEG_ENDED") = {e} /\ IsLeg(e.evidence, prior)
    \/ /\ GoOn(old, new)
       /\ Observed(m, "TREND_LEG_STARTED") = {} /\ Observed(m, "TREND_LEG_ENDED") = {}
    \/ /\ old = {} /\ Observed(m, "TREND_LEG_ENDED") = {}
       /\ \E e : Observed(m, "TREND_LEG_STARTED") = {e} /\ new = {e.evidence}

LEMMA LegsObserved ==
    ASSUME NEW m, NEW n, ContentsOf(m.events) = ToldAll(m, n),
           NEW type \in {"TREND_LEG_STARTED", "TREND_LEG_ENDED"}
    PROVE  Observed(m, type) = {x \in ToldLegs(m, n) : x.type = type}
<1>1. Observed(m, type) = {x \in ContentsOf(m.events) : x.type = type}
  BY DEF Observed, ContentsOf
<1>2. ASSUME NEW t, NEW at, NEW evidence PROVE Event(t, at, n, evidence).type = t
  BY DEF Event
<1>3. ASSUME NEW x \in ToldSwings(m, n) PROVE x.type # type
  <2>1. PICK at, evidence : x = Event("SWING_POINT_CONFIRMED", at, n, evidence)
    BY DEF ToldSwings
  <2> QED BY <1>2, <2>1
<1>4. ASSUME NEW x \in ToldClasses(m, n) PROVE x.type # type
  <2>1. PICK at, evidence : x = Event("SWING_STRUCTURE_CLASSIFIED", at, n, evidence)
    BY DEF ToldClasses
  <2> QED BY <1>2, <2>1
<1>5. ASSUME NEW x \in ToldCrosses(m, n) PROVE x.type # type
  <2>1. PICK at, evidence : x = Event("EMA_CROSS", at, n, evidence)
    BY DEF ToldCrosses
  <2> QED BY <1>2, <2>1
<1>6. ASSUME NEW x \in ToldEnded(m, n) PROVE x.type # type
  <2>1. PICK at, evidence : x = Event("TREND_LEG_QUALIFICATION_ENDED", at, n, evidence)
    BY DEF ToldEnded
  <2> QED BY <1>2, <2>1
<1>7. ASSUME NEW x \in ToldEarned(m, n) PROVE x.type # type
  <2>1. PICK at, evidence : x = Event("TREND_LEG_QUALIFIED", at, n, evidence)
    BY DEF ToldEarned
  <2> QED BY <1>2, <2>1
<1>8. ASSUME NEW x \in ToldBreaks(m, n, "HIGH") PROVE x.type # type
  <2>1. PICK at, evidence : x = Event(BreakEvent["HIGH"], at, n, evidence)
    BY DEF ToldBreaks
  <2>2. BreakEvent["HIGH"] = "SWING_HIGH_CLOSE_BREAK"
    BY DEF BreakEvent
  <2> QED BY <1>2, <2>1, <2>2
<1>9. ASSUME NEW x \in ToldBreaks(m, n, "LOW") PROVE x.type # type
  <2>1. PICK at, evidence : x = Event(BreakEvent["LOW"], at, n, evidence)
    BY DEF ToldBreaks
  <2>2. BreakEvent["LOW"] = "SWING_LOW_CLOSE_BREAK"
    BY DEF BreakEvent
  <2> QED BY <1>2, <2>1, <2>2
<1> QED BY <1>1, <1>3, <1>4, <1>5, <1>6, <1>7, <1>8, <1>9 DEF ToldAll

\* The events of a bar tell which.
LEMMA LegsPublish ==
    ASSUME NEW m, NEW n, ContentsOf(m.events) = ToldAll(m, n), NEW old, Transit(old, m.legs)
    PROVE  LegsMove(old, m.legs.active, m)
<1> DEFINE lg == m.legs
<1>1. \A t : LegEventOf(t, n).type = LegEvent[t.type] /\ LegEventOf(t, n).evidence = t.leg
  BY DEF LegEventOf, Event
<1>2. /\ Observed(m, "TREND_LEG_STARTED") = {x \in ToldLegs(m, n) : x.type = "TREND_LEG_STARTED"}
      /\ Observed(m, "TREND_LEG_ENDED") = {x \in ToldLegs(m, n) : x.type = "TREND_LEG_ENDED"}
  BY LegsObserved
<1>3. lg.transitions = <<>> => ToldLegs(m, n) = {}
  BY ProperOne DEF ToldLegs
<1>4. ASSUME NEW t, lg.transitions = <<t>> PROVE ToldLegs(m, n) = {LegEventOf(t, n)}
  <2>1. ValuesOf(lg.transitions) = {t}
    BY <1>4, ProperOne
  <2> QED BY <2>1 DEF ToldLegs
<1>5. ASSUME NEW leg, NEW kind, lg.transitions = <<[type |-> kind, leg |-> leg]>>
      PROVE  \E e : ToldLegs(m, n) = {e} /\ e.type = LegEvent[kind] /\ e.evidence = leg
  <2> DEFINE t == [type |-> kind, leg |-> leg]
  <2>1. t.type = kind /\ t.leg = leg
    OBVIOUS
  <2>2. lg.transitions = <<t>>
    BY <1>5
  <2> HIDE DEF t
  <2>3. ToldLegs(m, n) = {LegEventOf(t, n)}
    BY <1>4, <2>2
  <2> QED BY <1>1, <2>1, <2>3
<1>6. /\ LegEvent["TERMINATED"] = "TREND_LEG_ENDED" /\ LegEvent["ESTABLISHED"] = "TREND_LEG_STARTED"
      /\ LegEvent["PROTECTION_ADVANCED"] = "TREND_LEG_PROTECTION_ADVANCED"
  BY DEF LegEvent
<1> HIDE DEF lg
<1>7. ASSUME lg.active = {}, NEW prior \in old, NEW leg, IsLeg(leg, prior),
             lg.transitions = <<[type |-> "TERMINATED", leg |-> leg]>>
      PROVE  LegsMove(old, lg.active, m)
  <2>1. PICK e : ToldLegs(m, n) = {e} /\ e.type = "TREND_LEG_ENDED" /\ e.evidence = leg
    BY <1>5, <1>6, <1>7
  <2>2. Observed(m, "TREND_LEG_ENDED") = {e} /\ Observed(m, "TREND_LEG_STARTED") = {}
    BY <1>2, <2>1
  <2> QED BY <1>7, <2>1, <2>2 DEF LegsMove
<1>8. ASSUME GoOn(old, lg.active), lg.transitions = <<>> PROVE LegsMove(old, lg.active, m)
  <2>1. Observed(m, "TREND_LEG_ENDED") = {} /\ Observed(m, "TREND_LEG_STARTED") = {}
    BY <1>2, <1>3, <1>8
  <2> QED BY <1>8, <2>1 DEF LegsMove
<1>9. ASSUME GoOn(old, lg.active), NEW leg, lg.transitions = <<[type |-> "PROTECTION_ADVANCED", leg |-> leg]>>
      PROVE  LegsMove(old, lg.active, m)
  <2>1. PICK e : ToldLegs(m, n) = {e} /\ e.type = "TREND_LEG_PROTECTION_ADVANCED"
    BY <1>5, <1>6, <1>9
  <2>2. Observed(m, "TREND_LEG_ENDED") = {} /\ Observed(m, "TREND_LEG_STARTED") = {}
    BY <1>2, <2>1
  <2> QED BY <1>9, <2>2 DEF LegsMove
<1>10. ASSUME old = {}, NEW leg, lg.active = {leg}, lg.transitions = <<[type |-> "ESTABLISHED", leg |-> leg]>>
       PROVE  LegsMove(old, lg.active, m)
  <2>1. PICK e : ToldLegs(m, n) = {e} /\ e.type = "TREND_LEG_STARTED" /\ e.evidence = leg
    BY <1>5, <1>6, <1>10
  <2>2. Observed(m, "TREND_LEG_STARTED") = {e} /\ Observed(m, "TREND_LEG_ENDED") = {}
    BY <1>2, <2>1
  <2> QED BY <1>10, <2>1, <2>2 DEF LegsMove
<1> QED BY <1>7, <1>8, <1>9, <1>10 DEF Transit, lg

\* The active leg is the one last started.
LEMMA LegsStartedNext ==
    ASSUME NEW n \in Nat \ {0}, NEW refs, NEW refs2, Same(refs, refs2, n), NEW lg, LegsStarted(lg, refs, n - 1),
           NEW m, LegsMove(lg.active, m.legs.active, m),
           On(refs2, "TREND_LEG_STARTED", n) = Observed(m, "TREND_LEG_STARTED")
    PROVE  LegsStarted(m.legs, refs2, n)
<1> DEFINE old == lg.active
           new == m.legs.active
           started == Observed(m, "TREND_LEG_STARTED")
<1>1. \A leg \in old : LastLeg(refs, n - 1, leg.index, leg.direction)
  BY DEF LegsStarted
<1>2. CASE new = {}
  BY <1>2 DEF LegsStarted
<1>3. CASE GoOn(old, new) /\ started = {}
  <2>1. ASSUME NEW leg \in new PROVE LastLeg(refs2, n, leg.index, leg.direction)
    <3>1. PICK prior \in old : leg.index = prior.index /\ leg.direction = prior.direction
      BY <1>3 DEF GoOn, IsLeg
    <3>2. LastLeg(refs, n - 1, leg.index, leg.direction)
      BY <1>1, <3>1
    <3>3. On(refs2, "TREND_LEG_STARTED", n) = {}
      BY <1>3
    <3> QED BY <3>2, <3>3, LastLegGoesOn
  <2> QED BY <2>1 DEF LegsStarted
<1>4. ASSUME NEW e, started = {e}, new = {e.evidence} PROVE LegsStarted(m.legs, refs2, n)
  <2>1. On(refs2, "TREND_LEG_STARTED", n) = {e}
    BY <1>4
  <2>2. LastLeg(refs2, n, e.evidence.index, e.evidence.direction)
    BY <2>1, LastLegBegins
  <2> QED BY <1>4, <2>2 DEF LegsStarted
<1> QED BY <1>2, <1>3, <1>4 DEF LegsMove

\* The leg a candidate runs in ends, or goes on.
LEMMA SourceEndsOrRuns ==
    ASSUME NEW n, NEW refs, NEW m, On(refs, "TREND_LEG_ENDED", n) = Observed(m, "TREND_LEG_ENDED"),
           NEW lg, lg.active \in Optional(LegType), LegsMove(lg.active, m.legs.active, m), NEW c, RunsIn(lg, c)
    PROVE  /\ EndedOn(refs, c.leg, n) <=>
                \E e \in Observed(m, "TREND_LEG_ENDED") : e.evidence.index = c.leg /\ e.evidence.direction = c.direction
           /\ ~EndedOn(refs, c.leg, n) => RunsIn(m.legs, c)
<1> DEFINE old == lg.active
           new == m.legs.active
           ended == Observed(m, "TREND_LEG_ENDED")
<1>1. PICK leg \in old : leg.index = c.leg /\ leg.direction = c.direction
  BY DEF RunsIn
<1>2. old = {leg}
  BY <1>1 DEF Optional
<1>3. EndedOn(refs, c.leg, n) <=> \E e \in ended : e.evidence.index = c.leg
  BY DEF EndedOn
<1>4. ASSUME NEW e, ended = {e}, IsLeg(e.evidence, leg)
      PROVE  e.evidence.index = c.leg /\ e.evidence.direction = c.direction
  BY <1>1, <1>4 DEF IsLeg
<1>5. GoOn(old, new) => RunsIn(m.legs, c)
  BY <1>1, <1>2 DEF GoOn, RunsIn, IsLeg
<1> HIDE DEF old, new, ended
<1>6. \/ GoOn(old, new) /\ ended = {}
      \/ \E e : ended = {e} /\ IsLeg(e.evidence, leg)
  BY <1>2 DEF LegsMove, old, new, ended
<1> QED BY <1>3, <1>4, <1>5, <1>6 DEF ended

-----------------------------------------------------------------------------
(* What a trend detector returns.                                          *)

\* What a bar is to the detectors: its market m, legs and swings after those of
\* the bar before, and what it has published.
BarTells(refs, refs2, S, T, lg, m, n) ==
    /\ Same(refs, refs2, n) /\ Grows(S, T, n) /\ LegsMove(lg.active, m.legs.active, m)
    /\ lg.active \in Optional(LegType) /\ m.legs.active \in Optional(LegType)
    /\ m.bars = n
    /\ \A type : On(refs2, type, n) = Observed(m, type)
    /\ LegsStarted(m.legs, refs2, n)
    /\ \A side \in Sides : m.structure.latest[side] # {} =>
                             LatestSwing(T, n, side, The(m.structure.latest[side]).swing)

\* An intent of the bar, of a candidate that remembers c.
Meant(s, x, refs, c, n) == x.detection = n /\ Fits(s, x, refs, c)

\* The occurrence stays, opens, moves on, or moves on twice.
Stays(slot, out) == out.intents = <<>> /\ out.state = slot.state
Begins1(slot, out, x, n) ==
    /\ slot.state = "INACTIVE" /\ out.intents = <<x>> /\ x.edge.from = "INACTIVE" /\ x.edge.to = out.state
    /\ out.state = "CANDIDATE" /\ out.context.started = n
Moves1(slot, out, x) ==
    /\ slot.state \in OpenStates /\ out.intents = <<x>> /\ x.edge.from # "INACTIVE" /\ x.edge.to = out.state
    /\ out.context.started = slot.context.started
Moves2(slot, out, x, y) ==
    /\ slot.state \in OpenStates /\ out.intents = <<x, y>>
    /\ x.edge.from # "INACTIVE" /\ y.edge.from # "INACTIVE" /\ y.edge.to = out.state
    /\ out.context.started = slot.context.started

\* What the detector of slot s returns for an occurrence.
Deals(s, slot, out, refs, S, lg, n) ==
    /\ out.state \in OpenStates => CandidateHolds(s, out, refs, S, lg, n)
    /\ \/ Stays(slot, out) /\ (slot.state \in OpenStates => out.context.started = slot.context.started)
       \/ /\ Scene(s, refs, S, out.context)
          /\ \/ \E x : Meant(s, x, refs, out.context, n) /\ Begins1(slot, out, x, n)
             \/ \E x : Meant(s, x, refs, out.context, n) /\ Moves1(slot, out, x)
             \/ \E x, y : /\ Meant(s, x, refs, out.context, n) /\ Meant(s, y, refs, out.context, n)
                          /\ Moves2(slot, out, x, y)

LEMMA RankIs ==
    ASSUME NEW d, NEW k \in DOMAIN d.precedence, \A j \in DOMAIN d.precedence :
             d.precedence[j] = d.precedence[k] => j = k
    PROVE  Rank(d, d.precedence[k]) = k
BY DEF Rank

LEMMA ReversalRanks ==
    /\ Rank(Patterns[Reversal], "protected_swing_break") = 1
    /\ Rank(Patterns[Reversal], "same_direction_extreme") = 2
    /\ Rank(Patterns[Reversal], "candidate_age_limit") = 3
<1> DEFINE d == ReversalPattern
           p == <<"protected_swing_break", "same_direction_extreme", "candidate_age_limit">>
<1>1. d.precedence = p
  BY DEF ReversalPattern
<1>2. DOMAIN p = {1, 2, 3} /\ p[1] = "protected_swing_break" /\ p[2] = "same_direction_extreme"
      /\ p[3] = "candidate_age_limit"
  OBVIOUS
<1>3. Patterns[Reversal] = d
  BY DEF Patterns, Reversal
<1> HIDE DEF d, p
<1>4. \A i, j \in DOMAIN d.precedence : d.precedence[i] = d.precedence[j] => i = j
  BY <1>1, <1>2
<1>5. \A k \in DOMAIN d.precedence : Rank(d, d.precedence[k]) = k
  BY <1>4, RankIs
<1> QED BY <1>1, <1>2, <1>3, <1>5

LEMMA ContinuationRanks ==
    /\ Rank(Patterns[Continuation], "protected_swing_break") = 1
    /\ Rank(Patterns[Continuation], "continuation_break") = 3
    /\ Rank(Patterns[Continuation], "candidate_age_limit") = 4
<1> DEFINE d == ContinuationPattern
           p == <<"protected_swing_break", "ema_reclaim", "continuation_break", "candidate_age_limit">>
<1>1. d.precedence = p
  BY DEF ContinuationPattern
<1>2. DOMAIN p = {1, 2, 3, 4} /\ p[1] = "protected_swing_break" /\ p[2] = "ema_reclaim"
      /\ p[3] = "continuation_break" /\ p[4] = "candidate_age_limit"
  OBVIOUS
<1>3. Patterns[Continuation] = d
  BY DEF Patterns, Continuation
<1> HIDE DEF d, p
<1>4. \A i, j \in DOMAIN d.precedence : d.precedence[i] = d.precedence[j] => i = j
  BY <1>1, <1>2
<1>5. \A k \in DOMAIN d.precedence : Rank(d, d.precedence[k]) = k
  BY <1>4, RankIs
<1> QED BY <1>1, <1>2, <1>3, <1>5

LEMMA ObservesIs ==
    ASSUME NEW d, Plain(d), NEW k \in DOMAIN d.edges, NEW from, NEW trigger, d.edges[k].from = from,
           d.edges[k].trigger = trigger, NEW slot, NEW event, NEW m, NEW cited
    PROVE  /\ Observes(slot, d, from, trigger, event, m, cited).edge = d.edges[k]
           /\ Observes(slot, d, from, trigger, event, m, cited).detection = m.bars
<1>1. Taking(d, from, trigger) = d.edges[k]
  BY TakingIs
<1> QED BY <1>1 DEF Observes, Intent

LEMMA ObservesAs ==
    ASSUME NEW d, Plain(d), NEW k \in DOMAIN d.edges, NEW slot, NEW event, NEW m, NEW cited
    PROVE  /\ Observes(slot, d, d.edges[k].from, d.edges[k].trigger, event, m, cited).edge = d.edges[k]
           /\ Observes(slot, d, d.edges[k].from, d.edges[k].trigger, event, m, cited).detection = m.bars
BY ObservesIs

\* The leg a candidate may open in, and what the log says of it.
LEMMA EligibleLeg ==
    ASSUME NEW refs, NEW refs2, NEW S, NEW T, NEW lg, NEW m, NEW n, BarTells(refs, refs2, S, T, lg, m, n),
           Eligible(m) # {}
    PROVE  LET leg == The(Eligible(m)) IN
           /\ leg \in m.legs.active /\ leg.direction \in Directions
           /\ LastLeg(refs2, n, leg.index, leg.direction)
<1>1. Eligible(m) \subseteq m.legs.active
  BY DEF Eligible
<1>2. PICK x \in LegType : m.legs.active = {x}
  BY <1>1 DEF BarTells, Optional
<1>3. Eligible(m) = {x}
  BY <1>1, <1>2
<1>4. The(Eligible(m)) = x
  BY <1>3, TheOne
<1>5. LastLeg(refs2, n, x.index, x.direction)
  BY <1>2 DEF BarTells, LegsStarted
<1> QED BY <1>2, <1>4, <1>5 DEF LegType

\* A candidate that opens on the bar.
LEMMA OpenedDeals ==
    ASSUME NEW n \in Nat \ {0}, NEW s, NEW refs, NEW T, NEW lg, NEW slot, slot.state = "INACTIVE",
           NEW out, NEW x, out.intents = <<x>>, out.state = "CANDIDATE", x.edge.from = "INACTIVE",
           x.edge.to = "CANDIDATE", x.detection = n, NEW c, out.context = c, c.started = n,
           Remembers(s, c), Scene(s, refs, T, c), s = Reversal => RunsIn(lg, c)
    PROVE  Deals(s, slot, out, refs, T, lg, n)
<1>1. OnlyReclaimed(s, "CANDIDATE", refs, c, n)
  BY NothingYet DEF OnlyReclaimed
<1>2. n \in 1..n
  OBVIOUS
<1>3. CandidateHolds(s, out, refs, T, lg, n)
  BY <1>1, <1>2 DEF CandidateHolds
<1>4. Meant(s, x, refs, c, n)
  BY DEF Meant, Fits
<1>5. Begins1(slot, out, x, n)
  BY DEF Begins1
<1> QED BY <1>3, <1>4, <1>5 DEF Deals

\* Nothing happens to an occurrence that is not open.
LEMMA IdleDeals ==
    ASSUME NEW s, NEW refs, NEW T, NEW lg, NEW n, NEW slot, slot.state \notin OpenStates,
           NEW out, Stays(slot, out)
    PROVE  Deals(s, slot, out, refs, T, lg, n)
BY DEF Deals, Stays

LEMMA ReversalOpensDeals ==
    ASSUME NEW n \in Nat \ {0}, NEW refs, NEW refs2, NEW S, NEW T, NEW lg, NEW m,
           BarTells(refs, refs2, S, T, lg, m, n), NEW slot, slot.state = "INACTIVE"
    PROVE  Deals(Reversal, slot, ReversalOpens(slot, m), refs2, T, m.legs, n)
<1> DEFINE out == ReversalOpens(slot, m)
           leg == The(Eligible(m))
           cross == Crosses(m, Opposed(leg.direction))
           x == Observes(slot, ReversalPattern, "INACTIVE", "opposing_ema_cross", m.bars, m, cross)
           c == [direction |-> leg.direction, leg |-> leg.index, started |-> m.bars,
                 protected |-> leg.protected, ema |-> m.ema.value]
<1>1. out = IF Eligible(m) = {} \/ cross = {} THEN Unmoved(slot, slot.context) ELSE Moved(slot, <<x>>, c)
  BY DEF ReversalOpens
<1>2. m.bars = n
  BY DEF BarTells
<1>3. CASE Eligible(m) = {} \/ cross = {}
  <2>1. out = Unmoved(slot, slot.context)
    BY <1>1, <1>3
  <2> HIDE DEF out
  <2>2. Stays(slot, out)
    BY <2>1 DEF Unmoved, Stays
  <2>3. slot.state \notin OpenStates
    BY DEF OpenStates
  <2>4. Deals(Reversal, slot, out, refs2, T, m.legs, n)
    BY <2>2, <2>3, IdleDeals
  <2> QED BY <2>4 DEF out
<1>4. CASE ~(Eligible(m) = {} \/ cross = {})
  <2>1. out = Moved(slot, <<x>>, c)
    BY <1>1, <1>4
  <2>2. leg \in m.legs.active /\ leg.direction \in Directions /\ LastLeg(refs2, n, leg.index, leg.direction)
    BY <1>4, EligibleLeg
  <2>3. /\ DOMAIN c = {"direction", "leg", "started", "protected", "ema"}
        /\ c.direction = leg.direction /\ c.leg = leg.index /\ c.started = n
    BY <1>2
  <2>4. x.edge.from = "INACTIVE" /\ x.edge.to = "CANDIDATE" /\ x.detection = n
    <3>1. 1 \in DOMAIN ReversalPattern.edges /\ Plain(ReversalPattern)
      BY ReversalPlain
    <3>2. ReversalPattern.edges[1] = [from |-> "INACTIVE", to |-> "CANDIDATE", trigger |-> "opposing_ema_cross"]
      BY DEF ReversalPattern, Edge
    <3>3. x.edge = ReversalPattern.edges[1] /\ x.detection = m.bars
      <4>1. ReversalPattern.edges[1].from = "INACTIVE" /\ ReversalPattern.edges[1].trigger = "opposing_ema_cross"
        BY <3>2
      <4> HIDE DEF cross
      <4> QED BY <3>1, <4>1, ObservesIs
    <3> QED BY <1>2, <3>2, <3>3
  <2> HIDE DEF out, x, c, leg
  <2>5. out.intents = <<x>> /\ out.state = "CANDIDATE" /\ out.context = c
    <3> DEFINE one == <<x>>
    <3>1. out = [raised |-> FALSE, ordinal |-> slot.ordinal, intents |-> one, state |-> x.edge.to, context |-> c]
      BY <2>1, MovedOne
    <3> HIDE DEF one
    <3>2. out.intents = one /\ out.state = "CANDIDATE" /\ out.context = c
      BY <2>4, <3>1
    <3> QED BY <3>2 DEF one
  <2>6. Remembers(Reversal, c)
    BY <2>3 DEF Remembers, Reversal, Continuation
  <2>7. Scene(Reversal, refs2, T, c)
    BY <2>2, <2>3 DEF Scene, Reversal, Continuation
  <2>8. RunsIn(m.legs, c)
    BY <2>2, <2>3 DEF RunsIn
  <2>9. Deals(Reversal, slot, out, refs2, T, m.legs, n)
    BY <2>3, <2>4, <2>5, <2>6, <2>7, <2>8, OpenedDeals
  <2> QED BY <2>9 DEF out
<1> QED BY <1>3, <1>4

LEMMA ContinuationOpening ==
    ASSUME NEW slot, NEW event, NEW m, NEW cited, NEW x,
           x = Observes(slot, ContinuationPattern, "INACTIVE", "opposing_ema_cross", event, m, cited)
    PROVE  x.edge.from = "INACTIVE" /\ x.edge.to = "CANDIDATE" /\ x.detection = m.bars
<1> DEFINE d == ContinuationPattern
<1>1. 1 \in DOMAIN d.edges /\ Plain(d)
  BY ContinuationPlain, ContinuationEdges
<1>2. d.edges[1].from = "INACTIVE" /\ d.edges[1].trigger = "opposing_ema_cross" /\ d.edges[1].to = "CANDIDATE"
  BY ContinuationEdges
<1>3. x = Observes(slot, d, "INACTIVE", "opposing_ema_cross", event, m, cited)
  OBVIOUS
<1> HIDE DEF d
<1>4. /\ Observes(slot, d, "INACTIVE", "opposing_ema_cross", event, m, cited).edge = d.edges[1]
      /\ Observes(slot, d, "INACTIVE", "opposing_ema_cross", event, m, cited).detection = m.bars
  BY <1>1, <1>2, ObservesIs
<1> QED BY <1>2, <1>3, <1>4

LEMMA ContinuationOpensDeals ==
    ASSUME NEW n \in Nat \ {0}, NEW refs, NEW refs2, NEW S, NEW T, NEW lg, NEW m,
           BarTells(refs, refs2, S, T, lg, m, n), NEW slot, slot.state = "INACTIVE", NEW bar
    PROVE  Deals(Continuation, slot, ContinuationOpens(slot, m, bar), refs2, T, m.legs, n)
<1> DEFINE out == ContinuationOpens(slot, m, bar)
           leg == The(Eligible(m))
           d == leg.direction
           cross == Crosses(m, Opposed(leg.direction))
           none == \/ Eligible(m) = {} \/ cross = {} \/ \E s \in Sides : m.structure.latest[s] = {}
           x == Observes(slot, ContinuationPattern, "INACTIVE", "opposing_ema_cross", m.bars, m, cross)
           p == The(m.structure.latest[Forward(d)]).swing
           q == The(m.structure.latest[Backward(d)]).swing
           c == [direction |-> leg.direction, leg |-> leg.index, started |-> m.bars, best |-> leg.extreme,
                 continuation |-> p, protected |-> q,
                 depth |-> Depth(d, leg.extreme, bar), ema |-> m.ema.value, prior |-> {},
                 reclaimed |-> {}, reactions |-> 0]
<1>1. out = IF none THEN Unmoved(slot, slot.context) ELSE Moved(slot, <<x>>, c)
  BY DEF ContinuationOpens
<1>2. m.bars = n
  BY DEF BarTells
<1>3. CASE none
  <2>1. out = Unmoved(slot, slot.context)
    BY <1>1, <1>3
  <2> HIDE DEF out
  <2>2. Stays(slot, out)
    BY <2>1 DEF Unmoved, Stays
  <2>3. slot.state \notin OpenStates
    BY DEF OpenStates
  <2>4. Deals(Continuation, slot, out, refs2, T, m.legs, n)
    BY <2>2, <2>3, IdleDeals
  <2> QED BY <2>4 DEF out
<1>4. CASE ~none
  <2>1. out = Moved(slot, <<x>>, c)
    <3> HIDE DEF none, x, c
    <3> QED BY <1>1, <1>4
  <2>2. leg \in m.legs.active /\ d \in Directions /\ LastLeg(refs2, n, leg.index, d)
    BY <1>4, EligibleLeg
  <2>3. /\ {"direction", "leg", "started", "protected", "continuation"} \subseteq DOMAIN c
        /\ c.direction = d /\ c.leg = leg.index /\ c.started = n /\ c.protected = q /\ c.continuation = p
    BY <1>2
  <2>4. x.edge.from = "INACTIVE" /\ x.edge.to = "CANDIDATE" /\ x.detection = n
    BY <1>2, ContinuationOpening
  <2>5. Forward(d) \in Sides /\ Backward(d) \in Sides
    BY <2>2 DEF Forward, Backward, Other, Sides, Directions
  <2>6. LatestSwing(T, n, Forward(d), p) /\ LatestSwing(T, n, Backward(d), q)
    <3>1. m.structure.latest[Forward(d)] # {} /\ m.structure.latest[Backward(d)] # {}
      BY <1>4, <2>5
    <3> QED BY <2>5, <3>1 DEF BarTells
  <2> HIDE DEF out, x, c, leg, p, q, d
  <2>7. out.intents = <<x>> /\ out.state = "CANDIDATE" /\ out.context = c
    <3> DEFINE one == <<x>>
    <3>1. out = [raised |-> FALSE, ordinal |-> slot.ordinal, intents |-> one, state |-> x.edge.to, context |-> c]
      BY <2>1, MovedOne
    <3> HIDE DEF one
    <3>2. out.intents = one /\ out.state = "CANDIDATE" /\ out.context = c
      BY <2>4, <3>1
    <3> QED BY <3>2 DEF one
  <2>8. Remembers(Continuation, c)
    BY <2>3 DEF Remembers
  <2>9. Scene(Continuation, refs2, T, c)
    BY <2>2, <2>3, <2>6 DEF Scene
  <2>10. Continuation # Reversal
    BY DEF Continuation, Reversal
  <2>11. Deals(Continuation, slot, out, refs2, T, m.legs, n)
    BY <2>3, <2>4, <2>7, <2>8, <2>9, <2>10, OpenedDeals
  <2> QED BY <2>11 DEF out
<1> QED BY <1>3, <1>4

ReversalEndings == {"protected_swing_break", "same_direction_extreme", "candidate_age_limit"}

\* The intent that ends a reversal names what ended it.
LEMMA ReversalIntent ==
    ASSUME NEW slot, NEW event, NEW m, NEW cited,
           NEW trigger, trigger \in ReversalEndings,
           NEW x, x = Observes(slot, ReversalPattern, "CANDIDATE", trigger, event, m, cited)
    PROVE  /\ x.edge.from = "CANDIDATE" /\ x.edge.trigger = trigger /\ x.detection = m.bars
           /\ x.edge.to \notin OpenStates /\ x.edge.to # "INACTIVE"
<1> DEFINE d == ReversalPattern
<1>1. DOMAIN d.edges = 1..4 /\ Plain(d)
  BY ReversalPlain
<1>2. /\ d.edges[2] = [from |-> "CANDIDATE", to |-> "CONFIRMED", trigger |-> "protected_swing_break"]
      /\ d.edges[3] = [from |-> "CANDIDATE", to |-> "INVALIDATED", trigger |-> "same_direction_extreme"]
      /\ d.edges[4] = [from |-> "CANDIDATE", to |-> "EXPIRED", trigger |-> "candidate_age_limit"]
  BY DEF ReversalPattern, Edge
<1>3. PICK k \in 1..4 : /\ d.edges[k].from = "CANDIDATE" /\ d.edges[k].trigger = trigger
                        /\ d.edges[k].to \in {"CONFIRMED", "INVALIDATED", "EXPIRED"}
  BY <1>2 DEF ReversalEndings
<1>4. x = Observes(slot, d, "CANDIDATE", trigger, event, m, cited)
  OBVIOUS
<1>6. k \in DOMAIN d.edges
  BY <1>1
<1> HIDE DEF d
<1>5. /\ Observes(slot, d, "CANDIDATE", trigger, event, m, cited).edge = d.edges[k]
      /\ Observes(slot, d, "CANDIDATE", trigger, event, m, cited).detection = m.bars
  BY <1>1, <1>3, <1>6, ObservesIs
<1> QED BY <1>3, <1>4, <1>5 DEF OpenStates

EndsReversal(refs, c, ends, extremes, m, n) ==
    \A t : Decides(Reversal, t, refs, c, n) <=>
             \/ t = "protected_swing_break" /\ ends # {}
             \/ t = "same_direction_extreme" /\ extremes # {}
             \/ t = "candidate_age_limit" /\ Aged(m, c.started)
Undecided(s, refs, c, b) == \A t : ~Decides(s, t, refs, c, b)
GoesWithout(ends, m, c) == ends = {} => RunsIn(m.legs, c)

\* What decides an open reversal on the bar.
LEMMA ReversalDecided ==
    ASSUME NEW n \in Nat \ {0}, NEW refs, NEW refs2, NEW S, NEW T, NEW lg, NEW m,
           BarTells(refs, refs2, S, T, lg, m, n), NEW slot, slot.state = "CANDIDATE",
           CandidateHolds(Reversal, slot, refs, S, lg, n - 1), NEW c, c = slot.context,
           NEW ends, ends = SourceEnds(slot, m), NEW extremes,
           extremes = NewSwings(m, Extending[c.direction], c.started)
    PROVE  /\ EndsReversal(refs2, c, ends, extremes, m, n) /\ Undecided(Reversal, refs2, c, n - 1)
           /\ Scene(Reversal, refs2, T, c) /\ GoesWithout(ends, m, c)
<1>1. /\ c.started \in 1..(n - 1) /\ Scene(Reversal, refs, S, c)
      /\ OnlyReclaimed(Reversal, "CANDIDATE", refs, c, n - 1) /\ RunsIn(lg, c)
  BY DEF CandidateHolds
<1>2. /\ Same(refs, refs2, n) /\ Grows(S, T, n) /\ LegsMove(lg.active, m.legs.active, m)
      /\ lg.active \in Optional(LegType) /\ m.bars = n
      /\ \A type : On(refs2, type, n) = Observed(m, type)
  BY DEF BarTells
<1>3. EndedOn(refs2, c.leg, n) <=> ends # {}
  <2>1. EndedOn(refs2, c.leg, n) <=>
          \E e \in Observed(m, "TREND_LEG_ENDED") : e.evidence.index = c.leg /\ e.evidence.direction = c.direction
    BY <1>1, <1>2, SourceEndsOrRuns
  <2> QED BY <2>1 DEF SourceEnds
<1>4. ~EndedOn(refs2, c.leg, n) => RunsIn(m.legs, c)
  BY <1>1, <1>2, SourceEndsOrRuns
<1>5. ExtremeOn(refs2, c.direction, n) <=> extremes # {}
  <2>1. \A e \in On(refs2, "SWING_STRUCTURE_CLASSIFIED", n) : e.detection > c.started
    <3>1. n > c.started
      BY <1>1
    <3> QED BY <3>1 DEF On
  <2>2. On(refs2, "SWING_STRUCTURE_CLASSIFIED", n) = Observed(m, "SWING_STRUCTURE_CLASSIFIED")
    BY <1>2
  <2> QED BY <2>1, <2>2 DEF ExtremeOn, NewSwings
<1>6. Aged(m, c.started) <=> n - c.started >= MaxAge
  BY <1>2 DEF Aged
<1>7. ASSUME NEW t
      PROVE  /\ ~Decides(Reversal, t, refs2, c, n - 1)
             /\ Decides(Reversal, t, refs2, c, n) <=> DecidesNow(Reversal, t, refs2, c, n)
  <2>1. /\ Decides(Reversal, t, refs2, c, n - 1) => "CANDIDATE" = "RECLAIMED" /\ t = "ema_reclaim"
        /\ Decides(Reversal, t, refs2, c, n) <=>
             ("CANDIDATE" = "RECLAIMED" /\ t = "ema_reclaim") \/ DecidesNow(Reversal, t, refs2, c, n)
    BY <1>1, <1>2, VerdictIs
  <2> QED BY <2>1
<1>8. Scene(Reversal, refs2, T, c)
  BY <1>1, <1>2, SceneStays
<1>9. \A t : DecidesNow(Reversal, t, refs2, c, n) <=>
             \/ t = "protected_swing_break" /\ EndedOn(refs2, c.leg, n)
             \/ t = "same_direction_extreme" /\ ExtremeOn(refs2, c.direction, n)
             \/ t = "candidate_age_limit" /\ n - c.started >= MaxAge
  BY ReversalVerdict
<1> QED BY <1>3, <1>4, <1>5, <1>6, <1>7, <1>8, <1>9 DEF EndsReversal, Undecided, GoesWithout

\* No other trigger that decides comes before this one.
First(s, trigger, refs, c, n) ==
    \A t : Decides(s, t, refs, c, n) /\ t # "ema_reclaim" /\ trigger # "ema_reclaim" =>
             Rank(Patterns[s], trigger) <= Rank(Patterns[s], t)

\* A reversal that is ended on the bar.
LEMMA ReversalEnds ==
    ASSUME NEW n \in Nat \ {0}, NEW refs, NEW refs2, NEW S, NEW T, NEW lg, NEW m,
           BarTells(refs, refs2, S, T, lg, m, n), NEW slot, slot.state = "CANDIDATE",
           CandidateHolds(Reversal, slot, refs, S, lg, n - 1),
           NEW trigger, trigger \in ReversalEndings,
           Decides(Reversal, trigger, refs2, slot.context, n), First(Reversal, trigger, refs2, slot.context, n),
           NEW event, NEW cited, NEW x,
           x = Observes(slot, ReversalPattern, "CANDIDATE", trigger, event, m, cited),
           NEW out, out.intents = <<x>>, out.state = x.edge.to, out.context = slot.context
    PROVE  Deals(Reversal, slot, out, refs2, T, m.legs, n)
<1> DEFINE c == slot.context
<1>1. /\ x.edge.from = "CANDIDATE" /\ x.edge.trigger = trigger /\ x.detection = m.bars
      /\ x.edge.to \notin OpenStates /\ x.edge.to # "INACTIVE"
  BY ReversalIntent
<1>2. /\ Undecided(Reversal, refs2, c, n - 1)
      /\ Scene(Reversal, refs2, T, c)
  <2> DEFINE ends == SourceEnds(slot, m)
             extremes == NewSwings(m, Extending[c.direction], c.started)
  <2>1. c = slot.context /\ ends = SourceEnds(slot, m) /\ extremes = NewSwings(m, Extending[c.direction], c.started)
    OBVIOUS
  <2> HIDE DEF c, ends, extremes
  <2> QED BY <2>1, ReversalDecided
<1>3. m.bars = n
  BY DEF BarTells
<1>4. Meant(Reversal, x, refs2, c, n)
  <2> HIDE DEF c
  <2>1. x.detection = n /\ x.edge.to # "CANDIDATE"
    BY <1>1, <1>3 DEF OpenStates
  <2> QED BY <1>1, <1>2, <2>1 DEF Undecided, c, First, Meant, Fits
<1>5. Moves1(slot, out, x)
  BY <1>1 DEF Moves1, OpenStates
<1>6. out.state \notin OpenStates
  BY <1>1
<1> QED BY <1>2, <1>4, <1>5, <1>6 DEF Deals

\* A reversal that is not.
LEMMA ReversalWaits ==
    ASSUME NEW n \in Nat \ {0}, NEW refs, NEW refs2, NEW S, NEW T, NEW lg, NEW m,
           BarTells(refs, refs2, S, T, lg, m, n), NEW slot, slot.state = "CANDIDATE",
           CandidateHolds(Reversal, slot, refs, S, lg, n - 1),
           Undecided(Reversal, refs2, slot.context, n), SourceEnds(slot, m) = {},
           NEW ema, NEW out, out = Unmoved(slot, [slot.context EXCEPT !.ema = ema])
    PROVE  Deals(Reversal, slot, out, refs2, T, m.legs, n)
<1> DEFINE c == slot.context
           c2 == [slot.context EXCEPT !.ema = ema]
<1>1. {"direction", "leg", "started"} \subseteq DOMAIN c /\ c.started \in 1..(n - 1)
  BY DEF CandidateHolds, Remembers
<1>2. DOMAIN c2 = DOMAIN c /\ c2.direction = c.direction /\ c2.leg = c.leg /\ c2.started = c.started
  BY <1>1
<1>3. out.intents = <<>> /\ out.state = "CANDIDATE" /\ out.context = c2
  <2> HIDE DEF c2
  <2>1. out = Unmoved(slot, c2)
    BY DEF c2
  <2> QED BY <2>1 DEF Unmoved
<1> HIDE DEF c2
<1>4. SameMind(Reversal, c, c2)
  BY <1>2 DEF SameMind, Reversal, Continuation
<1>5. Scene(Reversal, refs2, T, c) /\ RunsIn(m.legs, c)
  <2> DEFINE ends == SourceEnds(slot, m)
             extremes == NewSwings(m, Extending[c.direction], c.started)
  <2>1. /\ c = slot.context /\ ends = SourceEnds(slot, m)
        /\ extremes = NewSwings(m, Extending[c.direction], c.started)
    OBVIOUS
  <2> HIDE DEF c, ends, extremes
  <2>2. Scene(Reversal, refs2, T, c) /\ GoesWithout(ends, m, c)
    BY <2>1, ReversalDecided
  <2> QED BY <2>1, <2>2 DEF GoesWithout
<1>6. Scene(Reversal, refs2, T, c2) /\ Undecided(Reversal, refs2, c2, n)
  <2>1. /\ \A t, b : Decides(Reversal, t, refs2, c2, b) <=> Decides(Reversal, t, refs2, c, b)
        /\ Scene(Reversal, refs2, T, c2) <=> Scene(Reversal, refs2, T, c)
    BY <1>4, MindDecides
  <2> QED BY <1>5, <2>1 DEF Undecided
<1>7. CandidateHolds(Reversal, out, refs2, T, m.legs, n)
  <2>1. Remembers(Reversal, c2)
    BY <1>1, <1>2 DEF Remembers, Reversal, Continuation
  <2>2. c2.started \in 1..n
    BY <1>1, <1>2
  <2>3. OnlyReclaimed(Reversal, "CANDIDATE", refs2, c2, n)
    BY <1>6 DEF OnlyReclaimed, Undecided
  <2>4. RunsIn(m.legs, c2)
    BY <1>2, <1>5 DEF RunsIn
  <2> QED BY <1>3, <1>6, <2>1, <2>2, <2>3, <2>4 DEF CandidateHolds
<1> QED BY <1>2, <1>3, <1>7 DEF Deals, Stays

\* What the runtime holds of a slot that it offers.
Offers(s, slot, refs, S, lg, n) == slot.state \in OpenStates => CandidateHolds(s, slot, refs, S, lg, n)

\* The reversal detector on one bar.
LEMMA ReversalDeals ==
    ASSUME NEW n \in Nat \ {0}, NEW refs, NEW refs2, NEW S, NEW T, NEW lg, NEW m,
           BarTells(refs, refs2, S, T, lg, m, n), NEW bar, Publishes(m, bar), NEW slot,
           Offers(Reversal, slot, refs, S, lg, n - 1)
    PROVE  Deals(Reversal, slot, ReversalOutput(slot, m), refs2, T, m.legs, n)
<1> DEFINE out == ReversalOutput(slot, m)
<1>1. out = CASE slot.state = "INACTIVE" -> ReversalOpens(slot, m)
              [] slot.state = "CANDIDATE" -> ReversalResolves(slot, m)
              [] OTHER -> Unmoved(slot, slot.context)
  BY DEF ReversalOutput
<1> SUFFICES Deals(Reversal, slot, out, refs2, T, m.legs, n)
  OBVIOUS
<1> HIDE DEF out
<1>2. CASE slot.state = "INACTIVE"
  BY <1>1, <1>2, ReversalOpensDeals
<1>3. CASE slot.state \notin {"INACTIVE", "CANDIDATE"}
  <2>1. Stays(slot, out)
    BY <1>1, <1>3 DEF Stays, Unmoved
  <2>2. slot.state \notin OpenStates
    <3>1. slot.state \in OpenStates => slot.state = "CANDIDATE"
      BY DEF Offers, CandidateHolds
    <3> QED BY <1>3, <3>1
  <2> QED BY <2>1, <2>2, IdleDeals
<1>4. CASE slot.state = "CANDIDATE"
  <2> DEFINE c == slot.context
             ends == SourceEnds(slot, m)
             extremes == NewSwings(m, Extending[c.direction], c.started)
             Seen1(trigger, event, cited) == Observes(slot, ReversalPattern, "CANDIDATE", trigger, event, m, cited)
             Ending(trigger, event, cited) == Moved(slot, <<Seen1(trigger, event, cited)>>, c)
             through == ClosesThrough(c.direction, [close |-> The(m.legs.close)], The(ends).evidence.protected)
             ema == IF m.ema.value = {} THEN c.ema ELSE m.ema.value
  <2>1. out = CASE ends # {} ->
                     [Ending("protected_swing_break", m.bars, ends \cup Corroborating(slot, m, ends))
                      EXCEPT !.raised = ~through]
                [] ends = {} /\ extremes # {} ->
                     Ending("same_direction_extreme", The(extremes).event, extremes)
                [] ends = {} /\ extremes = {} /\ Aged(m, c.started) ->
                     Ending("candidate_age_limit", m.bars, {})
                [] OTHER -> Unmoved(slot, [c EXCEPT !.ema = ema])
    BY <1>1, <1>4 DEF ReversalResolves
  <2>2. EndsReversal(refs2, c, ends, extremes, m, n) /\ CandidateHolds(Reversal, slot, refs, S, lg, n - 1)
    <3>1. CandidateHolds(Reversal, slot, refs, S, lg, n - 1)
      BY <1>4 DEF Offers, OpenStates
    <3>2. /\ c = slot.context /\ ends = SourceEnds(slot, m)
          /\ extremes = NewSwings(m, Extending[c.direction], c.started)
      OBVIOUS
    <3> HIDE DEF c, ends, extremes
    <3> QED BY <1>4, <3>1, <3>2, ReversalDecided
  <2> HIDE DEF ends, extremes, through, ema
  <2>3. ASSUME NEW trigger, trigger \in ReversalEndings, Decides(Reversal, trigger, refs2, c, n),
               First(Reversal, trigger, refs2, c, n), NEW event, NEW cited, NEW o,
               o.intents = Ending(trigger, event, cited).intents, o.state = Ending(trigger, event, cited).state,
               o.context = Ending(trigger, event, cited).context
        PROVE  Deals(Reversal, slot, o, refs2, T, m.legs, n)
    <3> DEFINE x == Seen1(trigger, event, cited)
               one == <<x>>
    <3>1. Ending(trigger, event, cited) =
            [raised |-> FALSE, ordinal |-> slot.ordinal, intents |-> one, state |-> x.edge.to, context |-> c]
      BY MovedOne
    <3> HIDE DEF one, Ending
    <3>2. o.intents = one /\ o.state = x.edge.to /\ o.context = c
      BY <2>3, <3>1
    <3>3. o.intents = <<x>> /\ o.state = x.edge.to /\ o.context = slot.context
      BY <3>2 DEF one
    <3>4. x = Observes(slot, ReversalPattern, "CANDIDATE", trigger, event, m, cited)
      OBVIOUS
    <3> HIDE DEF x
    <3>5. Decides(Reversal, trigger, refs2, slot.context, n) /\ First(Reversal, trigger, refs2, slot.context, n)
      BY <2>3
    <3> QED BY <1>4, <2>2, <2>3, <3>3, <3>4, <3>5, ReversalEnds
  <2>4. \A trigger, event, cited, raised :
          /\ [Ending(trigger, event, cited) EXCEPT !.raised = raised].intents = Ending(trigger, event, cited).intents
          /\ [Ending(trigger, event, cited) EXCEPT !.raised = raised].state = Ending(trigger, event, cited).state
          /\ [Ending(trigger, event, cited) EXCEPT !.raised = raised].context = Ending(trigger, event, cited).context
    <3> HIDE DEF Seen1
    <3> QED BY DEF Moved
  <2>5. /\ First(Reversal, "protected_swing_break", refs2, c, n)
        /\ ends = {} => First(Reversal, "same_direction_extreme", refs2, c, n)
        /\ ends = {} /\ extremes = {} => First(Reversal, "candidate_age_limit", refs2, c, n)
    BY <2>2, ReversalRanks DEF First, EndsReversal
  <2> HIDE DEF Ending, c
  <2>6. CASE ends # {}
    <3> DEFINE cited == ends \cup Corroborating(slot, m, ends)
    <3>1. out = [Ending("protected_swing_break", m.bars, cited) EXCEPT !.raised = ~through]
      BY <2>1, <2>6
    <3>2. Decides(Reversal, "protected_swing_break", refs2, c, n)
      BY <2>2, <2>6 DEF EndsReversal
    <3>3. "protected_swing_break" \in ReversalEndings
      BY DEF ReversalEndings
    <3> HIDE DEF cited
    <3>4. /\ out.intents = Ending("protected_swing_break", m.bars, cited).intents
          /\ out.state = Ending("protected_swing_break", m.bars, cited).state
          /\ out.context = Ending("protected_swing_break", m.bars, cited).context
      BY <2>4, <3>1
    <3> QED BY <2>3, <2>5, <3>2, <3>3, <3>4
  <2>7. CASE ends = {} /\ extremes # {}
    <3>1. out = Ending("same_direction_extreme", The(extremes).event, extremes)
      BY <2>1, <2>7
    <3>2. Decides(Reversal, "same_direction_extreme", refs2, c, n)
      BY <2>2, <2>7 DEF EndsReversal
    <3>3. "same_direction_extreme" \in ReversalEndings
      BY DEF ReversalEndings
    <3> QED BY <2>3, <2>5, <2>7, <3>1, <3>2, <3>3
  <2>8. CASE ends = {} /\ extremes = {} /\ Aged(m, c.started)
    <3>1. out = Ending("candidate_age_limit", m.bars, {})
      BY <2>1, <2>8
    <3>2. Decides(Reversal, "candidate_age_limit", refs2, c, n)
      BY <2>2, <2>8 DEF EndsReversal
    <3>3. "candidate_age_limit" \in ReversalEndings
      BY DEF ReversalEndings
    <3> QED BY <2>3, <2>5, <2>8, <3>1, <3>2, <3>3
  <2>9. CASE ends = {} /\ extremes = {} /\ ~Aged(m, c.started)
    <3>1. out = Unmoved(slot, [slot.context EXCEPT !.ema = ema])
      BY <2>1, <2>9 DEF c
    <3>2. Undecided(Reversal, refs2, slot.context, n) /\ SourceEnds(slot, m) = {}
      BY <2>2, <2>9 DEF EndsReversal, Undecided, c, ends
    <3> QED BY <1>4, <2>2, <3>1, <3>2, ReversalWaits
  <2> QED BY <2>6, <2>7, <2>8, <2>9
<1> QED BY <1>2, <1>3, <1>4

\* The edges an open continuation takes.
Resolution(from, trigger) ==
    \/ from = "CANDIDATE" /\ trigger \in {"ema_reclaim", "protected_swing_break", "candidate_age_limit"}
    \/ from = "RECLAIMED" /\ trigger \in {"continuation_break", "protected_swing_break", "candidate_age_limit"}

Resolves(x, trigger, m) ==
    /\ x.edge.from # "INACTIVE" /\ x.edge.trigger = trigger /\ x.detection = m.bars
    /\ x.edge.to # "CANDIDATE" /\ (x.edge.to = "RECLAIMED" <=> trigger = "ema_reclaim")

\* The intent an open continuation returns names what moved it.
LEMMA ContinuationIntent ==
    ASSUME NEW slot, NEW event, NEW m, NEW cited, NEW from, NEW trigger, Resolution(from, trigger)
    PROVE  Resolves(Observes(slot, ContinuationPattern, from, trigger, event, m, cited), trigger, m)
<1> DEFINE d == ContinuationPattern
<1>1. DOMAIN d.edges = 1..7 /\ Plain(d)
  BY ContinuationPlain, ContinuationEdges
<1>2. PICK k \in 1..7 : /\ d.edges[k].from = from /\ d.edges[k].trigger = trigger
                        /\ d.edges[k].from # "INACTIVE" /\ d.edges[k].to # "CANDIDATE"
                        /\ d.edges[k].to = "RECLAIMED" <=> trigger = "ema_reclaim"
  <2>1. CASE from = "CANDIDATE"
    <3>1. CASE trigger = "ema_reclaim"
      <4>1. /\ d.edges[2].from = from /\ d.edges[2].trigger = trigger /\ d.edges[2].to = "RECLAIMED"
        BY <2>1, <3>1, ContinuationEdges
      <4> QED BY <2>1, <3>1, <4>1
    <3>2. CASE trigger = "protected_swing_break"
      <4>1. /\ d.edges[3].from = from /\ d.edges[3].trigger = trigger /\ d.edges[3].to = "INVALIDATED"
        BY <2>1, <3>2, ContinuationEdges
      <4> QED BY <2>1, <3>2, <4>1
    <3>3. CASE trigger = "candidate_age_limit"
      <4>1. /\ d.edges[6].from = from /\ d.edges[6].trigger = trigger /\ d.edges[6].to = "EXPIRED"
        BY <2>1, <3>3, ContinuationEdges
      <4> QED BY <2>1, <3>3, <4>1
    <3> QED BY <2>1, <3>1, <3>2, <3>3 DEF Resolution
  <2>2. CASE from = "RECLAIMED"
    <3>1. CASE trigger = "continuation_break"
      <4>1. /\ d.edges[5].from = from /\ d.edges[5].trigger = trigger /\ d.edges[5].to = "CONFIRMED"
        BY <2>2, <3>1, ContinuationEdges
      <4> QED BY <2>2, <3>1, <4>1
    <3>2. CASE trigger = "protected_swing_break"
      <4>1. /\ d.edges[4].from = from /\ d.edges[4].trigger = trigger /\ d.edges[4].to = "INVALIDATED"
        BY <2>2, <3>2, ContinuationEdges
      <4> QED BY <2>2, <3>2, <4>1
    <3>3. CASE trigger = "candidate_age_limit"
      <4>1. /\ d.edges[7].from = from /\ d.edges[7].trigger = trigger /\ d.edges[7].to = "EXPIRED"
        BY <2>2, <3>3, ContinuationEdges
      <4> QED BY <2>2, <3>3, <4>1
    <3> QED BY <2>2, <3>1, <3>2, <3>3 DEF Resolution
  <2> QED BY <2>1, <2>2 DEF Resolution
<1>3. k \in DOMAIN d.edges
  BY <1>1
<1>5. d.edges[k].from = from /\ d.edges[k].trigger = trigger
  BY <1>2
<1> HIDE DEF d
<1>4. /\ Observes(slot, d, from, trigger, event, m, cited).edge = d.edges[k]
      /\ Observes(slot, d, from, trigger, event, m, cited).detection = m.bars
  <2>1. /\ Observes(slot, d, d.edges[k].from, d.edges[k].trigger, event, m, cited).edge = d.edges[k]
        /\ Observes(slot, d, d.edges[k].from, d.edges[k].trigger, event, m, cited).detection = m.bars
    BY <1>1, <1>3, ObservesAs
  <2> QED BY <1>5, <2>1
<1> DEFINE x == Observes(slot, d, from, trigger, event, m, cited)
<1>6. Resolves(x, trigger, m)
  BY <1>2, <1>4 DEF Resolves
<1> QED BY <1>6 DEF d

EndsContinuation(refs, c, refuted, broken, from, m, n) ==
    \A t : Decides(Continuation, t, refs, c, n) <=>
             \/ t = "protected_swing_break" /\ refuted # {}
             \/ t = "ema_reclaim" /\ from = "RECLAIMED"
             \/ t = "continuation_break" /\ broken # {} /\ from = "RECLAIMED"
             \/ t = "candidate_age_limit" /\ Aged(m, c.started)
OnlyReclaims(refs, c, b) == \A t : Decides(Continuation, t, refs, c, b) => t = "ema_reclaim"

\* The break of a swing on the bar is the one the detector reads.
LEMMA BreakIsTold ==
    ASSUME NEW refs, NEW m, NEW n, \A type : On(refs, type, n) = Observed(m, type), NEW swing
    PROVE  BrokenOn(refs, swing, n) <=> BreakOf(m, swing) # {}
<1>1. On(refs, BreakEvent[swing.side], n) = Observed(m, BreakEvent[swing.side])
  OBVIOUS
<1> QED BY <1>1 DEF BrokenOn, BreakOf

\* What decides an open continuation on the bar.
LEMMA ContinuationDecided ==
    ASSUME NEW n \in Nat \ {0}, NEW refs, NEW refs2, NEW S, NEW T, NEW lg, NEW m,
           BarTells(refs, refs2, S, T, lg, m, n), NEW slot, slot.state \in OpenStates,
           CandidateHolds(Continuation, slot, refs, S, lg, n - 1), NEW c, c = slot.context,
           NEW refuted, refuted = BreakOf(m, c.protected), NEW broken, broken = BreakOf(m, c.continuation),
           NEW reclaim, reclaim = IF slot.state = "CANDIDATE" THEN Crosses(m, c.direction) ELSE {},
           NEW from, from = IF reclaim = {} THEN slot.state ELSE "RECLAIMED"
    PROVE  /\ EndsContinuation(refs2, c, refuted, broken, from, m, n) /\ OnlyReclaims(refs2, c, n - 1)
           /\ Scene(Continuation, refs2, T, c)
<1> DEFINE state == slot.state
<1>1. /\ c.started \in 1..(n - 1) /\ Scene(Continuation, refs, S, c)
      /\ OnlyReclaimed(Continuation, state, refs, c, n - 1)
  BY DEF CandidateHolds
<1>2. /\ Same(refs, refs2, n) /\ Grows(S, T, n) /\ m.bars = n
      /\ \A type : On(refs2, type, n) = Observed(m, type)
  BY DEF BarTells
<1>3. /\ BrokenOn(refs2, c.protected, n) <=> refuted # {}
      /\ BrokenOn(refs2, c.continuation, n) <=> broken # {}
  BY <1>2, BreakIsTold
<1>4. ReclaimedOn(refs2, c.direction, n) <=> Crosses(m, c.direction) # {}
  <2>1. On(refs2, "EMA_CROSS", n) = Observed(m, "EMA_CROSS")
    BY <1>2
  <2> QED BY <2>1 DEF ReclaimedOn, Crosses
<1>5. Aged(m, c.started) <=> n - c.started >= MaxAge
  BY <1>2 DEF Aged
<1>6. Scene(Continuation, refs2, T, c)
  BY <1>1, <1>2, SceneStays
<1> HIDE DEF state
<1>7. ASSUME NEW t
      PROVE  /\ Decides(Continuation, t, refs2, c, n - 1) => state = "RECLAIMED" /\ t = "ema_reclaim"
             /\ Decides(Continuation, t, refs2, c, n) <=>
                  (state = "RECLAIMED" /\ t = "ema_reclaim") \/ DecidesNow(Continuation, t, refs2, c, n)
  BY <1>1, <1>2, VerdictIs
<1>8. \A t : DecidesNow(Continuation, t, refs2, c, n) <=>
             \/ t = "protected_swing_break" /\ BrokenOn(refs2, c.protected, n)
             \/ t = "ema_reclaim" /\ ReclaimedOn(refs2, c.direction, n)
             \/ /\ t = "continuation_break" /\ BrokenOn(refs2, c.continuation, n)
                /\ Decides(Continuation, "ema_reclaim", refs2, c, n)
             \/ t = "candidate_age_limit" /\ n - c.started >= MaxAge
  BY ContinuationVerdict
<1>9. Decides(Continuation, "ema_reclaim", refs2, c, n) <=> from = "RECLAIMED"
  <2>1. Decides(Continuation, "ema_reclaim", refs2, c, n) <=>
          state = "RECLAIMED" \/ ReclaimedOn(refs2, c.direction, n)
    BY <1>7, <1>8
  <2>2. state = "CANDIDATE" \/ state = "RECLAIMED"
    BY DEF state, OpenStates
  <2> QED BY <1>4, <2>1, <2>2 DEF state
<1>10. EndsContinuation(refs2, c, refuted, broken, from, m, n)
  <2>1. ASSUME NEW t
        PROVE  Decides(Continuation, t, refs2, c, n) <=>
                 \/ t = "protected_swing_break" /\ refuted # {}
                 \/ t = "ema_reclaim" /\ from = "RECLAIMED"
                 \/ t = "continuation_break" /\ broken # {} /\ from = "RECLAIMED"
                 \/ t = "candidate_age_limit" /\ Aged(m, c.started)
    <3>1. CASE t = "ema_reclaim"
      BY <1>9, <3>1
    <3>2. CASE t # "ema_reclaim"
      <4>1. Decides(Continuation, t, refs2, c, n) <=> DecidesNow(Continuation, t, refs2, c, n)
        BY <1>7, <3>2
      <4> QED BY <1>3, <1>5, <1>8, <1>9, <3>2, <4>1
    <3> QED BY <3>1, <3>2
  <2> QED BY <2>1 DEF EndsContinuation
<1>11. OnlyReclaims(refs2, c, n - 1)
  BY <1>7 DEF OnlyReclaims
<1> QED BY <1>6, <1>10, <1>11

\* So it does what the detector remembers after the bar.
LEMMA ContinuationMind ==
    ASSUME NEW c, NEW c2, SameMind(Continuation, c, c2), NEW refs, NEW S, NEW refuted, NEW broken, NEW from,
           NEW m, NEW n, EndsContinuation(refs, c, refuted, broken, from, m, n), OnlyReclaims(refs, c, n - 1),
           Scene(Continuation, refs, S, c)
    PROVE  /\ EndsContinuation(refs, c2, refuted, broken, from, m, n) /\ OnlyReclaims(refs, c2, n - 1)
           /\ Scene(Continuation, refs, S, c2)
<1>1. /\ \A t, b : Decides(Continuation, t, refs, c2, b) <=> Decides(Continuation, t, refs, c, b)
      /\ Scene(Continuation, refs, S, c2) <=> Scene(Continuation, refs, S, c)
  BY MindDecides
<1>2. c2.started = c.started
  BY DEF SameMind
<1> QED BY <1>1, <1>2 DEF EndsContinuation, OnlyReclaims

\* What an open continuation measures on a bar leaves what it remembers.
LEMMA ObservingMind ==
    ASSUME NEW c, Remembers(Continuation, c), NEW m, NEW bar
    PROVE  /\ SameMind(Continuation, c, Observing(c, m, bar)) /\ Remembers(Continuation, Observing(c, m, bar))
           /\ \A x : /\ SameMind(Continuation, c, [Observing(c, m, bar) EXCEPT !.reclaimed = x])
                     /\ Remembers(Continuation, [Observing(c, m, bar) EXCEPT !.reclaimed = x])
<1> DEFINE new == Observing(c, m, bar)
<1>1. {"direction", "leg", "started", "protected", "continuation"} \subseteq DOMAIN c
  BY DEF Remembers
<1>2. /\ DOMAIN new = DOMAIN c /\ new.direction = c.direction /\ new.leg = c.leg /\ new.started = c.started
      /\ new.protected = c.protected /\ new.continuation = c.continuation
  BY <1>1 DEF Observing
<1> HIDE DEF new
<1>3. SameMind(Continuation, c, new) /\ Remembers(Continuation, new)
  BY <1>2 DEF SameMind, Remembers
<1>4. ASSUME NEW x
      PROVE  /\ SameMind(Continuation, c, [new EXCEPT !.reclaimed = x])
             /\ Remembers(Continuation, [new EXCEPT !.reclaimed = x])
  <2> DEFINE next == [new EXCEPT !.reclaimed = x]
  <2>1. /\ DOMAIN next = DOMAIN c /\ next.direction = c.direction /\ next.leg = c.leg /\ next.started = c.started
        /\ next.protected = c.protected /\ next.continuation = c.continuation
    BY <1>1, <1>2
  <2> HIDE DEF next
  <2>2. SameMind(Continuation, c, next) /\ Remembers(Continuation, next)
    BY <2>1 DEF SameMind, Remembers
  <2> QED BY <2>2 DEF next
<1> QED BY <1>3, <1>4 DEF new

\* An intent that decides is one the code means.
LEMMA ContinuationMeant ==
    ASSUME NEW refs, NEW c, NEW n, OnlyReclaims(refs, c, n - 1), NEW m, m.bars = n, NEW trigger,
           Decides(Continuation, trigger, refs, c, n), First(Continuation, trigger, refs, c, n),
           NEW x, Resolves(x, trigger, m)
    PROVE  Meant(Continuation, x, refs, c, n)
BY DEF OnlyReclaims, First, Resolves, Meant, Fits

\* The continuation detector on a bar that does not end the candidate.
LEMMA ContinuationHolds ==
    ASSUME NEW n \in Nat \ {0}, NEW refs, NEW T, NEW lg, NEW m, NEW c, NEW refuted, NEW broken, NEW from,
           EndsContinuation(refs, c, refuted, broken, from, m, n), Scene(Continuation, refs, T, c),
           Remembers(Continuation, c), c.started \in 1..n, from \in OpenStates,
           refuted = {}, ~(from = "RECLAIMED" /\ broken # {}), ~Aged(m, c.started),
           NEW out, out.state = from, out.context = c
    PROVE  CandidateHolds(Continuation, out, refs, T, lg, n)
<1>1. \A t : Decides(Continuation, t, refs, c, n) <=> t = "ema_reclaim" /\ from = "RECLAIMED"
  BY DEF EndsContinuation
<1>2. OnlyReclaimed(Continuation, from, refs, c, n)
  BY <1>1 DEF OnlyReclaimed
<1> QED BY <1>2 DEF CandidateHolds, Continuation, Reversal

\* The continuation detector on a bar of an open candidate.
LEMMA ContinuationAdvancesDeals ==
    ASSUME NEW n \in Nat \ {0}, NEW refs, NEW refs2, NEW S, NEW T, NEW lg, NEW m,
           BarTells(refs, refs2, S, T, lg, m, n), NEW bar, NEW slot, slot.state \in OpenStates,
           CandidateHolds(Continuation, slot, refs, S, lg, n - 1)
    PROVE  Deals(Continuation, slot, ContinuationAdvances(slot, m, bar), refs2, T, m.legs, n)
<1> DEFINE d == ContinuationPattern
           c == Observing(slot.context, m, bar)
           refuted == BreakOf(m, c.protected)
           broken == BreakOf(m, c.continuation)
           reclaim == IF slot.state = "CANDIDATE" THEN Crosses(m, c.direction) ELSE {}
           aged == Aged(m, c.started)
           after == IF reclaim = {} THEN c ELSE [c EXCEPT !.reclaimed = {m.bars}]
           first == Observes(slot, d, "CANDIDATE", "ema_reclaim", m.bars, m, reclaim)
           reclaiming == IF reclaim = {} THEN <<>> ELSE <<first>>
           from == IF reclaim = {} THEN slot.state ELSE "RECLAIMED"
           Deciding(trigger, cited) == Observes(slot, d, from, trigger, m.bars, m, cited)
           Ending(trigger, cited) == Moved(slot, Append(reclaiming, Deciding(trigger, cited)), after)
           refusal == Observes(slot, d, slot.state, "protected_swing_break", m.bars, m, refuted)
           out == ContinuationAdvances(slot, m, bar)
           D(o) == Deals(Continuation, slot, o, refs2, T, m.legs, n)
<1>1. out = CASE refuted # {} -> Moved(slot, <<refusal>>, c)
              [] refuted = {} /\ from = "RECLAIMED" /\ broken # {} -> Ending("continuation_break", broken)
              [] refuted = {} /\ ~(from = "RECLAIMED" /\ broken # {}) /\ aged -> Ending("candidate_age_limit", {})
              [] OTHER -> IF reclaim = {} THEN Unmoved(slot, after) ELSE Moved(slot, reclaiming, after)
  BY DEF ContinuationAdvances
<1>2. /\ SameMind(Continuation, slot.context, c) /\ Remembers(Continuation, c)
      /\ SameMind(Continuation, slot.context, after) /\ Remembers(Continuation, after)
  <2>1. Remembers(Continuation, slot.context)
    BY DEF CandidateHolds
  <2> QED BY <2>1, ObservingMind
<1>3. /\ EndsContinuation(refs2, slot.context, refuted, broken, from, m, n)
      /\ OnlyReclaims(refs2, slot.context, n - 1) /\ Scene(Continuation, refs2, T, slot.context)
  <2> DEFINE b == slot.context
  <2>1. c.protected = b.protected /\ c.continuation = b.continuation /\ c.direction = b.direction
    BY <1>2 DEF SameMind
  <2>2. /\ b = slot.context /\ refuted = BreakOf(m, b.protected) /\ broken = BreakOf(m, b.continuation)
        /\ reclaim = IF slot.state = "CANDIDATE" THEN Crosses(m, b.direction) ELSE {}
        /\ from = IF reclaim = {} THEN slot.state ELSE "RECLAIMED"
    BY <2>1
  <2> HIDE DEF b, c, refuted, broken, reclaim, from
  <2>3. /\ EndsContinuation(refs2, b, refuted, broken, from, m, n)
        /\ OnlyReclaims(refs2, b, n - 1) /\ Scene(Continuation, refs2, T, b)
    BY <2>2, ContinuationDecided
  <2> QED BY <2>3 DEF b
<1>4. ASSUME NEW x \in {c, after}
      PROVE  /\ EndsContinuation(refs2, x, refuted, broken, from, m, n)
             /\ OnlyReclaims(refs2, x, n - 1) /\ Scene(Continuation, refs2, T, x)
             /\ Remembers(Continuation, x) /\ x.started = slot.context.started /\ x.started \in 1..n
  <2>1. SameMind(Continuation, slot.context, x) /\ Remembers(Continuation, x)
    BY <1>2
  <2> HIDE DEF c, after, refuted, broken, from
  <2>2. slot.context.started \in 1..(n - 1)
    BY DEF CandidateHolds
  <2>3. x.started = slot.context.started
    BY <2>1 DEF SameMind
  <2>4. x.started \in 1..n
    BY <2>2, <2>3
  <2>5. /\ EndsContinuation(refs2, x, refuted, broken, from, m, n) /\ OnlyReclaims(refs2, x, n - 1)
        /\ Scene(Continuation, refs2, T, x)
    BY <1>3, <2>1, ContinuationMind
  <2> QED BY <2>1, <2>3, <2>4, <2>5
<1>5. m.bars = n
  BY DEF BarTells
<1>6. /\ reclaim # {} => slot.state = "CANDIDATE" /\ from = "RECLAIMED"
      /\ reclaim = {} => from = slot.state
      /\ from \in OpenStates
  BY DEF OpenStates
<1>7. /\ reclaiming = IF reclaim = {} THEN <<>> ELSE <<first>>
      /\ \A trigger, cited : Ending(trigger, cited) = Moved(slot, Append(reclaiming, Deciding(trigger, cited)), after)
  OBVIOUS
<1>8. /\ aged => Aged(m, after.started)
      /\ ~aged => ~Aged(m, after.started)
      /\ c = after \/ reclaim # {}
  <2>1. after.started = c.started
    BY <1>4
  <2> QED BY <2>1
<1>9. /\ reclaim # {} => Resolves(first, "ema_reclaim", m)
      /\ \A trigger, cited : Resolution(from, trigger) => Resolves(Deciding(trigger, cited), trigger, m)
      /\ Resolves(refusal, "protected_swing_break", m)
  <2>1. Resolution("CANDIDATE", "ema_reclaim") /\ Resolution(slot.state, "protected_swing_break")
    BY DEF Resolution, OpenStates
  <2> HIDE DEF reclaim, refuted, from, c
  <2> QED BY <2>1, ContinuationIntent
<1> SUFFICES D(out)
  OBVIOUS
<1> HIDE DEF c, refuted, broken, reclaim, aged, after, first, reclaiming, from, Deciding, Ending, refusal, out
\* One intent.
<1>10. ASSUME NEW trigger, NEW x, Resolves(x, trigger, m), NEW y \in {c, after},
              Decides(Continuation, trigger, refs2, y, n), First(Continuation, trigger, refs2, y, n),
              NEW o, o.intents = <<x>>, o.state = x.edge.to, o.context = y,
              o.state \in OpenStates => CandidateHolds(Continuation, o, refs2, T, m.legs, n)
       PROVE  D(o)
  <2>1. Meant(Continuation, x, refs2, y, n)
    BY <1>4, <1>5, <1>10, ContinuationMeant
  <2>2. Moves1(slot, o, x)
    BY <1>4, <1>10 DEF Moves1, Resolves
  <2> QED BY <1>4, <1>10, <2>1, <2>2 DEF Deals
\* A reclaim, and what follows it.
<1>11. ASSUME reclaim # {}, NEW trigger, trigger # "ema_reclaim", NEW x, Resolves(x, trigger, m),
              Decides(Continuation, trigger, refs2, after, n), First(Continuation, trigger, refs2, after, n),
              NEW o, o.intents = <<first, x>>, o.state = x.edge.to, o.context = after
       PROVE  D(o)
  <2>1. Meant(Continuation, x, refs2, after, n)
    BY <1>4, <1>5, <1>11, ContinuationMeant
  <2>2. Decides(Continuation, "ema_reclaim", refs2, after, n)
    BY <1>4, <1>6, <1>11 DEF EndsContinuation
  <2>3. First(Continuation, "ema_reclaim", refs2, after, n)
    BY DEF First
  <2>4. Meant(Continuation, first, refs2, after, n)
    BY <1>4, <1>5, <1>9, <1>11, <2>2, <2>3, ContinuationMeant
  <2>5. Moves2(slot, o, first, x)
    BY <1>4, <1>9, <1>11 DEF Moves2, Resolves
  <2>6. o.state \notin OpenStates
    BY <1>11 DEF Resolves, OpenStates
  <2> QED BY <1>4, <1>11, <2>1, <2>4, <2>5, <2>6 DEF Deals
\* The candidate ends, reclaimed on this bar or not.
<1>12. ASSUME NEW trigger, trigger # "ema_reclaim", NEW cited, Resolution(from, trigger),
              Decides(Continuation, trigger, refs2, after, n), First(Continuation, trigger, refs2, after, n)
       PROVE  D(Ending(trigger, cited))
  <2> DEFINE x == Deciding(trigger, cited)
             o == Ending(trigger, cited)
  <2>1. Resolves(x, trigger, m)
    BY <1>9, <1>12
  <2>2. o = Moved(slot, Append(reclaiming, x), after)
    BY <1>7
  <2> HIDE DEF x, o
  <2>3. CASE reclaim = {}
    <3> DEFINE one == <<x>>
    <3>1. Append(reclaiming, x) = one
      <4>1. reclaiming = <<>>
        BY <1>7, <2>3
      <4> QED BY <4>1
    <3>2. Moved(slot, one, after) = [raised |-> FALSE, ordinal |-> slot.ordinal, intents |-> one,
                                     state |-> x.edge.to, context |-> after]
      BY MovedOne
    <3> HIDE DEF one
    <3>3. o.intents = one /\ o.state = x.edge.to /\ o.context = after
      BY <2>2, <3>1, <3>2
    <3>4. o.state \notin OpenStates
      BY <1>12, <2>1, <3>3 DEF Resolves, OpenStates
    <3>5. D(o)
      BY <1>10, <1>12, <2>1, <3>3, <3>4 DEF one
    <3> QED BY <3>5 DEF o
  <2>4. CASE reclaim # {}
    <3> DEFINE both == <<first, x>>
    <3>1. Append(reclaiming, x) = both
      <4>1. reclaiming = <<first>>
        BY <1>7, <2>4
      <4> QED BY <4>1, AppendTwo
    <3>2. Moved(slot, both, after) = [raised |-> FALSE, ordinal |-> slot.ordinal, intents |-> both,
                                      state |-> x.edge.to, context |-> after]
      BY MovedTwo
    <3> HIDE DEF both
    <3>3. o.intents = both /\ o.state = x.edge.to /\ o.context = after
      BY <2>2, <3>1, <3>2
    <3>4. D(o)
      BY <1>11, <1>12, <2>1, <2>4, <3>3 DEF both
    <3> QED BY <3>4 DEF o
  <2> QED BY <2>3, <2>4
<1>13. CASE refuted # {}
  <2>1. out = Moved(slot, <<refusal>>, c)
    BY <1>1, <1>13
  <2> DEFINE one == <<refusal>>
  <2>2. Moved(slot, one, c) = [raised |-> FALSE, ordinal |-> slot.ordinal, intents |-> one,
                               state |-> refusal.edge.to, context |-> c]
    BY MovedOne
  <2>3. out = Moved(slot, one, c)
    BY <2>1
  <2> HIDE DEF one
  <2>4. out.intents = one /\ out.state = refusal.edge.to /\ out.context = c
    BY <2>2, <2>3
  <2>5. out.state \notin OpenStates
    BY <1>9, <2>4 DEF Resolves, OpenStates
  <2>6. Decides(Continuation, "protected_swing_break", refs2, c, n)
    BY <1>4, <1>13 DEF EndsContinuation
  <2>7. First(Continuation, "protected_swing_break", refs2, c, n)
    BY <1>4, ContinuationRanks DEF First, EndsContinuation
  <2> QED BY <1>9, <1>10, <2>4, <2>5, <2>6, <2>7 DEF one
<1>14. CASE refuted = {} /\ from = "RECLAIMED" /\ broken # {}
  <2>1. out = Ending("continuation_break", broken)
    BY <1>1, <1>14
  <2>2. Decides(Continuation, "continuation_break", refs2, after, n)
    BY <1>4, <1>14 DEF EndsContinuation
  <2>3. First(Continuation, "continuation_break", refs2, after, n)
    BY <1>4, <1>14, ContinuationRanks DEF First, EndsContinuation
  <2>4. Resolution(from, "continuation_break")
    BY <1>14 DEF Resolution
  <2> QED BY <1>12, <2>1, <2>2, <2>3, <2>4
<1>15. CASE refuted = {} /\ ~(from = "RECLAIMED" /\ broken # {}) /\ aged
  <2>1. out = Ending("candidate_age_limit", {})
    BY <1>1, <1>15
  <2>2. Decides(Continuation, "candidate_age_limit", refs2, after, n)
    BY <1>4, <1>8, <1>15 DEF EndsContinuation
  <2>3. First(Continuation, "candidate_age_limit", refs2, after, n)
    BY <1>4, <1>15, ContinuationRanks DEF First, EndsContinuation
  <2>4. Resolution(from, "candidate_age_limit")
    BY <1>6 DEF Resolution, OpenStates
  <2> QED BY <1>12, <2>1, <2>2, <2>3, <2>4
<1>16. CASE refuted = {} /\ ~(from = "RECLAIMED" /\ broken # {}) /\ ~aged
  <2>1. out = IF reclaim = {} THEN Unmoved(slot, after) ELSE Moved(slot, reclaiming, after)
    BY <1>1, <1>16
  <2>2. /\ EndsContinuation(refs2, after, refuted, broken, from, m, n) /\ Scene(Continuation, refs2, T, after)
        /\ Remembers(Continuation, after) /\ after.started \in 1..n /\ from \in OpenStates
        /\ ~Aged(m, after.started)
    BY <1>4, <1>6, <1>8, <1>16
  <2>3. ASSUME NEW o, o.state = from, o.context = after
        PROVE  CandidateHolds(Continuation, o, refs2, T, m.legs, n)
    BY <1>16, <2>2, <2>3, ContinuationHolds
  <2>4. CASE reclaim = {}
    <3>1. out.intents = <<>> /\ out.state = slot.state /\ out.context = after
      BY <2>1, <2>4 DEF Unmoved
    <3>2. out.state = from
      BY <1>6, <2>4, <3>1
    <3> QED BY <1>4, <2>3, <3>1, <3>2 DEF Deals, Stays
  <2>5. CASE reclaim # {}
    <3> DEFINE one == <<first>>
    <3>1. Moved(slot, one, after) = [raised |-> FALSE, ordinal |-> slot.ordinal, intents |-> one,
                                     state |-> first.edge.to, context |-> after]
      BY MovedOne
    <3>2. out = Moved(slot, one, after)
      BY <1>7, <2>1, <2>5
    <3> HIDE DEF one
    <3>3. out.intents = one /\ out.state = first.edge.to /\ out.context = after
      BY <3>1, <3>2
    <3>4. Resolves(first, "ema_reclaim", m)
      BY <1>9, <2>5
    <3>5. out.state = from
      BY <1>6, <2>5, <3>3, <3>4 DEF Resolves
    <3>6. Decides(Continuation, "ema_reclaim", refs2, after, n)
      BY <1>4, <1>6, <2>5 DEF EndsContinuation
    <3>7. First(Continuation, "ema_reclaim", refs2, after, n)
      BY DEF First
    <3>8. CandidateHolds(Continuation, out, refs2, T, m.legs, n)
      BY <2>3, <3>3, <3>5
    <3> QED BY <1>10, <3>3, <3>4, <3>6, <3>7, <3>8 DEF one
  <2> QED BY <2>4, <2>5
<1> QED BY <1>13, <1>14, <1>15, <1>16

\* The continuation detector on one bar.
LEMMA ContinuationDeals ==
    ASSUME NEW n \in Nat \ {0}, NEW refs, NEW refs2, NEW S, NEW T, NEW lg, NEW m,
           BarTells(refs, refs2, S, T, lg, m, n), NEW bar, NEW slot,
           Offers(Continuation, slot, refs, S, lg, n - 1)
    PROVE  Deals(Continuation, slot, ContinuationOutput(slot, m, bar), refs2, T, m.legs, n)
<1> DEFINE out == ContinuationOutput(slot, m, bar)
<1>1. out = CASE slot.state = "INACTIVE" -> ContinuationOpens(slot, m, bar)
              [] slot.state \in {"CANDIDATE", "RECLAIMED"} -> ContinuationAdvances(slot, m, bar)
              [] OTHER -> Unmoved(slot, slot.context)
  BY DEF ContinuationOutput
<1> SUFFICES Deals(Continuation, slot, out, refs2, T, m.legs, n)
  OBVIOUS
<1> HIDE DEF out
<1>2. CASE slot.state = "INACTIVE"
  BY <1>1, <1>2, ContinuationOpensDeals
<1>3. CASE slot.state \in OpenStates
  <2>1. out = ContinuationAdvances(slot, m, bar)
    BY <1>1, <1>3 DEF OpenStates
  <2>2. CandidateHolds(Continuation, slot, refs, S, lg, n - 1)
    BY <1>3 DEF Offers
  <2> QED BY <1>3, <2>1, <2>2, ContinuationAdvancesDeals
<1>4. CASE slot.state # "INACTIVE" /\ slot.state \notin OpenStates
  <2>1. Stays(slot, out)
    BY <1>1, <1>4 DEF Stays, Unmoved, OpenStates
  <2> QED BY <1>4, <2>1, IdleDeals
<1> QED BY <1>2, <1>3, <1>4

-----------------------------------------------------------------------------
(* What the log keeps of a slot.                                           *)

\* The bar adds the intents of slot s to the log, one after the other.
AddsAt(log, log2, s, intents, off) ==
    /\ off \in Nat /\ off >= Len(log) /\ off + Len(intents) <= Len(log2)
    /\ \A i \in Len(log) + 1..Len(log2) : log2[i].slot = s <=> i \in off + 1..off + Len(intents)
    /\ \A k \in 1..Len(intents) : /\ log2[off + k].edge = intents[k].edge
                                  /\ log2[off + k].detection = intents[k].detection
Adds(log, log2, s, intents) ==
    /\ Len(log) \in Nat /\ DOMAIN log = 1..Len(log) /\ Len(log2) \in Nat /\ DOMAIN log2 = 1..Len(log2)
    /\ Len(log) <= Len(log2) /\ Len(intents) \in Nat
    /\ \A i \in 1..Len(log) : log2[i] = log[i]
    /\ \E off : AddsAt(log, log2, s, intents, off)

\* An occurrence opens, or goes on.
Starts(slot, out, n) ==
    /\ slot.state \notin OpenStates /\ Len(out.intents) = 1
    /\ out.intents[1].edge.from = "INACTIVE" /\ out.context.started = n
Proceeds(slot, out) ==
    /\ \A k \in 1..Len(out.intents) : out.intents[k].edge.from # "INACTIVE"
    /\ slot.state \in OpenStates \/ Len(out.intents) > 0 \/ out.state \in OpenStates =>
         slot.state \in OpenStates /\ out.context.started = slot.context.started

\* What a detector returns, intent by intent.
Dealt(s, slot, out, refs, S, n) ==
    /\ Len(out.intents) \in Nat /\ DOMAIN out.intents = 1..Len(out.intents)
    /\ \A k \in 1..Len(out.intents) : out.intents[k].detection = n /\ Fits(s, out.intents[k], refs, out.context)
    /\ Len(out.intents) > 0 => /\ Scene(s, refs, S, out.context)
                               /\ out.intents[Len(out.intents)].edge.to = out.state
    /\ Len(out.intents) = 0 => out.state = slot.state
    /\ Starts(slot, out, n) \/ Proceeds(slot, out)

\* What a detector returns, counted.
LEMMA DealsDealt ==
    ASSUME NEW s, NEW slot, NEW out, NEW refs, NEW S, NEW lg, NEW n, Deals(s, slot, out, refs, S, lg, n)
    PROVE  Dealt(s, slot, out, refs, S, n)
<1> DEFINE xs == out.intents
<1>1. CASE Stays(slot, out) /\ (slot.state \in OpenStates => out.context.started = slot.context.started)
  <2>1. Len(xs) = 0 /\ 1..Len(xs) = {} /\ DOMAIN xs = 1..Len(xs)
    BY <1>1 DEF Stays
  <2>2. out.state = slot.state
    BY <1>1 DEF Stays
  <2> HIDE DEF xs
  <2> QED BY <1>1, <2>1, <2>2 DEF Dealt, Proceeds, xs
<1>2. ASSUME NEW x, Meant(s, x, refs, out.context, n), xs = <<x>>
      PROVE  /\ Len(xs) = 1 /\ xs[1] = x /\ 1..Len(xs) = {1} /\ DOMAIN xs = 1..Len(xs)
             /\ \A k \in 1..Len(xs) : xs[k].detection = n /\ Fits(s, xs[k], refs, out.context)
  <2>1. Len(xs) = 1 /\ xs[1] = x /\ DOMAIN xs = 1..Len(xs)
    BY <1>2
  <2> HIDE DEF xs
  <2>2. 1..Len(xs) = {1}
    BY <2>1
  <2> QED BY <1>2, <2>1, <2>2 DEF Meant
<1>3. ASSUME NEW x, Meant(s, x, refs, out.context, n), Begins1(slot, out, x, n), Scene(s, refs, S, out.context)
      PROVE  Dealt(s, slot, out, refs, S, n)
  <2>1. /\ Len(xs) = 1 /\ xs[1] = x /\ 1..Len(xs) = {1} /\ DOMAIN xs = 1..Len(xs)
        /\ \A k \in 1..Len(xs) : xs[k].detection = n /\ Fits(s, xs[k], refs, out.context)
    BY <1>2, <1>3 DEF Begins1
  <2>2. slot.state \notin OpenStates
    BY <1>3 DEF Begins1, OpenStates
  <2>3. Starts(slot, out, n)
    BY <1>3, <2>1, <2>2 DEF Starts, Begins1
  <2> QED BY <1>3, <2>1, <2>3 DEF Dealt, Begins1
<1>4. ASSUME NEW x, Meant(s, x, refs, out.context, n), Moves1(slot, out, x), Scene(s, refs, S, out.context)
      PROVE  Dealt(s, slot, out, refs, S, n)
  <2>1. /\ Len(xs) = 1 /\ xs[1] = x /\ 1..Len(xs) = {1} /\ DOMAIN xs = 1..Len(xs)
        /\ \A k \in 1..Len(xs) : xs[k].detection = n /\ Fits(s, xs[k], refs, out.context)
    BY <1>2, <1>4 DEF Moves1
  <2>2. Proceeds(slot, out)
    BY <1>4, <2>1 DEF Proceeds, Moves1
  <2> QED BY <1>4, <2>1, <2>2 DEF Dealt, Moves1
<1>5. ASSUME NEW x, NEW y, Meant(s, x, refs, out.context, n), Meant(s, y, refs, out.context, n),
             Moves2(slot, out, x, y), Scene(s, refs, S, out.context)
      PROVE  Dealt(s, slot, out, refs, S, n)
  <2>1. xs = <<x, y>>
    BY <1>5 DEF Moves2
  <2>2. Len(xs) = 2 /\ xs[1] = x /\ xs[2] = y /\ DOMAIN xs = 1..Len(xs)
    BY <2>1
  <2> HIDE DEF xs
  <2>3. 1..Len(xs) = {1, 2}
    BY <2>2
  <2>4. \A k \in 1..Len(xs) : xs[k].detection = n /\ Fits(s, xs[k], refs, out.context)
    BY <1>5, <2>2, <2>3 DEF Meant
  <2>5. \A k \in 1..Len(xs) : xs[k].edge.from # "INACTIVE"
    BY <1>5, <2>2, <2>3 DEF Moves2
  <2>6. Proceeds(slot, out)
    BY <1>5, <2>2, <2>5 DEF Proceeds, Moves2, xs
  <2> QED BY <1>5, <2>2, <2>4, <2>6 DEF Dealt, Moves2, xs
<1> QED BY <1>1, <1>3, <1>4, <1>5 DEF Deals

\* A slot offered anew has no open occurrence.
LEMMA TracedOffered ==
    ASSUME NEW log, NEW s \in Trends, NEW slot, NEW refs, NEW S, NEW n, Traced(log, s, slot, refs, S, n)
    PROVE  Traced(log, s, Offered(Patterns[s], slot), refs, S, n)
<1> DEFINE d == Patterns[s]
           next == Offered(d, slot)
<1>1. d.terminal = {"CONFIRMED", "INVALIDATED", "EXPIRED"} /\ InitialState(d) = "INACTIVE"
  BY DEF Trends, Patterns, Continuation, Reversal, ContinuationPattern, ReversalPattern, InitialState
<1>2. next = Offered(Patterns[s], slot)
  OBVIOUS
<1> HIDE DEF d
<1>3. CASE ~Restarts(d, slot)
  <2>1. next = slot
    BY <1>3 DEF Offered
  <2> QED BY <2>1, <1>2
<1>4. CASE Restarts(d, slot)
  <2>1. slot.state \notin OpenStates
    BY <1>1, <1>4 DEF Restarts, OpenStates
  <2>2. next.state = "INACTIVE"
    BY <1>1, <1>4 DEF Offered, FreshSlot
  <2>3. next.state \notin OpenStates
    BY <2>2 DEF OpenStates
  <2> HIDE DEF next
  <2>4. Traced(log, s, next, refs, S, n)
    BY <2>1, <2>3 DEF Traced
  <2> QED BY <2>4, <1>2
<1> QED BY <1>3, <1>4

\* So far as the log is what it was, so is what it says.
LEMMA OpenedStays ==
    ASSUME NEW log, NEW log2, NEW s, NEW intents, Adds(log, log2, s, intents), NEW i \in 1..Len(log), NEW a,
           Opened(log, s, i, a)
    PROVE  Opened(log2, s, i, a)
<1>1. \A j \in 1..i : log2[j] = log[j]
  BY DEF Adds
<1> QED BY <1>1 DEF Opened

\* An event of an earlier bar fits its candidate ever after.
LEMMA FitsStays ==
    ASSUME NEW n \in Nat \ {0}, NEW refs, NEW refs2, Same(refs, refs2, n), NEW s, NEW c, c.started \in Nat,
           NEW e, e.detection \in 1..(n - 1), Fits(s, e, refs, c)
    PROVE  Fits(s, e, refs2, c)
<1> DEFINE b == e.detection
<1>1. b \in Int /\ b <= n - 1 /\ b - 1 \in Int /\ b - 1 <= n - 1
  OBVIOUS
<1>2. ASSUME NEW t PROVE Decides(s, t, refs2, c, b) <=> Decides(s, t, refs, c, b)
  BY <1>1, DecidesStays
<1>3. ASSUME NEW t PROVE Decides(s, t, refs2, c, b - 1) <=> Decides(s, t, refs, c, b - 1)
  BY <1>1, DecidesStays
<1> QED BY <1>2, <1>3 DEF Fits

LEMMA ExplainedStays ==
    ASSUME NEW n \in Nat \ {0}, NEW refs, NEW refs2, Same(refs, refs2, n), NEW S, NEW T, Grows(S, T, n),
           NEW log, NEW log2, NEW s, NEW intents, Adds(log, log2, s, intents), NEW i \in 1..Len(log),
           \A j \in 1..Len(log) : log[j].slot = s => log[j].detection \in 1..(n - 1),
           log[i].slot = s, Explained(log, s, i, refs, S)
    PROVE  Explained(log2, s, i, refs2, T)
<1>1. PICK c : Scene(s, refs, S, c) /\ Opened(log, s, i, c.started) /\ Fits(s, log[i], refs, c)
  BY DEF Explained
<1>2. c.started \in 1..(n - 1)
  <2>1. PICK j \in 1..i : Opens(log[j], s) /\ log[j].detection = c.started
    BY <1>1 DEF Opened
  <2>2. j \in 1..Len(log)
    BY DEF Adds
  <2> QED BY <2>1, <2>2 DEF Opens
<1>3. Scene(s, refs2, T, c)
  BY <1>1, <1>2, SceneStays
<1>4. Opened(log2, s, i, c.started)
  BY <1>1, OpenedStays
<1>5. Fits(s, log2[i], refs2, c)
  <2>1. log2[i] = log[i]
    BY DEF Adds
  <2>2. c.started \in Nat /\ log[i].detection \in 1..(n - 1)
    BY <1>2
  <2>3. Fits(s, log[i], refs2, c)
    BY <1>1, <2>2, FitsStays
  <2> QED BY <2>1, <2>3
<1> QED BY <1>3, <1>4, <1>5 DEF Explained

\* The occurrence that opens on a bar is the last to have opened.
LEMMA OpensNow ==
    ASSUME NEW n \in Nat \ {0}, NEW log, NEW log2, NEW s, NEW intents, Adds(log, log2, s, intents),
           NEW off, AddsAt(log, log2, s, intents, off), Len(intents) = 1, intents[1].edge.from = "INACTIVE",
           intents[1].detection = n,
           \A j \in 1..Len(log) : log[j].slot = s => log[j].detection \in 1..(n - 1),
           NEW i \in off + 1..Len(log2)
    PROVE  Opened(log2, s, i, n)
<1> DEFINE L == Len(log)
           M == Len(log2)
           at == off + 1
<1>1. L \in Nat /\ M \in Nat /\ off \in Nat /\ off >= L /\ at <= M /\ \A j \in 1..L : log2[j] = log[j]
  BY DEF Adds, AddsAt
<1>2. \A j \in L + 1..M : log2[j].slot = s <=> j \in at..off + 1
  BY DEF AddsAt
<1>3. 1 \in 1..Len(intents)
  OBVIOUS
<1>4. log2[at].edge = intents[1].edge /\ log2[at].detection = intents[1].detection
  BY <1>3 DEF AddsAt
<1>5. at \in 1..i /\ at \in L + 1..M /\ at \in at..off + 1
  BY <1>1
<1>6. Opens(log2[at], s) /\ log2[at].detection = n
  BY <1>2, <1>4, <1>5 DEF Opens
<1>7. ASSUME NEW j \in 1..i, Opens(log2[j], s) PROVE log2[j].detection <= n
  <2>1. CASE j \in 1..L
    <3>1. log[j].detection \in 1..(n - 1)
      BY <1>1, <1>7, <2>1 DEF Opens
    <3>2. log2[j].detection = log[j].detection
      BY <1>1, <2>1
    <3> QED BY <3>1, <3>2
  <2>2. CASE j \notin 1..L
    <3>1. j \in L + 1..M
      BY <1>1, <2>2
    <3>2. j \in at..off + 1
      BY <1>2, <1>7, <3>1 DEF Opens
    <3>3. j = at
      BY <1>1, <3>2
    <3>4. log2[j].detection = n
      BY <1>6, <3>3
    <3> QED BY <3>4
  <2> QED BY <2>1, <2>2
<1> QED BY <1>5, <1>6, <1>7 DEF Opened

\* One that goes on still is.
LEMMA OpenGoesOn ==
    ASSUME NEW log, NEW log2, NEW s, NEW intents, Adds(log, log2, s, intents),
           \A k \in 1..Len(intents) : intents[k].edge.from # "INACTIVE",
           NEW a, Opened(log, s, Len(log), a), NEW i \in Len(log)..Len(log2)
    PROVE  Opened(log2, s, i, a)
<1> DEFINE L == Len(log)
           M == Len(log2)
           N == Len(intents)
<1>1. PICK off : AddsAt(log, log2, s, intents, off)
  BY DEF Adds
<1>2. L \in Nat /\ M \in Nat /\ N \in Nat /\ off \in Nat /\ L <= M /\ \A j \in 1..L : log2[j] = log[j]
  BY <1>1 DEF Adds, AddsAt
<1>3. \A j \in L + 1..M : log2[j].slot = s <=> j \in off + 1..off + N
  BY <1>1 DEF AddsAt
<1>4. \A k \in 1..N : log2[off + k].edge = intents[k].edge
  BY <1>1 DEF AddsAt
<1>5. PICK j \in 1..L : Opens(log[j], s) /\ log[j].detection = a
  BY DEF Opened
<1>6. j \in 1..i /\ Opens(log2[j], s) /\ log2[j].detection = a
  BY <1>2, <1>5
<1>7. ASSUME NEW x \in 1..i, Opens(log2[x], s) PROVE log2[x].detection <= a
  <2>1. CASE x \in 1..L
    BY <1>2, <1>7, <2>1 DEF Opened
  <2>2. CASE x \notin 1..L
    <3>1. x \in L + 1..M
      BY <1>2, <2>2
    <3>2. x \in off + 1..off + N
      BY <1>3, <1>7, <3>1 DEF Opens
    <3> DEFINE k == x - off
    <3>3. k \in 1..N /\ off + k = x
      BY <1>2, <3>2
    <3> HIDE DEF k
    <3>4. log2[x].edge.from # "INACTIVE"
      BY <1>4, <3>3
    <3> QED BY <1>7, <3>4 DEF Opens
  <2> QED BY <2>1, <2>2
<1> QED BY <1>6, <1>7 DEF Opened

LEMMA FitsAlike ==
    ASSUME NEW s, NEW e, NEW f, NEW refs, NEW c, Fits(s, e, refs, c), e.edge = f.edge, e.detection = f.detection
    PROVE  Fits(s, f, refs, c)
BY DEF Fits

\* What the log says of a slot after a bar.
LEMMA TracedGoesOn ==
    ASSUME NEW n \in Nat \ {0}, NEW s, NEW slot, NEW out, NEW refs, NEW refs2, NEW S, NEW T, NEW log, NEW log2,
           Traced(log, s, slot, refs, S, n - 1), Dealt(s, slot, out, refs2, T, n),
           Adds(log, log2, s, out.intents), Same(refs, refs2, n), Grows(S, T, n)
    PROVE  Traced(log2, s, out, refs2, T, n)
<1> DEFINE L == Len(log)
           M == Len(log2)
           xs == out.intents
           N == Len(xs)
           a == out.context.started
<1>1. PICK off : AddsAt(log, log2, s, xs, off)
  BY DEF Adds
<1>2. L \in Nat /\ M \in Nat /\ N \in Nat /\ off \in Nat /\ L <= M /\ L <= off /\ off + N <= M
  BY <1>1 DEF Adds, AddsAt
<1>3. DOMAIN log = 1..L /\ DOMAIN log2 = 1..M /\ \A j \in 1..L : log2[j] = log[j]
  BY DEF Adds
<1>4. \A j \in L + 1..M : log2[j].slot = s <=> j \in off + 1..off + N
  BY <1>1 DEF AddsAt
<1>5. \A k \in 1..N : log2[off + k].edge = xs[k].edge /\ log2[off + k].detection = xs[k].detection
  BY <1>1 DEF AddsAt
<1>6. \A j \in 1..L : log[j].slot = s => log[j].detection \in 1..(n - 1) /\ Explained(log, s, j, refs, S)
  BY <1>3 DEF Traced
<1>7. \A k \in 1..N : xs[k].detection = n /\ Fits(s, xs[k], refs2, out.context)
  BY DEF Dealt
<1>8. /\ N > 0 => Scene(s, refs2, T, out.context) /\ xs[N].edge.to = out.state
      /\ N = 0 => out.state = slot.state
  BY DEF Dealt
<1>9. slot.state \in OpenStates => Opened(log, s, L, slot.context.started)
  BY DEF Traced
<1>10. /\ N > 0 => \A i \in off + 1..M : Opened(log2, s, i, a)
       /\ out.state \in OpenStates => Opened(log2, s, M, a)
  <2>1. CASE Starts(slot, out, n)
    <3>1. N = 1 /\ xs[1].edge.from = "INACTIVE" /\ a = n
      BY <2>1 DEF Starts
    <3>2. 1 \in 1..N
      BY <3>1
    <3>3. xs[1].detection = n
      BY <1>7, <3>2
    <3>4. \A j \in 1..L : log[j].slot = s => log[j].detection \in 1..(n - 1)
      BY <1>6
    <3>5. ASSUME NEW i \in off + 1..M PROVE Opened(log2, s, i, n)
      BY <1>1, <3>1, <3>3, <3>4, OpensNow
    <3>6. M \in off + 1..M
      BY <1>2, <3>1
    <3> QED BY <3>1, <3>5, <3>6
  <2>2. CASE Proceeds(slot, out)
    <3>1. \A k \in 1..N : xs[k].edge.from # "INACTIVE"
      BY <2>2 DEF Proceeds
    <3>2. N > 0 \/ out.state \in OpenStates => slot.state \in OpenStates /\ a = slot.context.started
      BY <2>2 DEF Proceeds
    <3>3. ASSUME N > 0 \/ out.state \in OpenStates, NEW i \in L..M PROVE Opened(log2, s, i, a)
      <4>1. Opened(log, s, L, a)
        BY <1>9, <3>2, <3>3
      <4> QED BY <3>1, <3>3, <4>1, OpenGoesOn
    <3>4. \A i \in off + 1..M : i \in L..M
      BY <1>2
    <3>5. M \in L..M
      BY <1>2
    <3> QED BY <3>3, <3>4, <3>5
  <2> QED BY <2>1, <2>2 DEF Dealt
<1> HIDE DEF L, M, N, a, xs
<1>11. ASSUME NEW i \in 1..M, log2[i].slot = s
       PROVE  log2[i].detection \in 1..n /\ Explained(log2, s, i, refs2, T)
  <2>1. CASE i \in 1..L
    <3>1. log2[i] = log[i]
      BY <1>3, <2>1
    <3>2. log[i].slot = s
      BY <1>11, <3>1
    <3>3. log[i].detection \in 1..(n - 1) /\ Explained(log, s, i, refs, S)
      BY <1>6, <2>1, <3>2
    <3>4. \A j \in 1..Len(log) : log[j].slot = s => log[j].detection \in 1..(n - 1)
      BY <1>6 DEF L
    <3>5. i \in 1..Len(log)
      BY <2>1 DEF L
    <3>6. Explained(log2, s, i, refs2, T)
      BY <3>2, <3>3, <3>4, <3>5, ExplainedStays
    <3>7. log[i].detection \in 1..n
      BY <3>3
    <3> QED BY <3>1, <3>6, <3>7
  <2>2. CASE i \notin 1..L
    <3>1. i \in L + 1..M
      BY <1>2, <2>2
    <3>2. i \in off + 1..off + N
      BY <1>4, <1>11, <3>1
    <3> DEFINE k == i - off
    <3>3. k \in 1..N /\ off + k = i /\ N > 0 /\ i \in off + 1..M
      BY <1>2, <3>2
    <3> HIDE DEF k
    <3>4. log2[i].edge = xs[k].edge /\ log2[i].detection = xs[k].detection
      BY <1>5, <3>3
    <3>5. log2[i].detection = n
      BY <1>7, <3>3, <3>4
    <3>6. Fits(s, xs[k], refs2, out.context)
      BY <1>7, <3>3
    <3>7. Fits(s, log2[i], refs2, out.context)
      BY <3>4, <3>6, FitsAlike
    <3>8. Opened(log2, s, i, out.context.started)
      BY <1>10, <3>3 DEF a
    <3>9. Explained(log2, s, i, refs2, T)
      BY <1>8, <3>3, <3>7, <3>8 DEF Explained
    <3>10. n \in 1..n
      OBVIOUS
    <3> QED BY <3>5, <3>9, <3>10
  <2> QED BY <2>1, <2>2
<1>12. ASSUME NEW i \in 1..M, log2[i].slot = s, LastOf(log2, s, i), log2[i].edge.to \in OpenStates
       PROVE  log2[i].edge.to = out.state
  <2>1. \A j \in i + 1..M : log2[j].slot # s
    BY <1>12 DEF LastOf, M
  <2>2. CASE N = 0
    <3>1. i \notin off + 1..off + N
      BY <1>2, <2>2
    <3>2. i \in 1..L
      BY <1>2, <1>4, <1>12, <3>1
    <3>3. \A j \in i + 1..L : j \in i + 1..M /\ j \in 1..L
      BY <1>2
    <3>4. LastOf(log, s, i)
      BY <1>3, <2>1, <3>3 DEF LastOf, L
    <3>5. log2[i] = log[i]
      BY <1>3, <3>2
    <3>6. log[i].edge.to = slot.state
      BY <1>3, <1>12, <3>2, <3>4, <3>5 DEF Traced
    <3> QED BY <1>8, <2>2, <3>5, <3>6
  <2>3. CASE N > 0
    <3> DEFINE end == off + N
    <3>1. end \in L + 1..M /\ end \in off + 1..off + N
      BY <1>2, <2>3
    <3>2. log2[end].slot = s
      BY <1>4, <3>1
    <3>3. end \notin i + 1..M
      BY <2>1, <3>2
    <3>4. i >= end
      BY <1>2, <3>1, <3>3
    <3>5. i \in L + 1..M
      BY <1>2, <3>1, <3>4
    <3>6. i \in off + 1..off + N
      BY <1>4, <1>12, <3>5
    <3>7. i = end
      BY <1>2, <3>4, <3>6
    <3>8. N \in 1..N
      BY <1>2, <2>3
    <3>9. log2[end].edge = xs[N].edge
      BY <1>5, <3>8
    <3>10. log2[i].edge = xs[N].edge
      BY <3>7, <3>9
    <3> QED BY <1>8, <2>3, <3>10
  <2> QED BY <1>2, <2>2, <2>3
<1>13. out.state \in OpenStates => Opened(log2, s, Len(log2), out.context.started)
  BY <1>10 DEF a, M
<1>14. DOMAIN log2 = 1..M
  BY <1>3
<1> QED BY <1>11, <1>12, <1>13, <1>14 DEF Traced

\* What a bar adds to the log: what each binding commits, one after the other.
Tagged(t, s) == t \in Seq(ValuesOf(t)) /\ Len(t) \in Nat /\ \A k \in 1..Len(t) : t[k].slot = s
Joins(log, log2, t1, t2, t3) ==
    /\ Len(log) \in Nat /\ DOMAIN log = 1..Len(log)
    /\ DOMAIN log2 = 1..Len(log2) /\ Len(log2) = Len(log) + Len(t1) + Len(t2) + Len(t3)
    /\ \A i \in 1..Len(log) : log2[i] = log[i]
    /\ \A k \in 1..Len(t1) : log2[Len(log) + k] = t1[k]
    /\ \A k \in 1..Len(t2) : log2[Len(log) + Len(t1) + k] = t2[k]
    /\ \A k \in 1..Len(t3) : log2[Len(log) + Len(t1) + Len(t2) + k] = t3[k]

LEMMA JoinIs ==
    ASSUME NEW A, NEW B, NEW a \in Seq(A), NEW b \in Seq(B), NEW c, c = a \o b
    PROVE  /\ Len(a) \in Nat /\ Len(b) \in Nat /\ Len(c) = Len(a) + Len(b)
           /\ DOMAIN a = 1..Len(a) /\ DOMAIN c = 1..Len(c) /\ c \in Seq(A \cup B)
           /\ \A i \in 1..Len(a) : c[i] = a[i]
           /\ \A i \in 1..Len(b) : c[Len(a) + i] = b[i]
OBVIOUS

\* The log after a bar, entry by entry.
LEMMA JoinsThree ==
    ASSUME NEW log, log \in Seq(ValuesOf(log)), NEW t1, Tagged(t1, 1), NEW t2, Tagged(t2, 2), NEW t3, Tagged(t3, 3),
           NEW log2, log2 = log \o ((t1 \o t2) \o t3)
    PROVE  Joins(log, log2, t1, t2, t3)
<1> DEFINE u == t1 \o t2
           v == u \o t3
           A == ValuesOf(log)
           A1 == ValuesOf(t1)
           A2 == ValuesOf(t2)
           A3 == ValuesOf(t3)
           L == Len(log)
           L1 == Len(t1)
           L2 == Len(t2)
           L3 == Len(t3)
<1>1. log \in Seq(A) /\ t1 \in Seq(A1) /\ t2 \in Seq(A2) /\ t3 \in Seq(A3)
  BY DEF Tagged
<1>2. log2 = log \o v
  OBVIOUS
<1> HIDE DEF A, A1, A2, A3
<1>3. /\ L1 \in Nat /\ L2 \in Nat /\ Len(u) = L1 + L2 /\ u \in Seq(A1 \cup A2)
      /\ \A i \in 1..L1 : u[i] = t1[i]
      /\ \A i \in 1..L2 : u[L1 + i] = t2[i]
  BY <1>1, JoinIs
<1>10. v = u \o t3
  OBVIOUS
<1> HIDE DEF u, v
<1> DEFINE A12 == A1 \cup A2
           A123 == A12 \cup A3
<1>11. u \in Seq(A12)
  BY <1>3
<1> HIDE DEF A12
<1>4. /\ L3 \in Nat /\ Len(v) = Len(u) + L3 /\ v \in Seq(A123)
      /\ \A i \in 1..Len(u) : v[i] = u[i]
      /\ \A i \in 1..L3 : v[Len(u) + i] = t3[i]
  BY <1>1, <1>10, <1>11, JoinIs
<1> HIDE DEF A123
<1>5. /\ L \in Nat /\ Len(log2) = L + Len(v) /\ DOMAIN log = 1..L /\ DOMAIN log2 = 1..Len(log2)
      /\ \A i \in 1..L : log2[i] = log[i]
      /\ \A i \in 1..Len(v) : log2[L + i] = v[i]
  <2>1. log \in Seq(A) /\ v \in Seq(A123) /\ log2 = log \o v
    BY <1>1, <1>2, <1>4
  <2> QED BY ONLY <2>1, JoinIs
<1> HIDE DEF L, L1, L2, L3
<1>6. Len(log2) = L + L1 + L2 + L3
  BY <1>3, <1>4, <1>5
<1>7. ASSUME NEW k \in 1..L1 PROVE log2[L + k] = t1[k]
  <2>1. k \in 1..Len(u) /\ k \in 1..Len(v)
    BY <1>3, <1>4
  <2> QED BY <1>3, <1>4, <1>5, <2>1
<1>8. ASSUME NEW k \in 1..L2 PROVE log2[L + L1 + k] = t2[k]
  <2>1. L1 + k \in 1..Len(u) /\ L1 + k \in 1..Len(v)
    BY <1>3, <1>4
  <2>2. log2[L + (L1 + k)] = t2[k]
    BY <1>3, <1>4, <1>5, <2>1
  <2>3. L + (L1 + k) = L + L1 + k
    BY <1>3, <1>5
  <2> QED BY <2>2, <2>3
<1>9. ASSUME NEW k \in 1..L3 PROVE log2[L + L1 + L2 + k] = t3[k]
  <2>1. Len(u) + k \in 1..Len(v)
    BY <1>3, <1>4
  <2>2. log2[L + (Len(u) + k)] = t3[k]
    BY <1>4, <1>5, <2>1
  <2>3. L + (Len(u) + k) = L + L1 + L2 + k
    BY <1>3, <1>5
  <2> QED BY <2>2, <2>3
<1> QED BY <1>5, <1>6, <1>7, <1>8, <1>9 DEF Joins, L, L1, L2, L3

\* The log of a bar is in the order of the bindings.
LEMMA JoinsInOrder ==
    ASSUME NEW log, NEW t1, Tagged(t1, 1), NEW t2, Tagged(t2, 2), NEW t3, Tagged(t3, 3),
           NEW log2, Joins(log, log2, t1, t2, t3), NEW i \in Len(log) + 1..Len(log2)
    PROVE  /\ log2[i].slot \in 1..3
           /\ log2[i].slot = 1 <=> i \in Len(log) + 1..Len(log) + Len(t1)
           /\ log2[i].slot = 2 <=> i \in Len(log) + Len(t1) + 1..Len(log) + Len(t1) + Len(t2)
<1> DEFINE L == Len(log)
           L1 == Len(t1)
           L2 == Len(t2)
           L3 == Len(t3)
<1>1. L \in Nat /\ L1 \in Nat /\ L2 \in Nat /\ L3 \in Nat /\ Len(log2) = L + L1 + L2 + L3
  BY DEF Joins, Tagged
<1>2. /\ \A k \in 1..L1 : log2[L + k] = t1[k] /\ t1[k].slot = 1
      /\ \A k \in 1..L2 : log2[L + L1 + k] = t2[k] /\ t2[k].slot = 2
      /\ \A k \in 1..L3 : log2[L + L1 + L2 + k] = t3[k] /\ t3[k].slot = 3
  BY DEF Joins, Tagged
<1> HIDE DEF L, L1, L2, L3
<1>3. i \in L + 1..L + L1 + L2 + L3
  BY <1>1 DEF L
<1>4. CASE i \in L + 1..L + L1
  <2> DEFINE k == i - L
  <2>1. k \in 1..L1 /\ L + k = i /\ i \notin L + L1 + 1..L + L1 + L2
    BY <1>1, <1>4
  <2> HIDE DEF k
  <2>2. log2[i].slot = 1
    BY <1>2, <2>1
  <2> QED BY <1>4, <2>1, <2>2 DEF L, L1, L2
<1>5. CASE i \in L + L1 + 1..L + L1 + L2
  <2> DEFINE k == i - (L + L1)
  <2>1. k \in 1..L2 /\ L + L1 + k = i /\ i \notin L + 1..L + L1
    BY <1>1, <1>5
  <2> HIDE DEF k
  <2>2. log2[i].slot = 2
    BY <1>2, <2>1
  <2> QED BY <1>5, <2>1, <2>2 DEF L, L1, L2
<1>6. CASE i \notin L + 1..L + L1 /\ i \notin L + L1 + 1..L + L1 + L2
  <2> DEFINE k == i - (L + L1 + L2)
  <2>1. k \in 1..L3 /\ L + L1 + L2 + k = i
    BY <1>1, <1>3, <1>6
  <2> HIDE DEF k
  <2>2. log2[i].slot = 3
    BY <1>2, <2>1
  <2> QED BY <1>6, <2>2 DEF L, L1, L2
<1> QED BY <1>4, <1>5, <1>6

\* A binding commits what its detector returns.
Commits(t, s, intents) ==
    /\ Len(t) = Len(intents) /\ Len(intents) \in Nat
    /\ \A k \in 1..Len(intents) : t[k].edge = intents[k].edge /\ t[k].detection = intents[k].detection

\* A binding commits the intents its detector returns, under its number.
LEMMA CommittedIs ==
    ASSUME NEW slot, NEW s, NEW out, Len(out.intents) \in Nat, DOMAIN out.intents = 1..Len(out.intents)
    PROVE  Commits(Committed(slot, s, out), s, out.intents)
<1> DEFINE t == Committed(slot, s, out)
           N == Len(out.intents)
<1>1. DOMAIN t = 1..N /\ t = [k \in 1..N |-> t[k]]
  BY DEF Committed
<1>2. \A k \in 1..N : t[k].edge = out.intents[k].edge /\ t[k].detection = out.intents[k].detection
  BY DEF Committed
<1>3. Len(t) = N
  <2> HIDE DEF t, N
  <2>1. N \in Nat
    BY DEF N
  <2> QED BY <1>1, <2>1
<1> QED BY <1>2, <1>3 DEF Commits

LEMMA CommittedTagged ==
    ASSUME NEW slot, NEW s, NEW out, Committed(slot, s, out) \in Seq(ValuesOf(Committed(slot, s, out)))
    PROVE  Tagged(Committed(slot, s, out), s)
<1> DEFINE t == Committed(slot, s, out)
<1>1. \A k \in DOMAIN t : t[k].slot = s
  BY DEF Committed
<1>2. t \in Seq(ValuesOf(t))
  OBVIOUS
<1> HIDE DEF t
<1>3. Len(t) \in Nat /\ DOMAIN t = 1..Len(t)
  BY <1>2
<1>4. Tagged(t, s)
  BY <1>1, <1>2, <1>3 DEF Tagged
<1> QED BY <1>4 DEF t

\* What the continuation binding adds to the log, and what the reversal binding does.
LEMMA AddsFirst ==
    ASSUME NEW log, NEW t1, Tagged(t1, 1), NEW t2, Tagged(t2, 2), NEW t3, Tagged(t3, 3),
           NEW log2, Joins(log, log2, t1, t2, t3), NEW intents, Commits(t1, 1, intents)
    PROVE  Adds(log, log2, 1, intents)
<1> DEFINE L == Len(log)
           L1 == Len(t1)
           M == Len(log2)
<1>1. L \in Nat /\ L1 \in Nat /\ Len(t2) \in Nat /\ Len(t3) \in Nat /\ M = L + L1 + Len(t2) + Len(t3)
      /\ DOMAIN log = 1..L /\ DOMAIN log2 = 1..M /\ \A i \in 1..L : log2[i] = log[i]
  BY DEF Joins, Tagged
<1>2. L1 = Len(intents) /\ \A k \in 1..L1 : /\ log2[L + k].edge = intents[k].edge
                                            /\ log2[L + k].detection = intents[k].detection
  BY DEF Joins, Commits
<1>3. \A i \in L + 1..M : log2[i].slot = 1 <=> i \in L + 1..L + L1
  BY JoinsInOrder
<1>4. M \in Nat /\ L <= M /\ L + L1 <= M
  BY <1>1
<1> HIDE DEF L, L1, M
<1>5. AddsAt(log, log2, 1, intents, L)
  BY <1>1, <1>2, <1>3, <1>4 DEF AddsAt, L, M
<1> QED BY <1>1, <1>2, <1>4, <1>5 DEF Adds, L, M

LEMMA AddsSecond ==
    ASSUME NEW log, NEW t1, Tagged(t1, 1), NEW t2, Tagged(t2, 2), NEW t3, Tagged(t3, 3),
           NEW log2, Joins(log, log2, t1, t2, t3), NEW intents, Commits(t2, 2, intents)
    PROVE  Adds(log, log2, 2, intents)
<1> DEFINE L == Len(log)
           at == Len(log) + Len(t1)
           L2 == Len(t2)
           M == Len(log2)
<1>1. L \in Nat /\ Len(t1) \in Nat /\ L2 \in Nat /\ Len(t3) \in Nat /\ M = L + Len(t1) + L2 + Len(t3)
      /\ DOMAIN log = 1..L /\ DOMAIN log2 = 1..M /\ \A i \in 1..L : log2[i] = log[i]
  BY DEF Joins, Tagged
<1>2. L2 = Len(intents) /\ \A k \in 1..L2 : /\ log2[at + k].edge = intents[k].edge
                                            /\ log2[at + k].detection = intents[k].detection
  BY DEF Joins, Commits
<1>3. \A i \in L + 1..M : log2[i].slot = 2 <=> i \in at + 1..at + L2
  BY JoinsInOrder
<1>4. M \in Nat /\ L <= M /\ at \in Nat /\ at >= L /\ at + L2 <= M
  BY <1>1
<1> HIDE DEF L, L2, M, at
<1>5. AddsAt(log, log2, 2, intents, at)
  BY <1>1, <1>2, <1>3, <1>4 DEF AddsAt, L, M
<1> QED BY <1>1, <1>2, <1>4, <1>5 DEF Adds, L, M

\* The swing of a bar is classified next in turn.
LEMMA ComesContinues ==
    ASSUME NEW n \in Nat \ {0}, NEW S \in Seq(SwingType), NEW T, NEW classified, NEW c,
           SwingComes(S, T, classified, c, n)
    PROVE  Continues(classified, Len(S))
<1> DEFINE i == Len(S)
<1>1. CASE classified = {}
  BY <1>1 DEF Continues
<1>2. ASSUME NEW p \in SwingType, classified = {ClassOf(Append(S, p), i + 1)},
             p.index = i + 1, p.detection = n, p.event \in 1..(n - 1)
      PROVE  Continues(classified, i)
  <2> DEFINE x == ClassOf(Append(S, p), i + 1)
  <2>1. Known(x, i + 1, n)
    BY <1>2, ClassIsKnown
  <2>2. x.swing = p
    <3>1. Append(S, p)[i + 1] = p
      OBVIOUS
    <3> QED BY <3>1 DEF ClassOf
  <2> HIDE DEF x
  <2> QED BY <1>2, <2>1, <2>2 DEF Continues, Known, x
<1> QED BY <1>1, <1>2 DEF SwingComes

\* What a bar says to the detectors, the market state having gone on.
LEMMA BarIsTold ==
    ASSUME NEW b \in Seq(Bar), NEW bar \in Bar, NEW m, MarketTypes(m), m.bars = Len(b),
           SwingsHold(b, Len(b), m), NEW refs, LegsHold(b, Len(b), m, refs),
           DatedBy(refs, Len(b)), LegsStarted(m.legs, refs, Len(b)),
           NEW new, MarketTypes(new), Advanced(m, new, bar), Publishes(new, bar)
    PROVE  /\ BarTells(refs, refs \cup RefsIn(new), m.swings.confirmed, new.swings.confirmed, m.legs, new, Len(b) + 1)
           /\ DatedBy(refs \cup RefsIn(new), Len(b) + 1)
<1> DEFINE n == Len(b) + 1
           c == Append(b, bar)
           refs2 == refs \cup RefsIn(new)
           S == m.swings.confirmed
           T == new.swings.confirmed
           lg == m.legs
           next == new.legs
           classified == new.structure.classified
           ema == EmaUpdate(m.ema, bar).value
<1>1. n \in Nat \ {0} /\ n - 1 \in Nat /\ Len(b) = n - 1
  OBVIOUS
<1>2. new.bars = n /\ m.bars = n - 1 /\ m.bars + 1 = n
  BY <1>1 DEF Advanced
<1>3. StructureKeeps(new.structure, T) /\ SwingComes(S, T, classified, c, n) /\ Alternates(T)
  BY StructureContinues DEF LegsHold
<1>4. next = LegUpdate(lg, classified, ema, bar, n)
  BY DEF Advanced, NextLegs
<1>5. ContentsOf(new.events) = ToldAll(new, n)
  BY PublishedBy
<1>6. AllTold(new.events, bar, n)
  BY <1>2 DEF Publishes
<1> HIDE DEF n, c, ema
<1>7. /\ Confirmed(S, n - 1) /\ LegTypes(lg, Len(S), n - 1) /\ S \in Seq(SwingType) /\ Len(S) \in Nat
      /\ Confirmed(T, n) /\ lg.active \in Optional(LegType) /\ next.active \in Optional(LegType)
  BY <1>2 DEF MarketTypes, SwingTypes, Confirmed, LegTypes
<1>8. DatedBy(refs, n - 1) /\ LegsStarted(lg, refs, n - 1)
  BY <1>1
<1>9. DatedBy(refs2, n) /\ Same(refs, refs2, n) /\ \A type : On(refs2, type, n) = Observed(new, type)
  <2>1. n \in Nat \ {0} /\ DatedBy(refs, n - 1) /\ new.bars = n /\ AllTold(new.events, bar, n)
    BY <1>1, <1>2, <1>6, <1>8
  <2>2. DatedBy(refs \cup RefsIn(new), n)
    BY <2>1, OnGrows
  <2>3. Same(refs, refs \cup RefsIn(new), n)
    BY <2>1, OnGrows
  <2>4. Hears(refs \cup RefsIn(new), new, n)
    BY <2>1, OnGrows
  <2> QED BY <2>2, <2>3, <2>4 DEF Hears
<1> HIDE DEF refs2, S, T, lg, next, classified
<1>10. Grows(S, T, n)
  BY <1>1, <1>3, <1>7, SwingsGrow
<1>11. Continues(classified, Len(S))
  BY <1>1, <1>3, <1>7, ComesContinues
<1>12. Transit(lg.active, LegUpdate(lg, classified, ema, bar, n))
  BY <1>1, <1>7, <1>11, LegsTransit
<1>13. Transit(lg.active, new.legs)
  BY <1>4, <1>12 DEF next
<1>14. LegsMove(lg.active, new.legs.active, new)
  BY <1>5, <1>13, LegsPublish
<1>15. LegsStarted(new.legs, refs2, n)
  BY <1>1, <1>8, <1>9, <1>14, LegsStartedNext
<1>16. ASSUME NEW side \in Sides, new.structure.latest[side] # {}
       PROVE  LatestSwing(T, n, side, The(new.structure.latest[side]).swing)
  BY <1>1, <1>3, <1>7, <1>16, LatestKnown
<1>17. new.legs.active \in Optional(LegType)
  BY <1>7 DEF next
<1>18. BarTells(refs, refs2, S, T, lg, new, n)
  BY <1>2, <1>7, <1>9, <1>10, <1>14, <1>15, <1>16, <1>17 DEF BarTells
<1> QED BY <1>9, <1>18 DEF refs2, S, T, lg, n

\* The occurrence offered holds what its slot held.
LEMMA OfferedTrend ==
    ASSUME NEW s \in Trends, NEW slot, SlotShape(slot), NEW refs, NEW S, NEW lg, NEW n, NEW log,
           slot.state \in OpenStates => CandidateHolds(s, slot, refs, S, lg, n),
           Traced(log, s, slot, refs, S, n)
    PROVE  /\ SlotShape(Offered(Patterns[s], slot)) /\ Offers(s, Offered(Patterns[s], slot), refs, S, lg, n)
           /\ Traced(log, s, Offered(Patterns[s], slot), refs, S, n)
<1> DEFINE d == Patterns[s]
           next == Offered(d, slot)
<1>1. Traced(log, s, next, refs, S, n)
  BY TracedOffered
<1>2. \A k : FreshSlot(d, k).state = "INACTIVE" /\ SlotShape(FreshSlot(d, k))
  BY DEF FreshSlot, InitialState, Trends, Patterns, Continuation, Reversal, ContinuationPattern, ReversalPattern, SlotShape
<1> HIDE DEF d
<1>3. next = slot \/ \E k : next = FreshSlot(d, k)
  BY DEF Offered
<1>4. SlotShape(next)
  BY <1>2, <1>3
<1>5. next = slot \/ next.state \notin OpenStates
  BY <1>2, <1>3 DEF OpenStates
<1> HIDE DEF next
<1>6. Offers(s, next, refs, S, lg, n)
  BY <1>5 DEF Offers, OpenStates
<1> QED BY <1>1, <1>4, <1>6 DEF next, d

\* A slot that commits takes the state and the context returned.
LEMMA CommittedSlot ==
    ASSUME NEW slot, SlotShape(slot), NEW out
    PROVE  /\ SlotShape(Commit(slot, out)) /\ Commit(slot, out).state = out.state
           /\ Commit(slot, out).context = out.context
<1> DEFINE next == slot.next + Len(out.intents)
           made == Commit(slot, out)
<1>1. made = [ordinal |-> slot.ordinal, state |-> out.state, next |-> next, context |-> out.context]
  BY CommitIs
<1> HIDE DEF made, next
<1>2. SlotShape(made) /\ made.state = out.state /\ made.context = out.context
  BY <1>1 DEF SlotShape
<1> QED BY <1>2 DEF made

LEMMA HoldsAlike ==
    ASSUME NEW slot, NEW out, slot.state = out.state, slot.context = out.context, NEW s, NEW refs, NEW S, NEW n
    PROVE  /\ \A lg : CandidateHolds(s, out, refs, S, lg, n) => CandidateHolds(s, slot, refs, S, lg, n)
           /\ \A log : Traced(log, s, out, refs, S, n) => Traced(log, s, slot, refs, S, n)
<1>1. ASSUME NEW lg, CandidateHolds(s, out, refs, S, lg, n) PROVE CandidateHolds(s, slot, refs, S, lg, n)
  BY <1>1 DEF CandidateHolds
<1>2. ASSUME NEW log, Traced(log, s, out, refs, S, n) PROVE Traced(log, s, slot, refs, S, n)
  BY <1>2 DEF Traced
<1> QED BY <1>1, <1>2

\* What a trend detector returns for the occurrence offered to it.
LEMMA TrendDeals ==
    ASSUME NEW n \in Nat \ {0}, NEW refs, NEW refs2, NEW S, NEW T, NEW lg, NEW m,
           BarTells(refs, refs2, S, T, lg, m, n), NEW bar, Publishes(m, bar), NEW slot, NEW s \in Trends,
           Offers(s, slot, refs, S, lg, n - 1)
    PROVE  Deals(s, slot, Output(slot, s, m, bar), refs2, T, m.legs, n)
<1>1. CASE s = Reversal
  <2>1. Output(slot, s, m, bar) = ReversalOutput(slot, m)
    BY <1>1 DEF Output, Continuation, Reversal, Compression
  <2>2. Deals(Reversal, slot, ReversalOutput(slot, m), refs2, T, m.legs, n)
    BY <1>1, ReversalDeals
  <2> QED BY <1>1, <2>1, <2>2
<1>2. CASE s = Continuation
  <2>1. Output(slot, s, m, bar) = ContinuationOutput(slot, m, bar)
    BY <1>2 DEF Output, Continuation, Reversal, Compression
  <2>2. Deals(Continuation, slot, ContinuationOutput(slot, m, bar), refs2, T, m.legs, n)
    BY <1>2, ContinuationDeals
  <2> QED BY <1>2, <2>1, <2>2
<1> QED BY <1>1, <1>2 DEF Trends

\* A trend slot and what the log says of it, after the bar is committed.
LEMMA TrendContinues ==
    ASSUME NEW n \in Nat \ {0}, NEW refs, NEW refs2, NEW S, NEW T, NEW lg, NEW m,
           BarTells(refs, refs2, S, T, lg, m, n), NEW bar, Publishes(m, bar), NEW s \in Trends,
           NEW slot, SlotShape(slot), Offers(s, slot, refs, S, lg, n - 1), NEW log, Traced(log, s, slot, refs, S, n - 1),
           NEW out, out = Output(slot, s, m, bar), NEW log2,
           Dealt(s, slot, out, refs2, T, n) => Adds(log, log2, s, out.intents),
           NEW slot2, slot2 = Commit(slot, out)
    PROVE  /\ SlotShape(slot2)
           /\ slot2.state \in OpenStates => CandidateHolds(s, slot2, refs2, T, m.legs, n)
           /\ Traced(log2, s, slot2, refs2, T, n)
<1>1. Deals(s, slot, out, refs2, T, m.legs, n)
  BY TrendDeals
<1>2. Dealt(s, slot, out, refs2, T, n)
  BY <1>1, DealsDealt
<1>3. Same(refs, refs2, n) /\ Grows(S, T, n)
  BY DEF BarTells
<1>4. Traced(log2, s, out, refs2, T, n)
  BY <1>2, <1>3, TracedGoesOn
<1>5. SlotShape(slot2) /\ slot2.state = out.state /\ slot2.context = out.context
  BY CommittedSlot
<1>6. out.state \in OpenStates => CandidateHolds(s, out, refs2, T, m.legs, n)
  BY <1>1 DEF Deals
<1>7. Traced(log2, s, slot2, refs2, T, n)
  BY <1>4, <1>5, HoldsAlike
<1>8. ASSUME slot2.state \in OpenStates PROVE CandidateHolds(s, slot2, refs2, T, m.legs, n)
  <2>1. CandidateHolds(s, out, refs2, T, m.legs, n)
    BY <1>5, <1>6, <1>8
  <2> QED BY <1>5, <2>1, HoldsAlike
<1> QED BY <1>5, <1>7, <1>8

LEMMA LoggedGoesOn ==
    ASSUME NEW log, NEW t1, Tagged(t1, 1), NEW t2, Tagged(t2, 2), NEW t3, Tagged(t3, 3),
           NEW log2, Joins(log, log2, t1, t2, t3), LoggedBy(log)
    PROVE  LoggedBy(log2)
<1>1. /\ DOMAIN log = 1..Len(log) /\ DOMAIN log2 = 1..Len(log2) /\ Len(log) \in Nat
      /\ \A i \in 1..Len(log) : log2[i] = log[i]
  BY DEF Joins
<1>2. Len(log2) \in Nat
  <2>1. Len(log2) = Len(log) + Len(t1) + Len(t2) + Len(t3)
    BY DEF Joins
  <2> QED BY <1>1, <2>1 DEF Tagged
<1>3. ASSUME NEW i \in 1..Len(log2) PROVE log2[i].slot \in 1..3
  <2>1. CASE i \in 1..Len(log)
    BY <1>1, <2>1 DEF LoggedBy
  <2>2. CASE i \in Len(log) + 1..Len(log2)
    BY <2>2, JoinsInOrder
  <2> QED BY <1>1, <1>2, <2>1, <2>2
<1> QED BY <1>1, <1>3 DEF LoggedBy

\* A bar keeps what is held of the candidates.
LEMMA CandidatesContinue ==
    ASSUME ThresholdsDescend, NEW b \in Seq(Bar), NEW bar \in Bar, NEW m, MarketTypes(m), m.bars = Len(b),
           SwingsHold(b, Len(b), m), NEW rt, RuntimeTypes(rt, Len(b)), LegsHold(b, Len(b), m, rt.refs),
           CandidatesHold(Len(b), m, rt),
           NEW new, MarketTypes(new), Advanced(m, new, bar), Publishes(new, bar)
    PROVE  CandidatesHold(Len(b) + 1, new, StepOf(rt, new, bar))
<1> DEFINE n == Len(b) + 1
           rt2 == StepOf(rt, new, bar)
           refs == rt.refs
           refs2 == rt2.refs
           S == m.swings.confirmed
           T == new.swings.confirmed
           log == rt.log
           log2 == rt2.log
           t1 == Told3(rt, 1, new, bar)
           t2 == Told3(rt, 2, new, bar)
           t3 == Told3(rt, 3, new, bar)
<1>1. n \in Nat \ {0} /\ n - 1 \in Nat /\ Len(b) = n - 1 /\ new.bars = n
  BY DEF Advanced
<1>2. /\ Steps(rt, rt2, new, bar)
      /\ \A s \in 1..3 : Told3(rt, s, new, bar) \in Seq(ValuesOf(Told3(rt, s, new, bar)))
  <2> HIDE DEF n, rt2
  <2> QED BY <1>1, RuntimeCommits DEF rt2
<1>3. /\ DatedBy(refs, Len(b)) /\ LegsStarted(m.legs, refs, Len(b)) /\ LoggedBy(log)
      /\ \A s \in Trends : /\ SlotShape(rt.slots[s])
                           /\ rt.slots[s].state \in OpenStates =>
                                CandidateHolds(s, rt.slots[s], refs, S, m.legs, Len(b))
                           /\ Traced(log, s, rt.slots[s], refs, S, Len(b))
  BY DEF CandidatesHold
<1>4. BarTells(refs, refs2, S, T, m.legs, new, n) /\ DatedBy(refs2, n)
  <2>1. refs2 = refs \cup RefsIn(new)
    BY <1>2 DEF Steps
  <2>2. /\ BarTells(refs, refs \cup RefsIn(new), S, T, m.legs, new, Len(b) + 1)
        /\ DatedBy(refs \cup RefsIn(new), Len(b) + 1)
    BY <1>3, BarIsTold
  <2> QED BY <2>1, <2>2
<1>5. Tagged(t1, 1) /\ Tagged(t2, 2) /\ Tagged(t3, 3)
  BY <1>2, CommittedTagged DEF Told3
<1>6. Joins(log, log2, t1, t2, t3)
  <2>1. log2 = log \o ((t1 \o t2) \o t3)
    BY <1>2 DEF Steps
  <2>2. log \in Seq(ValuesOf(log))
    BY DEF RuntimeTypes
  <2> HIDE DEF log, log2, t1, t2, t3
  <2> QED BY <1>5, <2>1, <2>2, JoinsThree
<1>7. \A s \in 1..3 : rt2.slots[s] = Commit(Offer(rt, s), Out(rt, s, new, bar))
  BY <1>2 DEF Steps
<1>8. ASSUME NEW s \in Trends
      PROVE  /\ SlotShape(rt2.slots[s])
             /\ rt2.slots[s].state \in OpenStates => CandidateHolds(s, rt2.slots[s], refs2, T, new.legs, n)
             /\ Traced(log2, s, rt2.slots[s], refs2, T, n)
  <2> DEFINE held == rt.slots[s]
             slot == Offered(Patterns[s], held)
             out == Output(slot, s, new, bar)
             slot2 == rt2.slots[s]
  <2>1. /\ SlotShape(held) /\ Traced(log, s, held, refs, S, n - 1)
        /\ held.state \in OpenStates => CandidateHolds(s, held, refs, S, m.legs, n - 1)
    BY <1>1, <1>3
  <2>2. slot2 = Commit(slot, out)
    <3>1. s \in 1..3
      BY DEF Trends, Continuation, Reversal
    <3> QED BY <1>7, <3>1 DEF Offer, Out
  <2>3. ASSUME Dealt(s, slot, out, refs2, T, n) PROVE Adds(log, log2, s, out.intents)
    <3>1. Commits(Committed(slot, s, out), s, out.intents)
      BY <2>3, CommittedIs DEF Dealt
    <3>2. CASE s = Continuation
      <4>1. t1 = Committed(slot, 1, out) /\ s = 1
        BY <3>2 DEF Told3, Offer, Out, Continuation
      <4>2. Commits(t1, 1, out.intents)
        BY <3>1, <4>1
      <4> HIDE DEF log, log2, t1, t2, t3, out
      <4> QED BY <1>5, <1>6, <4>1, <4>2, AddsFirst
    <3>3. CASE s = Reversal
      <4>1. t2 = Committed(slot, 2, out) /\ s = 2
        BY <3>3 DEF Told3, Offer, Out, Reversal
      <4>2. Commits(t2, 2, out.intents)
        BY <3>1, <4>1
      <4> HIDE DEF log, log2, t1, t2, t3, out
      <4> QED BY <1>5, <1>6, <4>1, <4>2, AddsSecond
    <3> QED BY <3>2, <3>3 DEF Trends
  <2> HIDE DEF held, slot2, refs, refs2, S, T, log, log2, n
  <2>4. SlotShape(slot) /\ Offers(s, slot, refs, S, m.legs, n - 1) /\ Traced(log, s, slot, refs, S, n - 1)
    BY <2>1, OfferedTrend
  <2> HIDE DEF slot
  <2>5. out = Output(slot, s, new, bar)
    OBVIOUS
  <2> HIDE DEF out
  <2>6. /\ SlotShape(slot2)
        /\ slot2.state \in OpenStates => CandidateHolds(s, slot2, refs2, T, new.legs, n)
        /\ Traced(log2, s, slot2, refs2, T, n)
    BY <1>1, <1>4, <2>2, <2>3, <2>4, <2>5, TrendContinues
  <2> QED BY <2>6 DEF slot2
<1>9. LoggedBy(log2)
  <2> HIDE DEF log, log2, t1, t2, t3
  <2> QED BY <1>3, <1>5, <1>6, LoggedGoesOn
<1>10. LegsStarted(new.legs, refs2, n)
  BY <1>4 DEF BarTells
<1> HIDE DEF n, rt2
<1>11. CandidatesHold(n, new, rt2)
  BY <1>4, <1>8, <1>9, <1>10 DEF CandidatesHold
<1> QED BY <1>11 DEF n, rt2

LEMMA CandidatesBegin == CandidatesHold(0, FreshMarket, FreshRuntime(Patterns))
<1> DEFINE m == FreshMarket
           rt == FreshRuntime(Patterns)
<1>1. rt.refs = {} /\ rt.log = <<>> /\ m.legs.active = {}
  BY DEF FreshMarket, FreshLegs, FreshRuntime
<1>2. ASSUME NEW s \in Trends PROVE SlotShape(rt.slots[s]) /\ rt.slots[s].state = "INACTIVE"
  <2>1. s \in DOMAIN Patterns
    BY DEF Patterns, Trends, Continuation, Reversal
  <2>2. rt.slots[s] = FreshSlot(Patterns[s], 0)
    BY <2>1 DEF FreshRuntime
  <2>3. SlotShape(FreshSlot(Patterns[s], 0)) /\ FreshSlot(Patterns[s], 0).state = "INACTIVE"
    BY DEF FreshSlot, InitialState, Trends, Patterns, Continuation, Reversal, ContinuationPattern,
           ReversalPattern, SlotShape
  <2> QED BY <2>2, <2>3
<1> HIDE DEF rt, m
<1>3. DOMAIN rt.log = {}
  BY <1>1
<1>4. DatedBy(rt.refs, 0) /\ LoggedBy(rt.log) /\ LegsStarted(m.legs, rt.refs, 0)
  BY <1>1, <1>3 DEF DatedBy, LoggedBy, LegsStarted
<1>5. ASSUME NEW s \in Trends
      PROVE  /\ SlotShape(rt.slots[s])
             /\ rt.slots[s].state \notin OpenStates
             /\ Traced(rt.log, s, rt.slots[s], rt.refs, m.swings.confirmed, 0)
  <2>1. rt.slots[s].state \notin OpenStates
    BY <1>2 DEF OpenStates
  <2> QED BY <1>2, <1>3, <2>1 DEF Traced
<1>6. CandidatesHold(0, m, rt)
  BY <1>4, <1>5 DEF CandidatesHold
<1> QED BY <1>6 DEF m, rt

CandidateInv == LegInv /\ CandidatesHold(Len(bars), market, runtime)

LEMMA CandidateInvKeeps == ThresholdsDescend /\ CandidateInv /\ [Next]_vars => CandidateInv'
<1> SUFFICES ASSUME ThresholdsDescend, CandidateInv, [Next]_vars PROVE CandidateInv'
  OBVIOUS
<1>1. LegInv /\ LegInv' /\ MarketInv /\ MarketInv' /\ SwingInv
  BY LegInvKeeps, NextKeeps DEF CandidateInv, LegInv, SwingInv
<1>2. CASE UNCHANGED vars
  BY <1>1, <1>2 DEF vars, CandidateInv
<1>3. CASE Next
  <2>1. PICK bar \in Bar : Consumes(bar)
    BY <1>1, <1>3, NextConsumes
  <2>2. bars' = Append(bars, bar) /\ Len(bars') = Len(bars) + 1 /\ bars \in Seq(Bar)
    BY <1>1, <2>1 DEF Consumes, MarketInv
  <2>3. /\ MarketTypes(market) /\ market.bars = Len(bars) /\ MarketTypes(market')
        /\ Advanced(market, market', bar) /\ Publishes(market', bar)
        /\ runtime' = StepOf(runtime, market', bar) /\ RuntimeTypes(runtime, Len(bars))
        /\ SwingsHold(bars, Len(bars), market)
        /\ LegsHold(bars, Len(bars), market, runtime.refs)
        /\ CandidatesHold(Len(bars), market, runtime)
    BY <1>1, <2>1 DEF Consumes, MarketInv, SwingInv, LegInv, CandidateInv
  <2>4. CandidatesHold(Len(bars) + 1, market', StepOf(runtime, market', bar))
    BY <2>2, <2>3, CandidatesContinue
  <2>5. CandidatesHold(Len(bars'), market', runtime')
    BY <2>2, <2>3, <2>4
  <2> QED BY <1>1, <2>5 DEF CandidateInv
<1> QED BY <1>2, <1>3

-----------------------------------------------------------------------------
(* What the definition over everything published says of a candidate.      *)

LastStart(a) ==
    CHOOSE e \in Published("TREND_LEG_STARTED", 1, a) :
      \A x \in Published("TREND_LEG_STARTED", 1, a) : x.detection <= e.detection
LatestAt(a, side) ==
    market.swings.confirmed[Max({i \in DOMAIN market.swings.confirmed :
       market.swings.confirmed[i].side = side /\ market.swings.confirmed[i].detection <= a})]
ReclaimsIn(a, b, d) == {e.detection : e \in {x \in Published("EMA_CROSS", a + 1, b) : x.evidence.direction = d}}
BreaksIn(from, to, swing) == \E e \in Published(BreakEvent[swing.side], from, to) : e.evidence = swing

\* What was published between two bars was published on one of them.
LEMMA PublishedOn ==
    ASSUME NEW type, NEW from, NEW to, NEW e
    PROVE  e \in Published(type, from, to) <=> \E j \in from..to : e \in On(runtime.refs, type, j)
BY DEF Published, History, On

LEMMA OnIs ==
    ASSUME NEW refs, NEW type, NEW j, NEW e \in On(refs, type, j) PROVE e.type = type /\ e.detection = j
BY DEF On

\* The leg that started last before a candidate opened is the one it remembers.
LEMMA LastStartIs ==
    ASSUME NEW a \in Nat, NEW k, NEW d, LastLeg(runtime.refs, a, k, d)
    PROVE  LastStart(a).evidence.index = k /\ LastStart(a).evidence.direction = d
<1> DEFINE type == "TREND_LEG_STARTED"
           P == Published(type, 1, a)
           Latest(e) == \A x \in P : x.detection <= e.detection
<1>1. PICK j \in 1..a : \E e \in On(runtime.refs, type, j) :
        /\ e.evidence.index = k /\ e.evidence.direction = d
        /\ \A i \in j..a : On(runtime.refs, type, i) \subseteq {e}
  BY DEF LastLeg
<1>2. PICK e \in On(runtime.refs, type, j) :
        /\ e.evidence.index = k /\ e.evidence.direction = d
        /\ \A i \in j..a : On(runtime.refs, type, i) \subseteq {e}
  BY <1>1
<1>3. \A x : x \in P <=> \E i \in 1..a : x \in On(runtime.refs, type, i)
  BY PublishedOn
<1>4. LastStart(a) = CHOOSE x \in P : Latest(x)
  BY DEF LastStart
<1> HIDE DEF P, type
<1>5. e \in P /\ e.detection = j
  BY <1>2, <1>3, OnIs
<1>6. ASSUME NEW x \in P PROVE x = e \/ (x.detection \in Int /\ x.detection < j)
  <2>1. PICK i \in 1..a : x \in On(runtime.refs, type, i)
    BY <1>3
  <2>2. x.detection = i
    BY <2>1, OnIs
  <2>3. CASE i \in j..a
    BY <1>2, <2>1, <2>3
  <2>4. CASE i \notin j..a
    BY <2>2, <2>4
  <2> QED BY <2>3, <2>4
<1>7. Latest(e)
  <2>1. ASSUME NEW x \in P PROVE x.detection <= e.detection
    <3>1. CASE x = e
      BY <1>5, <3>1
    <3>2. CASE x.detection \in Int /\ x.detection < j
      BY <1>5, <3>2
    <3> QED BY <1>6, <3>1, <3>2
  <2> QED BY <2>1
<1>8. ASSUME NEW y \in P, Latest(y) PROVE y = e
  <2>1. e.detection <= y.detection
    BY <1>5, <1>8
  <2>2. ~(y.detection \in Int /\ y.detection < j)
    BY <1>5, <2>1
  <2> QED BY <1>6, <2>2
<1> HIDE DEF Latest
<1>9. LastStart(a) \in P /\ Latest(LastStart(a))
  BY <1>4, <1>5, <1>7
<1> QED BY <1>2, <1>8, <1>9

\* The latest swing of a side then is the one it remembers.
LEMMA LatestAtIs ==
    ASSUME market.swings.confirmed \in Seq(SwingType), NEW a, NEW side, NEW p,
           LatestSwing(market.swings.confirmed, a, side, p)
    PROVE  LatestAt(a, side) = p
<1> DEFINE S == market.swings.confirmed
           H == {i \in DOMAIN S : S[i].side = side /\ S[i].detection <= a}
           m == Max(H)
<1>1. PICK i \in DOMAIN S : /\ S[i] = p /\ p.side = side /\ p.detection <= a
                            /\ \A j \in DOMAIN S : S[j].side = side /\ S[j].detection <= a => j <= i
  BY DEF LatestSwing
<1>2. LatestAt(a, side) = S[m]
  BY DEF LatestAt
<1>3. i \in H /\ \A j \in H : j <= i
  BY <1>1
<1>4. H \subseteq Int
  <2>1. DOMAIN S = 1..Len(S)
    BY DEF S
  <2> QED BY <2>1
<1> HIDE DEF H, S
<1>5. m \in H /\ \A j \in H : m >= j
  <2>1. \E x \in H : \A y \in H : x >= y
    BY <1>3, <1>4
  <2> QED BY <2>1 DEF Max
<1> HIDE DEF m
<1>6. m = i
  BY <1>3, <1>4, <1>5
<1> QED BY <1>1, <1>2, <1>6

\* The reclaims and the breaks since, bar by bar.
LEMMA ReclaimsAre ==
    ASSUME NEW a, NEW b, NEW d, NEW r
    PROVE  r \in ReclaimsIn(a, b, d) <=> r \in a + 1..b /\ ReclaimedOn(runtime.refs, d, r)
<1>1. ASSUME r \in ReclaimsIn(a, b, d) PROVE r \in a + 1..b /\ ReclaimedOn(runtime.refs, d, r)
  <2>1. PICK e \in Published("EMA_CROSS", a + 1, b) : e.evidence.direction = d /\ e.detection = r
    BY <1>1 DEF ReclaimsIn
  <2>2. PICK j \in a + 1..b : e \in On(runtime.refs, "EMA_CROSS", j)
    BY PublishedOn
  <2>3. j = r
    BY <2>1, <2>2, OnIs
  <2> QED BY <2>1, <2>2, <2>3 DEF ReclaimedOn
<1>2. ASSUME r \in a + 1..b, ReclaimedOn(runtime.refs, d, r) PROVE r \in ReclaimsIn(a, b, d)
  <2>1. PICK e \in On(runtime.refs, "EMA_CROSS", r) : e.evidence.direction = d
    BY <1>2 DEF ReclaimedOn
  <2>2. e \in Published("EMA_CROSS", a + 1, b) /\ e.detection = r
    BY <1>2, <2>1, PublishedOn, OnIs
  <2> QED BY <2>1, <2>2 DEF ReclaimsIn
<1> QED BY <1>1, <1>2

LEMMA BreaksAre ==
    ASSUME NEW from, NEW to, NEW swing
    PROVE  BreaksIn(from, to, swing) <=> \E j \in from..to : BrokenOn(runtime.refs, swing, j)
<1> DEFINE type == BreakEvent[swing.side]
<1>1. \A e : e \in Published(type, from, to) <=> \E j \in from..to : e \in On(runtime.refs, type, j)
  BY PublishedOn
<1>2. BreaksIn(from, to, swing) <=> \E e \in Published(type, from, to) : e.evidence = swing
  BY DEF BreaksIn
<1>3. \A j : BrokenOn(runtime.refs, swing, j) <=> \E e \in On(runtime.refs, type, j) : e.evidence = swing
  BY DEF BrokenOn
<1> HIDE DEF type
<1> QED BY <1>1, <1>2, <1>3

\* A break that follows some reclaim follows the first.
LEMMA FollowsUpIs ==
    ASSUME NEW a \in Nat, NEW b \in Int, NEW c, c.started = a, NEW reclaims,
           reclaims = ReclaimsIn(a, b, c.direction)
    PROVE  FollowsUp(runtime.refs, c, b) <=> reclaims # {} /\ BreaksIn(Min(reclaims), b, c.continuation)
<1> DEFINE least == Min(reclaims)
           R(i) == ReclaimedOn(runtime.refs, c.direction, i)
           B(j) == BrokenOn(runtime.refs, c.continuation, j)
<1>1. \A r : r \in reclaims <=> r \in a + 1..b /\ R(r)
  BY ReclaimsAre
<1>2. reclaims \subseteq Nat
  BY <1>1
<1>3. reclaims # {} => least \in reclaims /\ \A r \in reclaims : least <= r
  BY <1>2, LeastExists DEF Min
<1>4. BreaksIn(least, b, c.continuation) <=> \E j \in least..b : B(j)
  BY BreaksAre
<1>5. FollowsUp(runtime.refs, c, b) <=> \E i \in a + 1..b : \E j \in i..b : R(i) /\ B(j)
  BY DEF FollowsUp
<1> HIDE DEF R, B, least
<1>6. ASSUME NEW i \in a + 1..b, NEW j \in i..b, R(i), B(j)
      PROVE  reclaims # {} /\ \E x \in least..b : B(x)
  <2>1. i \in reclaims
    BY <1>1, <1>6
  <2>2. least \in Nat /\ least <= i
    BY <1>2, <1>3, <2>1
  <2>3. j \in least..b
    BY <2>2
  <2> QED BY <1>6, <2>1, <2>3
<1>7. ASSUME reclaims # {}, NEW j \in least..b, B(j)
      PROVE  \E i \in a + 1..b : \E x \in i..b : R(i) /\ B(x)
  <2>1. least \in a + 1..b /\ R(least)
    BY <1>1, <1>3, <1>7
  <2> QED BY <1>7, <2>1
<1>8. FollowsUp(runtime.refs, c, b) <=> reclaims # {} /\ BreaksIn(least, b, c.continuation)
  BY <1>4, <1>5, <1>6, <1>7
<1> QED BY <1>8 DEF least

EndsIn(a, b, k) == \E e \in Published("TREND_LEG_ENDED", a + 1, b) : e.evidence.index = k
ExtremesIn(a, b, d) ==
    \E e \in Published("SWING_STRUCTURE_CLASSIFIED", a + 1, b) : e.evidence.label = Extending[d]

LEMMA EndsAre ==
    ASSUME NEW a, NEW b, NEW k
    PROVE  EndsIn(a, b, k) <=> \E j \in a + 1..b : EndedOn(runtime.refs, k, j)
<1> DEFINE type == "TREND_LEG_ENDED"
<1>1. \A e : e \in Published(type, a + 1, b) <=> \E j \in a + 1..b : e \in On(runtime.refs, type, j)
  BY PublishedOn
<1>2. EndsIn(a, b, k) <=> \E e \in Published(type, a + 1, b) : e.evidence.index = k
  BY DEF EndsIn
<1>3. \A j : EndedOn(runtime.refs, k, j) <=> \E e \in On(runtime.refs, type, j) : e.evidence.index = k
  BY DEF EndedOn
<1> HIDE DEF type
<1> QED BY <1>1, <1>2, <1>3

LEMMA ExtremesAre ==
    ASSUME NEW a, NEW b, NEW d
    PROVE  ExtremesIn(a, b, d) <=> \E j \in a + 1..b : ExtremeOn(runtime.refs, d, j)
<1> DEFINE type == "SWING_STRUCTURE_CLASSIFIED"
<1>1. \A e : e \in Published(type, a + 1, b) <=> \E j \in a + 1..b : e \in On(runtime.refs, type, j)
  BY PublishedOn
<1>2. ExtremesIn(a, b, d) <=> \E e \in Published(type, a + 1, b) : e.evidence.label = Extending[d]
  BY DEF ExtremesIn
<1>3. \A j : ExtremeOn(runtime.refs, d, j) <=> \E e \in On(runtime.refs, type, j) : e.evidence.label = Extending[d]
  BY DEF ExtremeOn
<1> HIDE DEF type
<1> QED BY <1>1, <1>2, <1>3

\* What had decided a candidate, said of each condition.
Decided(s, t, a, b) ==
    LET leg == LastStart(a).evidence
        d == leg.direction
    IN \/ t = "candidate_age_limit" /\ b - a >= MaxAge
       \/ s = Reversal /\ t = "protected_swing_break" /\ EndsIn(a, b, leg.index)
       \/ s = Reversal /\ t = "same_direction_extreme" /\ ExtremesIn(a, b, d)
       \/ s # Reversal /\ t = "protected_swing_break" /\ BreaksIn(a + 1, b, LatestAt(a, Backward(d)))
       \/ s # Reversal /\ t = "ema_reclaim" /\ ReclaimsIn(a, b, d) # {}
       \/ s # Reversal /\ t = "continuation_break" /\ ReclaimsIn(a, b, d) # {}
            /\ BreaksIn(Min(ReclaimsIn(a, b, d)), b, LatestAt(a, Forward(d)))

\* The definition, one condition at a time.
LEMMA DecisionsSplit ==
    ASSUME NEW s, NEW t, NEW a, NEW b
    PROVE  t \in Decisions(s, a, b) <=> Decided(s, t, a, b)
<1> DEFINE leg == LastStart(a).evidence
           d == leg.direction
           over == IF b - a >= MaxAge THEN {"candidate_age_limit"} ELSE {}
           ends == EndsIn(a, b, leg.index)
           extremes == ExtremesIn(a, b, d)
           reclaims == ReclaimsIn(a, b, d)
           refuted == BreaksIn(a + 1, b, LatestAt(a, Backward(d)))
           broken == BreaksIn(Min(reclaims), b, LatestAt(a, Forward(d)))
<1>1. Decisions(s, a, b) =
        IF s = Reversal
        THEN over \cup {x \in {"protected_swing_break", "same_direction_extreme"} :
               IF x = "protected_swing_break" THEN ends ELSE extremes}
        ELSE over \cup {x \in {"protected_swing_break", "continuation_break", "ema_reclaim"} :
               CASE x = "protected_swing_break" -> refuted
                 [] x = "ema_reclaim" -> reclaims # {}
                 [] OTHER -> reclaims # {} /\ broken}
  BY DEF Decisions, LastStart, EndsIn, ExtremesIn, ReclaimsIn, BreaksIn, LatestAt
<1>2. Decided(s, t, a, b) <=>
        \/ t = "candidate_age_limit" /\ b - a >= MaxAge
        \/ s = Reversal /\ t = "protected_swing_break" /\ ends
        \/ s = Reversal /\ t = "same_direction_extreme" /\ extremes
        \/ s # Reversal /\ t = "protected_swing_break" /\ refuted
        \/ s # Reversal /\ t = "ema_reclaim" /\ reclaims # {}
        \/ s # Reversal /\ t = "continuation_break" /\ reclaims # {} /\ broken
  BY DEF Decided
<1>3. t \in over <=> t = "candidate_age_limit" /\ b - a >= MaxAge
  OBVIOUS
<1> HIDE DEF leg, d, over, ends, extremes, reclaims, refuted, broken
<1>4. CASE s = Reversal
  BY <1>1, <1>2, <1>3, <1>4
<1>5. CASE s # Reversal
  BY <1>1, <1>2, <1>3, <1>5
<1> QED BY <1>4, <1>5

\* It is what decides the candidate of the scene it opened on.
LEMMA DecisionsAre ==
    ASSUME market.swings.confirmed \in Seq(SwingType), NEW s \in Trends, NEW c, c.started \in Nat,
           Scene(s, runtime.refs, market.swings.confirmed, c), NEW b \in Int, NEW t
    PROVE  t \in Decisions(s, c.started, b) <=> Decides(s, t, runtime.refs, c, b)
<1> DEFINE a == c.started
           refs == runtime.refs
           S == market.swings.confirmed
           leg == LastStart(a).evidence
           reclaims == ReclaimsIn(a, b, leg.direction)
<1>1. leg.index = c.leg /\ leg.direction = c.direction
  <2>1. LastLeg(refs, a, c.leg, c.direction)
    BY DEF Scene
  <2> QED BY <2>1, LastStartIs
<1>2. t \in Decisions(s, a, b) <=> Decided(s, t, a, b)
  BY DecisionsSplit
<1>3. s # Reversal => s = Continuation
  BY DEF Trends
<1>4. s = Continuation => LatestAt(a, Backward(leg.direction)) = c.protected
                          /\ LatestAt(a, Forward(leg.direction)) = c.continuation
  <2> SUFFICES ASSUME s = Continuation
               PROVE  /\ LatestAt(a, Backward(leg.direction)) = c.protected
                      /\ LatestAt(a, Forward(leg.direction)) = c.continuation
    OBVIOUS
  <2>1. LatestSwing(S, a, Backward(c.direction), c.protected) /\ LatestSwing(S, a, Forward(c.direction), c.continuation)
    BY DEF Scene
  <2>2. LatestAt(a, Backward(c.direction)) = c.protected /\ LatestAt(a, Forward(c.direction)) = c.continuation
    BY <2>1, LatestAtIs
  <2> QED BY <1>1, <2>2
<1>5. /\ EndsIn(a, b, leg.index) <=> \E j \in a + 1..b : EndedOn(refs, c.leg, j)
      /\ ExtremesIn(a, b, leg.direction) <=> \E j \in a + 1..b : ExtremeOn(refs, c.direction, j)
      /\ BreaksIn(a + 1, b, c.protected) <=> \E j \in a + 1..b : BrokenOn(refs, c.protected, j)
  BY <1>1, EndsAre, ExtremesAre, BreaksAre
<1>6. reclaims # {} <=> \E j \in a + 1..b : ReclaimedOn(refs, c.direction, j)
  <2>1. \A r : r \in ReclaimsIn(a, b, c.direction) <=> r \in a + 1..b /\ ReclaimedOn(refs, c.direction, r)
    BY ReclaimsAre
  <2>2. reclaims = ReclaimsIn(a, b, c.direction)
    BY <1>1
  <2> HIDE DEF reclaims, refs
  <2> QED BY <2>1, <2>2
<1>7. FollowsUp(refs, c, b) <=> reclaims # {} /\ BreaksIn(Min(reclaims), b, c.continuation)
  BY <1>1, FollowsUpIs
<1>8. Decided(s, t, a, b) <=>
        \/ t = "candidate_age_limit" /\ b - a >= MaxAge
        \/ s = Reversal /\ t = "protected_swing_break" /\ EndsIn(a, b, leg.index)
        \/ s = Reversal /\ t = "same_direction_extreme" /\ ExtremesIn(a, b, leg.direction)
        \/ s # Reversal /\ t = "protected_swing_break" /\ BreaksIn(a + 1, b, LatestAt(a, Backward(leg.direction)))
        \/ s # Reversal /\ t = "ema_reclaim" /\ reclaims # {}
        \/ s # Reversal /\ t = "continuation_break" /\ reclaims # {}
             /\ BreaksIn(Min(reclaims), b, LatestAt(a, Forward(leg.direction)))
  BY DEF Decided
<1>9. Reversal # Continuation
  BY DEF Reversal, Continuation
<1>10. Decides(s, t, refs, c, b) <=>
        \/ t = "candidate_age_limit" /\ b - a >= MaxAge
        \/ s = Reversal /\ t = "protected_swing_break" /\ \E j \in a + 1..b : EndedOn(refs, c.leg, j)
        \/ s = Reversal /\ t = "same_direction_extreme" /\ \E j \in a + 1..b : ExtremeOn(refs, c.direction, j)
        \/ s = Continuation /\ t = "protected_swing_break" /\ \E j \in a + 1..b : BrokenOn(refs, c.protected, j)
        \/ s = Continuation /\ t = "ema_reclaim" /\ \E j \in a + 1..b : ReclaimedOn(refs, c.direction, j)
        \/ s = Continuation /\ t = "continuation_break" /\ FollowsUp(refs, c, b)
  BY DEF Decides, Strikes
<1> HIDE DEF a, refs, S, leg, reclaims
<1>11. CASE s = Reversal
  BY <1>2, <1>5, <1>8, <1>9, <1>10, <1>11 DEF a, refs
<1>12. CASE s = Continuation
  BY <1>2, <1>4, <1>5, <1>6, <1>7, <1>8, <1>9, <1>10, <1>12 DEF a, refs
<1> QED BY <1>3, <1>11, <1>12

\* The bar a candidate opened on.
LEMMA OpenedAtIs ==
    ASSUME NEW s, NEW i \in Nat, NEW a, Opened(runtime.log, s, i, a),
           \A j \in 1..i : runtime.log[j].slot = s => runtime.log[j].detection \in Nat
    PROVE  OpenedAt(s, i) = a /\ a \in Nat
<1> DEFINE H == {runtime.log[j].detection : j \in {x \in 1 .. i : /\ runtime.log[x].slot = s
                                                                  /\ runtime.log[x].edge.from = "INACTIVE"}}
           m == Max(H)
<1>1. OpenedAt(s, i) = m
  BY DEF OpenedAt
<1>2. a \in H /\ \A x \in H : x \in Nat /\ x <= a
  BY DEF Opened, Opens
<1> HIDE DEF H
<1>3. m \in H /\ \A x \in H : m >= x
  <2>1. \E x \in H : \A y \in H : x >= y
    BY <1>2
  <2> QED BY <2>1 DEF Max
<1> HIDE DEF m
<1>4. m = a
  BY <1>2, <1>3
<1> QED BY <1>1, <1>2, <1>4

\* The event that decided a candidate is the first that did.
LEMMA EventSays ==
    ASSUME CandidateInv, NEW i \in DOMAIN runtime.log, NEW e, e = runtime.log[i], e.slot # Compression,
           NEW a, a = OpenedAt(e.slot, i)
    PROVE  /\ e.edge.to = "CANDIDATE" => e.detection = a
           /\ e.edge.to # "CANDIDATE" =>
                /\ e.edge.trigger \in Decisions(e.slot, a, e.detection)
                /\ e.edge.to # "RECLAIMED" => Decisions(e.slot, a, e.detection - 1) \subseteq {"ema_reclaim"}
                /\ e.edge.trigger # "ema_reclaim" =>
                     \A t \in Decisions(e.slot, a, e.detection) \ {"ema_reclaim"} :
                       Rank(Patterns[e.slot], e.edge.trigger) <= Rank(Patterns[e.slot], t)
<1> DEFINE s == e.slot
           log == runtime.log
           refs == runtime.refs
           S == market.swings.confirmed
           n == Len(bars)
<1>1. /\ CandidatesHold(n, market, runtime) /\ S \in Seq(SwingType) /\ DOMAIN log = 1..Len(log) /\ Len(log) \in Nat
  <2>1. log \in Seq(ValuesOf(log))
    BY DEF CandidateInv, LegInv, SwingInv, MarketInv, RuntimeTypes
  <2>2. S \in Seq(SwingType) /\ CandidatesHold(n, market, runtime)
    BY DEF CandidateInv, LegInv, SwingInv, MarketInv, MarketTypes, SwingTypes, Confirmed
  <2> HIDE DEF log, S
  <2> QED BY <2>1, <2>2
<1>2. s \in Trends
  <2>1. s \in 1..3
    BY <1>1 DEF CandidatesHold, LoggedBy
  <2> QED BY <2>1 DEF Trends, Continuation, Reversal, Compression
<1>3. Traced(log, s, runtime.slots[s], refs, S, n)
  BY <1>1, <1>2 DEF CandidatesHold
<1>4. /\ e.detection \in 1..n /\ Explained(log, s, i, refs, S)
      /\ \A j \in 1..Len(log) : log[j].slot = s => log[j].detection \in Nat
  BY <1>1, <1>3 DEF Traced
<1>5. PICK c : Scene(s, refs, S, c) /\ Opened(log, s, i, c.started) /\ Fits(s, e, refs, c)
  BY <1>4 DEF Explained
<1>6. c.started = a /\ a \in Nat
  <2>1. i \in Nat /\ \A j \in 1..i : j \in 1..Len(log)
    BY <1>1
  <2> QED BY <1>4, <1>5, <2>1, OpenedAtIs
<1>7. \A b \in Int : \A t : t \in Decisions(s, a, b) <=> Decides(s, t, refs, c, b)
  BY <1>1, <1>2, <1>5, <1>6, DecisionsAre
<1>8. e.detection \in Int /\ e.detection - 1 \in Int
  BY <1>4
<1>9. \A t : /\ t \in Decisions(s, a, e.detection) <=> Decides(s, t, refs, c, e.detection)
             /\ t \in Decisions(s, a, e.detection - 1) <=> Decides(s, t, refs, c, e.detection - 1)
  BY <1>7, <1>8
<1>10. /\ e.edge.to = "CANDIDATE" => e.detection = a
       /\ e.edge.to # "CANDIDATE" =>
            /\ Decides(s, e.edge.trigger, refs, c, e.detection)
            /\ e.edge.to # "RECLAIMED" => \A t : Decides(s, t, refs, c, e.detection - 1) => t = "ema_reclaim"
            /\ e.edge.trigger # "ema_reclaim" =>
                 \A t : Decides(s, t, refs, c, e.detection) /\ t # "ema_reclaim" =>
                   Rank(Patterns[s], e.edge.trigger) <= Rank(Patterns[s], t)
  BY <1>5, <1>6 DEF Fits
<1> HIDE DEF s, refs
<1> SUFFICES /\ e.edge.to = "CANDIDATE" => e.detection = a
             /\ e.edge.to # "CANDIDATE" =>
                  /\ e.edge.trigger \in Decisions(s, a, e.detection)
                  /\ e.edge.to # "RECLAIMED" => Decisions(s, a, e.detection - 1) \subseteq {"ema_reclaim"}
                  /\ e.edge.trigger # "ema_reclaim" =>
                       \A t \in Decisions(s, a, e.detection) \ {"ema_reclaim"} :
                         Rank(Patterns[s], e.edge.trigger) <= Rank(Patterns[s], t)
  BY DEF s
<1> QED BY <1>9, <1>10

\* Nothing but its reclaim has decided a candidate that is still open.
LEMMA OpenSays ==
    ASSUME CandidateInv, NEW i \in DOMAIN runtime.log, NEW e, e = runtime.log[i], e.slot # Compression,
           \A j \in i + 1..Len(runtime.log) : runtime.log[j].slot # e.slot, e.edge.to \in OpenStates,
           NEW t \in Decisions(e.slot, OpenedAt(e.slot, i), Len(bars))
    PROVE  e.edge.to = "RECLAIMED" /\ t = "ema_reclaim"
<1> DEFINE s == e.slot
           log == runtime.log
           refs == runtime.refs
           S == market.swings.confirmed
           n == Len(bars)
           L == Len(log)
           slot == runtime.slots[s]
           c == slot.context
<1>1. /\ CandidatesHold(n, market, runtime) /\ S \in Seq(SwingType) /\ DOMAIN log = 1..L /\ L \in Nat
      /\ n \in Int
  <2>1. log \in Seq(ValuesOf(log))
    BY DEF CandidateInv, LegInv, SwingInv, MarketInv, RuntimeTypes
  <2>2. S \in Seq(SwingType) /\ CandidatesHold(n, market, runtime) /\ bars \in Seq(Bar)
    BY DEF CandidateInv, LegInv, SwingInv, MarketInv, MarketTypes, SwingTypes, Confirmed
  <2> HIDE DEF log, S
  <2> QED BY <2>1, <2>2
<1>2. s \in Trends
  <2>1. s \in 1..3
    BY <1>1 DEF CandidatesHold, LoggedBy
  <2> QED BY <2>1 DEF Trends, Continuation, Reversal, Compression
<1>3. /\ Traced(log, s, slot, refs, S, n)
      /\ slot.state \in OpenStates => CandidateHolds(s, slot, refs, S, market.legs, n)
  BY <1>1, <1>2 DEF CandidatesHold
<1>4. slot.state = e.edge.to
  BY <1>3 DEF Traced, LastOf
<1>5. /\ Opened(log, s, L, c.started) /\ Scene(s, refs, S, c) /\ OnlyReclaimed(s, slot.state, refs, c, n)
      /\ \A j \in 1..L : log[j].slot = s => log[j].detection \in Nat
  BY <1>1, <1>3, <1>4 DEF Traced, CandidateHolds
<1>6. Opened(log, s, i, c.started)
  <2>1. \A j \in 1..L : log[j].slot = s => j \in 1..i
    <3>1. \A j \in 1..L : j \in 1..i \/ j \in i + 1..L
      BY <1>1
    <3> QED BY <3>1
  <2>2. \A j \in 1..i : j \in 1..L
    BY <1>1
  <2> QED BY <1>5, <2>1, <2>2 DEF Opened, Opens
<1>7. OpenedAt(s, i) = c.started /\ c.started \in Nat
  <2>1. i \in Nat /\ \A j \in 1..i : j \in 1..L
    BY <1>1
  <2>2. \A j \in 1..i : runtime.log[j].slot = s => runtime.log[j].detection \in Nat
    BY <1>5, <2>1
  <2>3. Opened(runtime.log, s, i, c.started)
    BY <1>6
  <2> HIDE DEF s, c, log, refs, S, n, L, slot
  <2>4. \A a : Opened(runtime.log, s, i, a) => OpenedAt(s, i) = a /\ a \in Nat
    BY ONLY <2>1, <2>2, OpenedAtIs
  <2> QED BY ONLY <2>3, <2>4
<1>8. t \in Decisions(s, c.started, n) <=> Decides(s, t, refs, c, n)
  BY <1>1, <1>2, <1>5, <1>7, DecisionsAre
<1>9. Decides(s, t, refs, c, n)
  BY <1>7, <1>8
<1> QED BY <1>4, <1>5, <1>9 DEF OnlyReclaimed

LEMMA CandidatesSay == CandidateInv => CandidatesAreDecidedOnce
<1> SUFFICES ASSUME CandidateInv PROVE CandidatesAreDecidedOnce
  OBVIOUS
<1> DEFINE log == runtime.log
           a(i) == OpenedAt(log[i].slot, i)
           By(i) == Decisions(log[i].slot, a(i), log[i].detection)
           Before(i) == Decisions(log[i].slot, a(i), log[i].detection - 1)
           Still(i) == Decisions(log[i].slot, a(i), Now)
<1>1. CandidatesAreDecidedOnce <=>
        \A i \in DOMAIN log : log[i].slot # Compression =>
          /\ log[i].edge.to = "CANDIDATE" => log[i].detection = a(i)
          /\ log[i].edge.to # "CANDIDATE" =>
               /\ log[i].edge.trigger \in By(i)
               /\ log[i].edge.to # "RECLAIMED" => Before(i) \subseteq {"ema_reclaim"}
               /\ log[i].edge.trigger # "ema_reclaim" =>
                    \A t \in By(i) \ {"ema_reclaim"} :
                      Rank(Patterns[log[i].slot], log[i].edge.trigger) <= Rank(Patterns[log[i].slot], t)
          /\ (\A j \in i + 1 .. Len(log) : log[j].slot # log[i].slot) /\ log[i].edge.to \in {"CANDIDATE", "RECLAIMED"} =>
               Still(i) \subseteq (IF log[i].edge.to = "CANDIDATE" THEN {} ELSE {"ema_reclaim"})
  BY DEF CandidatesAreDecidedOnce
<1>2. ASSUME NEW i \in DOMAIN log, log[i].slot # Compression
      PROVE  /\ log[i].edge.to = "CANDIDATE" => log[i].detection = a(i)
             /\ log[i].edge.to # "CANDIDATE" =>
                  /\ log[i].edge.trigger \in By(i)
                  /\ log[i].edge.to # "RECLAIMED" => Before(i) \subseteq {"ema_reclaim"}
                  /\ log[i].edge.trigger # "ema_reclaim" =>
                       \A t \in By(i) \ {"ema_reclaim"} :
                         Rank(Patterns[log[i].slot], log[i].edge.trigger) <= Rank(Patterns[log[i].slot], t)
  BY <1>2, EventSays
<1>3. ASSUME NEW i \in DOMAIN log, log[i].slot # Compression,
             \A j \in i + 1 .. Len(log) : log[j].slot # log[i].slot, log[i].edge.to \in {"CANDIDATE", "RECLAIMED"},
             NEW t \in Still(i)
      PROVE  log[i].edge.to = "RECLAIMED" /\ t = "ema_reclaim"
  <2>1. log[i].edge.to \in OpenStates
    BY <1>3 DEF OpenStates
  <2>2. t \in Decisions(log[i].slot, OpenedAt(log[i].slot, i), Len(bars))
    BY DEF Now
  <2> QED BY <1>3, <2>1, <2>2, OpenSays
<1> HIDE DEF log, a, By, Before, Still
<1>4. ASSUME NEW i \in DOMAIN log, log[i].slot # Compression,
             \A j \in i + 1 .. Len(log) : log[j].slot # log[i].slot, log[i].edge.to \in {"CANDIDATE", "RECLAIMED"}
      PROVE  Still(i) \subseteq (IF log[i].edge.to = "CANDIDATE" THEN {} ELSE {"ema_reclaim"})
  <2>1. \A t \in Still(i) : log[i].edge.to = "RECLAIMED" /\ t = "ema_reclaim"
    BY <1>3, <1>4
  <2> QED BY <2>1
<1> QED BY <1>1, <1>2, <1>4

\* Whatever the bars and the parameters, an open continuation or reversal
\* candidate is one nothing but its own reclaim has decided, and the event that
\* closed one is dated on the first bar that decided it and names the first, by
\* precedence, of what decided it there: the break of a swing it remembers, the
\* end of its leg, an extreme beyond it, or its age (continuation.py:333,
\* reversal.py:293).
THEOREM CandidatesEndOnce == ThresholdsDescend => (Spec => []CandidatesAreDecidedOnce)
<1> SUFFICES ASSUME ThresholdsDescend PROVE Spec => []CandidatesAreDecidedOnce
  OBVIOUS
<1>1. Init => CandidateInv
  <2> SUFFICES ASSUME Init PROVE CandidateInv
    OBVIOUS
  <2>1. bars = <<>> /\ Len(bars) = 0 /\ market = FreshMarket /\ runtime = FreshRuntime(Patterns)
    BY DEF Init
  <2>2. runtime.refs = {}
    BY <2>1 DEF FreshRuntime
  <2> QED BY <2>1, <2>2, InitHolds, SwingsBegin, LegsBegin, CandidatesBegin DEF CandidateInv, LegInv, SwingInv
<1>2. CandidateInv /\ [Next]_vars => CandidateInv'
  BY CandidateInvKeeps
<1>3. CandidateInv => CandidatesAreDecidedOnce
  BY CandidatesSay
<1> QED BY <1>1, <1>2, <1>3, PTL DEF Spec
===============================================================================
