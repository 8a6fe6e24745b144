------------------------ MODULE MarketAnalysisProofs --------------------------
(***************************************************************************)
(* The market analysis for any stream of bars, any periods, percentages    *)
(* and scenarios.  First, every component of the chain accepts what the    *)
(* one before it made of a bar, and the runtime accepts what every         *)
(* detector returns, so nothing latches.  Then the swings that were        *)
(* confirmed are the ones their definition names, and the compressions     *)
(* the ones the streaks of the bars name.                                  *)
(***************************************************************************)
EXTENDS MarketAnalysis, FiniteSetTheorems, WellFoundedInduction, TLAPS
-------------------------------------------------------------------------------
(* Arithmetic, and the extremes of small sets.                             *)

LEMMA QuotientIsNat ==
    ASSUME NEW a \in Nat, NEW b \in Nat \ {0} PROVE a \div b \in Nat
OBVIOUS

LEMMA ProductIsNat ==
    ASSUME NEW a \in Nat, NEW b \in Nat PROVE a * b \in Nat
OBVIOUS

LEMMA MaxOfTwo ==
    ASSUME NEW a \in Int, NEW b \in Int
    PROVE  Max({a, b}) = IF a >= b THEN a ELSE b
<1>1. \E x \in {a, b} : \A y \in {a, b} : x >= y
  OBVIOUS
<1>2. Max({a, b}) \in {a, b} /\ \A y \in {a, b} : Max({a, b}) >= y
  BY <1>1 DEF Max
<1> QED BY <1>2

LEMMA MinOfTwo ==
    ASSUME NEW a \in Int, NEW b \in Int
    PROVE  Min({a, b}) = IF a <= b THEN a ELSE b
<1>1. \E x \in {a, b} : \A y \in {a, b} : x <= y
  OBVIOUS
<1>2. Min({a, b}) \in {a, b} /\ \A y \in {a, b} : Min({a, b}) <= y
  BY <1>1 DEF Min
<1> QED BY <1>2

LEMMA TheOne == ASSUME NEW x PROVE The({x}) = x
BY DEF The

-------------------------------------------------------------------------------
(* Types of the chain.                                                     *)

\* The open and the close of a bar lie in its range.
Bar ==
    {b \in [open : Int, high : Int, low : Int, close : Int] :
       /\ b.low <= b.open /\ b.open <= b.high
       /\ b.low <= b.close /\ b.close <= b.high}

Optional(S) == {{}} \cup {{x} : x \in S}

AtrTypes(a) ==
    /\ a.prior \in Optional(Int)
    /\ a.range \in Nat /\ a.seeds \in Nat /\ a.sum \in Nat
    /\ a.value \in Optional(Nat)

\* A true range is never negative.
LEMMA TrueRangeIsNat ==
    ASSUME NEW prior \in Optional(Int), NEW bar \in Bar PROVE TrueRange(prior, bar) \in Nat
<1> DEFINE S == {bar.high - bar.low}
                 \cup UNION {{Distance(bar.high, c), Distance(bar.low, c)} : c \in prior}
<1>1. S \subseteq Nat /\ bar.high - bar.low \in S
  BY DEF Optional, Bar, Distance
<1>2. \E x \in S : \A y \in S : x >= y
  <2>1. CASE prior = {}
    BY <2>1, <1>1
  <2>2. ASSUME NEW c \in Int, prior = {c} PROVE \E x \in S : \A y \in S : x >= y
    <3>1. S = {bar.high - bar.low, Distance(bar.high, c), Distance(bar.low, c)}
      BY <2>2
    <3> QED BY <3>1, <1>1
  <2> QED BY <2>1, <2>2 DEF Optional
<1>3. Max(S) \in S
  BY <1>2 DEF Max
<1> QED BY <1>1, <1>3 DEF TrueRange

\* The ATR keeps its types, and the range of a bar is a number.
LEMMA AtrUpdateTypes ==
    ASSUME NEW a, AtrTypes(a), NEW bar \in Bar PROVE AtrTypes(AtrUpdate(a, bar))
<1> DEFINE range == TrueRange(a.prior, bar)
           new == AtrUpdate(a, bar)
<1>1. range \in Nat
  BY TrueRangeIsNat DEF AtrTypes
<1> HIDE DEF range
<1>2. bar.close \in Int /\ AtrPeriod \in Nat \ {0} /\ Unit \in Nat \ {0}
  BY IndicatorAssumption DEF Bar
<1>3. CASE a.value = {}
  <2>1. new = [prior |-> {bar.close}, range |-> range, seeds |-> a.seeds + 1,
               sum |-> a.sum + range,
               value |-> IF a.seeds + 1 = AtrPeriod
                         THEN {((a.sum + range) * Unit) \div AtrPeriod} ELSE {}]
    BY <1>3 DEF AtrUpdate, range
  <2>2. (a.sum + range) * Unit \in Nat
    BY <1>1, <1>2, ProductIsNat DEF AtrTypes
  <2>3. ((a.sum + range) * Unit) \div AtrPeriod \in Nat
    BY <2>2, <1>2, QuotientIsNat
  <2> QED BY <2>1, <2>3, <1>1, <1>2 DEF AtrTypes, Optional
<1>4. ASSUME NEW v \in Nat, a.value = {v} PROVE AtrTypes(new)
  <2> DEFINE w == (v * (AtrPeriod - 1) + range * Unit) \div AtrPeriod
  <2>1. new = [prior |-> {bar.close}, range |-> range, seeds |-> a.seeds, sum |-> a.sum,
               value |-> {w}]
    BY <1>4 DEF AtrUpdate, range
  <2>2. v * (AtrPeriod - 1) \in Nat /\ range * Unit \in Nat
    BY <1>1, <1>2, ProductIsNat
  <2>3. w \in Nat
    BY <2>2, <1>2, QuotientIsNat
  <2> HIDE DEF w
  <2> QED BY <2>1, <2>3, <1>1, <1>2 DEF AtrTypes, Optional
<1> QED BY <1>3, <1>4 DEF AtrTypes, Optional

-------------------------------------------------------------------------------
(* Swings.                                                                 *)

SwingType == [index : Nat, side : Sides, price : Int, event : Nat, detection : Nat, atr : Nat]
ExtremeType == [price : Int, bar : Nat, atr : Nat, threshold : Int, equals : Nat]

Confirmed(S, n) ==
    /\ S \in Seq(SwingType)
    /\ \A k \in DOMAIN S : /\ S[k].index = k
                           /\ S[k].event \in 1..(S[k].detection - 1)
                           /\ S[k].detection <= n
    /\ \A k \in DOMAIN S : k > 1 => S[k].detection > S[k - 1].detection

Extremal(e, n) == e \in Optional(ExtremeType) /\ \A c \in e : c.bar \in 1..n

SwingTypes(sw, n) ==
    /\ sw = [confirmed |-> sw.confirmed, search |-> sw.search, candidate |-> sw.candidate,
             opposite |-> sw.opposite]
    /\ Confirmed(sw.confirmed, n)
    /\ sw.search \subseteq Sides
    /\ DOMAIN sw.candidate = Sides /\ DOMAIN sw.opposite = Sides
    /\ \A s \in Sides : Extremal(sw.candidate[s], n) /\ Extremal(sw.opposite[s], n)

LEMMA ConfirmedLater ==
    ASSUME NEW n \in Nat \ {0}, NEW S, Confirmed(S, n - 1)
    PROVE  Confirmed(S, n) /\ \A k \in DOMAIN S : S[k].detection <= n - 1
<1>1. \A k \in DOMAIN S : S[k] \in SwingType
  BY DEF Confirmed
<1>2. \A k \in DOMAIN S : S[k].detection \in Nat
  BY <1>1 DEF SwingType
<1> QED BY <1>2 DEF Confirmed

LEMMA ExtremeTyped ==
    ASSUME NEW side \in Sides, NEW bar \in Bar, NEW n \in Nat \ {0}, NEW atr \in Nat
    PROVE  Extreme(side, bar, n, atr) \in ExtremeType /\ Extreme(side, bar, n, atr).bar = n
<1>1. ReversalPercent * atr \in Nat
  BY SwingAssumption, ProductIsNat
<1>2. (ReversalPercent * atr) \div 100 \in Nat
  BY <1>1, QuotientIsNat
<1>3. PriceOf(side, bar) \in Int
  BY DEF PriceOf, Bar
<1> QED BY <1>2, <1>3 DEF Extreme, ExtremeType

LEMMA TrackedTyped ==
    ASSUME NEW side \in Sides, NEW n \in Nat \ {0}, NEW kept, Extremal(kept, n - 1),
           NEW fresh \in ExtremeType, fresh.bar = n
    PROVE  Extremal(Tracked(kept, side, fresh), n)
<1>1. CASE kept = {}
  BY <1>1 DEF Tracked, Extremal, Optional
<1>2. ASSUME NEW c \in ExtremeType, kept = {c}, c.bar \in 1..(n - 1)
      PROVE  Extremal(Tracked(kept, side, fresh), n)
  <2> DEFINE r == CASE Beyond(side, fresh.price, c.price) -> fresh
                    [] fresh.price = c.price -> [c EXCEPT !.equals = @ + 1]
                    [] OTHER -> c
  <2>1. Tracked(kept, side, fresh) = {r}
    BY <1>2 DEF Tracked
  <2>2. r \in ExtremeType /\ r.bar \in 1..n
    BY <1>2 DEF ExtremeType
  <2> HIDE DEF r
  <2> QED BY <2>1, <2>2 DEF Extremal, Optional
<1> QED BY <1>1, <1>2 DEF Extremal, Optional

\* The running extremes of both sides.
ExtremesMake(sw, new, bar, n, atr) ==
    /\ new = [confirmed |-> new.confirmed, search |-> new.search, candidate |-> new.candidate,
              opposite |-> new.opposite]
    /\ new.confirmed = sw.confirmed /\ new.search = sw.search
    /\ DOMAIN new.candidate = Sides /\ DOMAIN new.opposite = Sides
    /\ \A s \in Sides :
         /\ new.candidate[s] = IF Replaces(sw, s, bar) THEN {Extreme(s, bar, n, atr)}
                               ELSE Tracked(sw.candidate[s], s, Extreme(s, bar, n, atr))
         /\ new.opposite[s] = IF Replaces(sw, Other(s), bar) THEN {Extreme(s, bar, n, atr)}
                              ELSE Tracked(sw.opposite[s], s, Extreme(s, bar, n, atr))

LEMMA ExtremesMade ==
    ASSUME NEW n, NEW sw, NEW m, SwingTypes(sw, m), NEW bar, NEW atr
    PROVE  ExtremesMake(sw, Extremes(sw, bar, n, atr), bar, n, atr)
<1> DEFINE fresh == [s \in Sides |-> Extreme(s, bar, n, atr)]
           moved == {s \in Sides : Replaces(sw, s, bar)}
           C == [s \in Sides |-> IF s \in moved THEN {fresh[s]}
                                 ELSE Tracked(sw.candidate[s], s, fresh[s])]
           O == [s \in Sides |-> IF Other(s) \in moved THEN {fresh[s]}
                                 ELSE Tracked(sw.opposite[s], s, fresh[s])]
           new == Extremes(sw, bar, n, atr)
<1>1. new = [sw EXCEPT !.candidate = C, !.opposite = O]
  BY DEF Extremes
<1>2. \A s \in Sides : /\ Other(s) \in Sides
                       /\ fresh[s] = Extreme(s, bar, n, atr)
                       /\ s \in moved <=> Replaces(sw, s, bar)
                       /\ Other(s) \in moved <=> Replaces(sw, Other(s), bar)
  BY DEF Sides, Other
<1> HIDE DEF new, fresh, moved
<1>3. /\ \A s \in Sides : C[s] = IF s \in moved THEN {fresh[s]}
                                ELSE Tracked(sw.candidate[s], s, fresh[s])
      /\ \A s \in Sides : O[s] = IF Other(s) \in moved THEN {fresh[s]}
                                ELSE Tracked(sw.opposite[s], s, fresh[s])
      /\ DOMAIN C = Sides /\ DOMAIN O = Sides
  <2>1. \A s \in Sides : C[s] = IF s \in moved THEN {fresh[s]}
                                ELSE Tracked(sw.candidate[s], s, fresh[s])
    OBVIOUS
  <2>2. \A s \in Sides : O[s] = IF Other(s) \in moved THEN {fresh[s]}
                                ELSE Tracked(sw.opposite[s], s, fresh[s])
    OBVIOUS
  <2>3. DOMAIN C = Sides /\ DOMAIN O = Sides
    OBVIOUS
  <2> HIDE DEF C, O
  <2> QED BY <2>1, <2>2, <2>3
<1> HIDE DEF C, O
<1>4. sw = [confirmed |-> sw.confirmed, search |-> sw.search, candidate |-> sw.candidate,
            opposite |-> sw.opposite]
  BY DEF SwingTypes
<1>5. new = [confirmed |-> sw.confirmed, search |-> sw.search, candidate |-> C, opposite |-> O]
  BY <1>1, <1>4
<1>6. new.confirmed = sw.confirmed /\ new.search = sw.search /\ new.candidate = C /\ new.opposite = O
      /\ new = [confirmed |-> new.confirmed, search |-> new.search, candidate |-> new.candidate,
                opposite |-> new.opposite]
  BY <1>5
<1>7. ASSUME NEW s \in Sides
      PROVE  /\ new.candidate[s] = IF Replaces(sw, s, bar) THEN {Extreme(s, bar, n, atr)}
                                   ELSE Tracked(sw.candidate[s], s, Extreme(s, bar, n, atr))
             /\ new.opposite[s] = IF Replaces(sw, Other(s), bar) THEN {Extreme(s, bar, n, atr)}
                                  ELSE Tracked(sw.opposite[s], s, Extreme(s, bar, n, atr))
  <2>1. /\ fresh[s] = Extreme(s, bar, n, atr)
        /\ s \in moved <=> Replaces(sw, s, bar)
        /\ Other(s) \in moved <=> Replaces(sw, Other(s), bar)
    BY <1>2
  <2> QED BY <1>3, <1>6, <2>1
<1>8. ExtremesMake(sw, new, bar, n, atr)
  BY <1>3, <1>6, <1>7 DEF ExtremesMake
<1> QED BY <1>8 DEF new

LEMMA ExtremesTyped ==
    ASSUME NEW n \in Nat \ {0}, NEW sw, SwingTypes(sw, n - 1), NEW bar \in Bar, NEW atr \in Nat
    PROVE  /\ SwingTypes(Extremes(sw, bar, n, atr), n)
           /\ Extremes(sw, bar, n, atr).confirmed = sw.confirmed
           /\ Extremes(sw, bar, n, atr).search = sw.search
<1> DEFINE fresh == [s \in Sides |-> Extreme(s, bar, n, atr)]
           new == Extremes(sw, bar, n, atr)
<1>2. ExtremesMake(sw, new, bar, n, atr) /\ \A s \in Sides : fresh[s] = Extreme(s, bar, n, atr)
  BY ExtremesMade
<1>3. \A s \in Sides : fresh[s] \in ExtremeType /\ fresh[s].bar = n
  BY ExtremeTyped
<1> HIDE DEF fresh, new
<1>4. \A s \in Sides : Extremal({fresh[s]}, n)
  BY <1>3 DEF Extremal, Optional
<1>5. \A s \in Sides : /\ Extremal(Tracked(sw.candidate[s], s, fresh[s]), n)
                       /\ Extremal(Tracked(sw.opposite[s], s, fresh[s]), n)
  BY <1>3, TrackedTyped DEF SwingTypes
<1>0. \A s \in Sides : fresh[s] = Extreme(s, bar, n, atr)
  BY <1>2
<1>6. Confirmed(sw.confirmed, n)
  BY ConfirmedLater DEF SwingTypes
<1>7. /\ new.confirmed = sw.confirmed /\ new.search = sw.search
      /\ \A s \in Sides : Extremal(new.candidate[s], n) /\ Extremal(new.opposite[s], n)
  BY <1>0, <1>2, <1>4, <1>5 DEF ExtremesMake
<1>8. SwingTypes(new, n)
  BY <1>2, <1>6, <1>7 DEF SwingTypes, ExtremesMake
<1> QED BY <1>7, <1>8 DEF new

\* A swing is confirmed at its detection, after its extreme.
Confirms(old, new, n) ==
    \/ new = old
    \/ \E p \in SwingType : /\ new = Append(old, p)
                            /\ p.index = Len(old) + 1
                            /\ p.detection = n /\ p.event \in 1..(n - 1)

\* What a confirmation makes: the candidate is the swing, what was tracked
\* against it is searched next.
SwingOf(sw, side, n) ==
    [index |-> Len(sw.confirmed) + 1, side |-> side, price |-> The(sw.candidate[side]).price,
     event |-> The(sw.candidate[side]).bar, detection |-> n, atr |-> The(sw.candidate[side]).atr]

ConfirmMakes(sw, new, side, bar, n, atr) ==
    /\ new = [confirmed |-> new.confirmed, search |-> new.search, candidate |-> new.candidate,
              opposite |-> new.opposite]
    /\ new.confirmed = Append(sw.confirmed, SwingOf(sw, side, n))
    /\ new.search = {Other(side)}
    /\ DOMAIN new.candidate = Sides /\ DOMAIN new.opposite = Sides
    /\ \A s \in Sides :
         /\ new.candidate[s] = IF s = side THEN {}
                               ELSE IF sw.opposite[Other(side)] # {} THEN sw.opposite[Other(side)]
                               ELSE {Extreme(Other(side), bar, n, atr)}
         /\ new.opposite[s] = IF s = side THEN {Extreme(side, bar, n, atr)} ELSE {}

LEMMA ConfirmMade ==
    ASSUME NEW sw, NEW side \in Sides, NEW bar, NEW n, NEW atr
    PROVE  ConfirmMakes(sw, Confirm(sw, side, bar, n, atr), side, bar, n, atr)
<1> DEFINE new == Confirm(sw, side, bar, n, atr)
           p == SwingOf(sw, side, n)
           C == [s \in Sides |-> IF s = side THEN {}
                                 ELSE IF sw.opposite[Other(side)] # {} THEN sw.opposite[Other(side)]
                                 ELSE {Extreme(Other(side), bar, n, atr)}]
           O == [s \in Sides |-> IF s = side THEN {Extreme(side, bar, n, atr)} ELSE {}]
<1>1. new = [confirmed |-> Append(sw.confirmed, p), search |-> {Other(side)}, candidate |-> C,
             opposite |-> O]
  BY DEF Confirm, SwingOf, Sides, Other
<1> HIDE DEF new, p
<1> QED BY <1>1 DEF ConfirmMakes, new, p

\* A confirmed swing continues the list: a later detection, an earlier event.
LEMMA ConfirmTyped ==
    ASSUME NEW n \in Nat \ {0}, NEW sw, SwingTypes(sw, n), NEW bar \in Bar, NEW atr \in Nat,
           \A k \in DOMAIN sw.confirmed : sw.confirmed[k].detection <= n - 1,
           NEW side \in Confirming(sw, bar, n)
    PROVE  /\ SwingTypes(Confirm(sw, side, bar, n, atr), n)
           /\ Confirms(sw.confirmed, Confirm(sw, side, bar, n, atr).confirmed, n)
<1> DEFINE new == Confirm(sw, side, bar, n, atr)
           c == The(sw.candidate[side])
           S == sw.confirmed
           p == SwingOf(sw, side, n)
           fresh(s) == Extreme(s, bar, n, atr)
<1>1. side \in Sides /\ Other(side) \in Sides
  BY DEF Confirming, SwingTypes, Sides, Other
<1>2. c \in ExtremeType /\ c.bar \in 1..(n - 1)
  <2>1. PICK x \in sw.candidate[side] : x.bar < n
    BY DEF Confirming
  <2>2. sw.candidate[side] = {x} /\ x \in ExtremeType /\ x.bar \in 1..n
    BY <1>1, <2>1 DEF SwingTypes, Extremal, Optional
  <2>3. c = x
    BY <2>2, TheOne
  <2> QED BY <2>1, <2>2, <2>3
<1>3. S \in Seq(SwingType) /\ Len(S) \in Nat
  BY DEF SwingTypes, Confirmed
<1>4. p \in SwingType /\ p.index = Len(S) + 1 /\ p.detection = n /\ p.event \in 1..(n - 1)
  BY <1>1, <1>2, <1>3 DEF SwingType, ExtremeType, SwingOf
<1>5. ConfirmMakes(sw, new, side, bar, n, atr)
  BY <1>1, ConfirmMade
<1>6. \A s \in Sides : fresh(s) \in ExtremeType /\ fresh(s).bar = n
  BY ExtremeTyped
<1> HIDE DEF new, fresh, c, p
<1>7. \A s \in Sides : Extremal(new.candidate[s], n) /\ Extremal(new.opposite[s], n)
  <2>1. \A s \in Sides : Extremal({fresh(s)}, n) /\ Extremal({}, n) /\ Extremal(sw.opposite[s], n)
    BY <1>6 DEF Extremal, Optional, SwingTypes
  <2> QED BY <1>1, <1>5, <2>1 DEF ConfirmMakes, fresh
<1>8. Confirmed(new.confirmed, n)
  <2>1. /\ Append(S, p) \in Seq(SwingType) /\ Len(Append(S, p)) = Len(S) + 1
        /\ \A k \in 1..Len(S) : Append(S, p)[k] = S[k]
        /\ Append(S, p)[Len(S) + 1] = p
    BY <1>3, <1>4
  <2>2. /\ \A k \in 1..Len(S) : S[k] \in SwingType /\ S[k].detection <= n - 1 /\ S[k].index = k
                               /\ S[k].event \in 1..(S[k].detection - 1)
        /\ \A k \in 1..Len(S) : k > 1 => S[k].detection > S[k - 1].detection
    BY <1>3 DEF SwingTypes, Confirmed
  <2>3. \A k \in 1..Len(S) : S[k].detection \in Nat
    BY <2>2 DEF SwingType
  <2> DEFINE T == Append(S, p)
  <2>4. ASSUME NEW k \in 1..(Len(S) + 1)
        PROVE  /\ T[k].index = k /\ T[k].event \in 1..(T[k].detection - 1) /\ T[k].detection <= n
               /\ k > 1 => T[k].detection > T[k - 1].detection
    <3>1. CASE k = Len(S) + 1
      BY <1>3, <1>4, <2>1, <2>2, <2>3, <3>1
    <3>2. CASE k \in 1..Len(S)
      <4>1. T[k] = S[k] /\ (k > 1 => k - 1 \in 1..Len(S) /\ T[k - 1] = S[k - 1])
        BY <1>3, <2>1, <3>2
      <4>2. S[k].detection \in Nat /\ S[k].detection <= n - 1
        BY <2>2, <2>3, <3>2
      <4> QED BY <2>2, <3>2, <4>1, <4>2
    <3> QED BY <1>3, <3>1, <3>2
  <2>5. DOMAIN T = 1..(Len(S) + 1)
    BY <2>1
  <2> HIDE DEF T
  <2> QED BY <1>5, <2>1, <2>4, <2>5 DEF Confirmed, ConfirmMakes, T, p
<1>9. Confirms(S, new.confirmed, n)
  BY <1>4, <1>5 DEF Confirms, ConfirmMakes, p
<1> QED BY <1>1, <1>5, <1>7, <1>8, <1>9 DEF SwingTypes, ConfirmMakes, new

\* The swings a bar leaves are those before it and at most one more, detected on it.
LEMMA SwingUpdateTyped ==
    ASSUME NEW n \in Nat \ {0}, NEW sw, SwingTypes(sw, n - 1), NEW bar \in Bar, NEW atr \in Nat
    PROVE  /\ SwingTypes(SwingUpdate(sw, bar, n, atr), n)
           /\ Confirms(sw.confirmed, SwingUpdate(sw, bar, n, atr).confirmed, n)
<1> DEFINE moved == Extremes(sw, bar, n, atr)
           sides == Confirming(moved, bar, n)
<1>1. SwingTypes(sw, n)
  <2>1. ASSUME NEW s \in Sides PROVE Extremal(sw.candidate[s], n) /\ Extremal(sw.opposite[s], n)
    <3>1. Extremal(sw.candidate[s], n - 1) /\ Extremal(sw.opposite[s], n - 1)
      BY DEF SwingTypes
    <3>2. 1..(n - 1) \subseteq 1..n
      OBVIOUS
    <3> QED BY <3>1, <3>2 DEF Extremal
  <2> QED BY <2>1, ConfirmedLater DEF SwingTypes
<1>2. SwingTypes(moved, n) /\ moved.confirmed = sw.confirmed
  BY ExtremesTyped
<1>3. \A k \in DOMAIN sw.confirmed : sw.confirmed[k].detection <= n - 1
  BY ConfirmedLater DEF SwingTypes
<1>4. sides \subseteq Sides
  BY <1>2 DEF Confirming, SwingTypes
<1>5. CASE n < AtrWarmup
  BY <1>1, <1>5 DEF SwingUpdate, Confirms
<1>6. CASE ~(n < AtrWarmup) /\ sides = {}
  BY <1>2, <1>6 DEF SwingUpdate, Confirms
<1>7. CASE ~(n < AtrWarmup) /\ sides # {}
  <2> DEFINE side == IF "HIGH" \in sides THEN "HIGH" ELSE "LOW"
  <2>1. side \in sides
    BY <1>4, <1>7 DEF Sides
  <2>2. SwingUpdate(sw, bar, n, atr) = Confirm(moved, side, bar, n, atr)
    BY <1>7 DEF SwingUpdate
  <2> HIDE DEF moved, side
  <2> QED BY <1>2, <1>3, <2>1, <2>2, ConfirmTyped
<1> QED BY <1>5, <1>6, <1>7

\* What the bar published of it.
LEMMA CurrentSwing ==
    ASSUME NEW n \in Nat \ {0}, NEW old, Confirmed(old, n - 1), NEW sw,
           Confirms(old, sw.confirmed, n)
    PROVE  \/ sw.confirmed = old /\ CurrentSwings(sw, n) = {}
           \/ \E p \in SwingType : /\ sw.confirmed = Append(old, p)
                                   /\ CurrentSwings(sw, n) = {p}
                                   /\ p.index = Len(old) + 1
                                   /\ p.detection = n /\ p.event \in 1..(n - 1)
<1>1. old \in Seq(SwingType) /\ Len(old) \in Nat
  BY DEF Confirmed
<1>2. CASE sw.confirmed = old
  BY <1>1, <1>2 DEF CurrentSwings, Confirmed
<1>3. ASSUME NEW p \in SwingType, sw.confirmed = Append(old, p), p.index = Len(old) + 1,
             p.detection = n, p.event \in 1..(n - 1)
      PROVE  CurrentSwings(sw, n) = {p}
  <2>1. Len(Append(old, p)) = Len(old) + 1 /\ Append(old, p)[Len(old) + 1] = p
        /\ Append(old, p) # <<>>
    BY <1>1
  <2> QED BY <1>3, <2>1 DEF CurrentSwings
<1> QED BY <1>2, <1>3 DEF Confirms

-------------------------------------------------------------------------------
(* Structure.                                                              *)

Labels == {"UNCLASSIFIED", "HH", "HL", "EH", "LH", "LL", "EL"}
ClassType == [swing : SwingType, previous : Optional(SwingType), label : Labels]

\* A classification of bar n or before, of one of the first i swings.
Known(c, i, n) ==
    c \in ClassType /\ c.swing.index \in 1..i /\ c.swing.detection <= n /\ c.swing.event \in 1..n

StructureTypes(st, i, n) ==
    /\ DOMAIN st.latest = Sides
    /\ \A s \in Sides : /\ st.latest[s] \in Optional(ClassType)
                        /\ \A c \in st.latest[s] : Known(c, i, n) /\ c.swing.side = s
    /\ st.last = i
    /\ st.broken \subseteq Sides

\* What a bar classifies is what the legs accept (_validate_classifications).
Classifies(st, new, swings, n) ==
    \/ swings = {} /\ new.classified = {}
    \/ \E p \in swings : \E c \in ClassType :
          /\ swings = {p} /\ new.classified = {c} /\ c.swing = p
          /\ ValidClassification(c, st.last, n)

\* A label, and what it is computed from.
LEMMA LabelTyped ==
    ASSUME NEW swing, NEW previous PROVE Label(swing, previous) \in Labels
<1> DEFINE delta == (swing.price - The(previous).price) * Unit
<1>1. CASE previous = {}
  BY <1>1 DEF Label, Labels
<1>2. CASE previous # {} /\ delta > Tolerance(swing)
  BY <1>2 DEF Label, Labels
<1>3. CASE previous # {} /\ ~(delta > Tolerance(swing)) /\ delta < -Tolerance(swing)
  BY <1>3 DEF Label, Labels
<1>4. CASE previous # {} /\ ~(delta > Tolerance(swing)) /\ ~(delta < -Tolerance(swing))
  BY <1>4 DEF Label, Labels
<1> QED BY <1>1, <1>2, <1>3, <1>4

\* The structure accepts the swing of a bar and classifies it.
LEMMA StructureUpdateTyped ==
    ASSUME NEW i \in Nat, NEW n \in Nat \ {0}, NEW st, StructureTypes(st, i, n - 1),
           NEW bar \in Bar, NEW swings,
           \/ swings = {}
           \/ \E p \in SwingType : /\ swings = {p} /\ p.index = i + 1
                                   /\ p.detection = n /\ p.event \in 1..(n - 1)
    PROVE  /\ StructureTypes(StructureUpdate(st, swings, bar, n),
                             IF swings = {} THEN i ELSE i + 1, n)
           /\ Classifies(st, StructureUpdate(st, swings, bar, n), swings, n)
           /\ \A b \in StructureUpdate(st, swings, bar, n).breaks : b.side \in Sides
<1> DEFINE new == StructureUpdate(st, swings, bar, n)
           classified == {Classified(st, p) : p \in swings}
           latest == [s \in Sides |-> IF \E c \in classified : c.swing.side = s
                                      THEN classified ELSE st.latest[s]]
           j == IF swings = {} THEN i ELSE i + 1
<1>1. /\ new.latest = latest /\ new.classified = classified
      /\ new.last = Max({st.last} \cup {p.index : p \in swings})
      /\ new.broken \subseteq Sides
      /\ \A b \in new.breaks : b.side \in Sides
  <2> DEFINE whole == st.broken \ {c.swing.side : c \in classified}
             breaks == Breaks(latest, whole, bar, n)
  <2>1. new = [latest |-> latest, broken |-> whole \cup breaks,
               last |-> Max({st.last} \cup {p.index : p \in swings}), classified |-> classified,
               breaks |-> {[side |-> s, swing |-> The(latest[s]).swing] : s \in breaks}]
    BY DEF StructureUpdate
  <2>2. breaks \subseteq Sides
    BY DEF Breaks
  <2>3. whole \subseteq Sides
    BY DEF StructureTypes
  <2> HIDE DEF new, breaks, whole, latest, classified
  <2> QED BY <2>1, <2>2, <2>3
<1>2. \A s \in Sides : \A c \in st.latest[s] : Known(c, i, n) /\ Known(c, j, n)
  <2>1. ASSUME NEW s \in Sides, NEW c \in st.latest[s]
        PROVE  Known(c, i, n) /\ Known(c, j, n)
    <3>1. Known(c, i, n - 1)
      BY DEF StructureTypes
    <3>2. c.swing.detection \in Nat /\ c.swing.index \in Nat
      BY <3>1 DEF Known, ClassType, SwingType
    <3> QED BY <3>1, <3>2 DEF Known
  <2> QED BY <2>1
<1>3. CASE swings = {}
  <2>1. classified = {} /\ DOMAIN latest = Sides /\ \A s \in Sides : latest[s] = st.latest[s]
    BY <1>3
  <2>2. new.last = i
    <3>1. {st.last} \cup {p.index : p \in swings} = {i, i}
      BY <1>3 DEF StructureTypes
    <3>2. Max({i, i}) = i
      BY MaxOfTwo
    <3>3. new.last = Max({st.last} \cup {p.index : p \in swings})
      BY <1>1
    <3> HIDE DEF new
    <3> QED BY <3>1, <3>2, <3>3
  <2> HIDE DEF new, latest, classified
  <2> QED BY <1>1, <1>2, <1>3, <2>1, <2>2 DEF StructureTypes, Classifies, new
<1>4. ASSUME NEW p \in SwingType, swings = {p}, p.index = i + 1, p.detection = n,
             p.event \in 1..(n - 1)
      PROVE  StructureTypes(new, j, n) /\ Classifies(st, new, swings, n)
  <2> DEFINE c == Classified(st, p)
             previous == {x.swing : x \in st.latest[p.side]}
  <2>1. p.side \in Sides
    BY DEF SwingType
  <2>2. previous \in Optional(SwingType)
    <3>1. st.latest[p.side] \in Optional(ClassType)
      BY <2>1 DEF StructureTypes
    <3> QED BY <3>1 DEF Optional, ClassType
  <2>3. c \in ClassType /\ c.swing = p /\ c.previous = previous
        /\ c.label = Label(c.swing, c.previous)
    BY <2>2, LabelTyped DEF Classified, ClassType
  <2>4. \A q \in previous : q.side = p.side /\ q.index < p.index /\ q.detection < p.detection
    <3>1. ASSUME NEW x \in st.latest[p.side]
          PROVE  x.swing.side = p.side /\ x.swing.index < p.index /\ x.swing.detection < p.detection
      <4>1. Known(x, i, n - 1) /\ x.swing.side = p.side
        BY <2>1 DEF StructureTypes
      <4>2. x.swing.detection \in Nat /\ x.swing.index \in Nat
        BY <4>1 DEF Known, ClassType, SwingType
      <4> QED BY <1>4, <4>1, <4>2 DEF Known
    <3> QED BY <3>1
  <2>5. p.atr >= 0
    BY DEF SwingType
  <2>6. ValidClassification(c, st.last, n)
    BY <1>4, <2>3, <2>4, <2>5 DEF ValidClassification, ValidSwing, StructureTypes
  <2>7. classified = {c}
    BY <1>4
  <2>8. new.last = i + 1
    <3>1. {st.last} \cup {q.index : q \in swings} = {i, i + 1}
      <4>1. {q.index : q \in swings} = {i + 1}
        BY <1>4
      <4>2. st.last = i
        BY DEF StructureTypes
      <4> QED BY <4>1, <4>2
    <3>2. Max({i, i + 1}) = i + 1
      BY MaxOfTwo
    <3>3. new.last = Max({st.last} \cup {q.index : q \in swings})
      BY <1>1
    <3> HIDE DEF new
    <3> QED BY <3>1, <3>2, <3>3
  <2>9. Known(c, i + 1, n)
    BY <1>4, <2>3 DEF Known
  <2>10. \A s \in Sides : latest[s] = IF p.side = s THEN {c} ELSE st.latest[s]
    BY <2>3, <2>7
  <2>11. j = i + 1
    BY <1>4
  <2> HIDE DEF c, previous, classified, latest, new, j
  <2>12. ASSUME NEW s \in Sides
         PROVE  /\ latest[s] \in Optional(ClassType)
                /\ \A x \in latest[s] : Known(x, j, n) /\ x.swing.side = s
    BY <1>2, <2>3, <2>9, <2>10, <2>11 DEF StructureTypes, Optional
  <2>13. DOMAIN latest = Sides
    BY DEF latest
  <2> QED BY <1>1, <1>4, <2>3, <2>6, <2>7, <2>8, <2>11, <2>12, <2>13 DEF StructureTypes, Classifies
<1> QED BY <1>1, <1>3, <1>4

-------------------------------------------------------------------------------
(* Legs.                                                                   *)

LegType ==
    [index : Nat, direction : Directions, initial : SwingType, protected : SwingType,
     directional : SwingType, established : Nat, since : Nat, now : Nat, extreme : Int,
     duration : Int, movement : Int, retracement : Int]

LegAt(leg, n) ==
    /\ leg \in LegType
    /\ leg.now = n
    /\ leg.initial.event \in 1..n
    /\ leg.duration = n - leg.initial.event + 1
    /\ leg.established <= n

LegTypes(lg, i, n) ==
    /\ lg = [active |-> lg.active, pending |-> lg.pending, segment |-> lg.segment,
             close |-> lg.close, ema |-> lg.ema, last |-> lg.last, legs |-> lg.legs,
             crosses |-> lg.crosses, transitions |-> lg.transitions]
    /\ lg.active \in Optional(LegType)
    /\ \A leg \in lg.active : LegAt(leg, n) /\ leg.index <= lg.legs
    /\ lg.pending \in Optional(ClassType)
    /\ \A c \in lg.pending : Known(c, i, n) /\ c.label \in {"HL", "LH"}
    /\ lg.last = i
    /\ lg.legs \in Nat

\* A leg measured on a bar is still a leg.
LEMMA MeasuredTyped ==
    ASSUME NEW n \in Nat \ {0}, NEW leg \in LegType, leg.initial.event \in 1..n,
           leg.established <= n, NEW bar \in Bar
    PROVE  /\ LegAt(Measured(leg, bar, n), n)
           /\ Measured(leg, bar, n).index = leg.index
           /\ Measured(leg, bar, n).direction = leg.direction
           /\ Measured(leg, bar, n).protected = leg.protected
           /\ Measured(leg, bar, n).initial = leg.initial
<1> DEFINE best == IF leg.direction = "UP" THEN Max({leg.extreme, bar.high})
                   ELSE Min({leg.extreme, bar.low})
           movement == Signed(leg.direction, bar.close - leg.initial.price)
           retracement == Signed(leg.direction, best - bar.close)
           new == Measured(leg, bar, n)
<1>1. /\ bar.close \in Int /\ bar.high \in Int /\ bar.low \in Int
      /\ leg.initial.price \in Int /\ leg.extreme \in Int
  BY DEF Bar, LegType, SwingType
<1>2. best \in Int
  BY <1>1, MaxOfTwo, MinOfTwo
<1>3. movement \in Int /\ retracement \in Int
  <2> HIDE DEF best
  <2> QED BY <1>1, <1>2 DEF Signed
<1>4. new = [leg EXCEPT !.now = n, !.duration = n - leg.initial.event + 1, !.movement = movement,
               !.extreme = best, !.retracement = retracement]
  BY DEF Measured
<1> HIDE DEF best, movement, retracement, new
<1>5. /\ new.now = n /\ new.duration = n - leg.initial.event + 1
      /\ new.initial = leg.initial /\ new.established = leg.established
      /\ new.index = leg.index /\ new.direction = leg.direction /\ new.protected = leg.protected
  BY <1>4 DEF LegType
<1>6. leg.initial.event \in Nat
  BY DEF LegType, SwingType
<1>7. new \in LegType
  <2>1. /\ n \in Nat /\ n - leg.initial.event + 1 \in Int
    BY <1>6
  <2> QED BY <1>2, <1>3, <1>4, <2>1 DEF LegType
<1> QED BY <1>5, <1>7 DEF LegAt, new

MeasuredLegs(lg, bar, n) == {Measured(leg, bar, n) : leg \in lg.active}
EndedLegs(lg, bar, n) == {leg \in MeasuredLegs(lg, bar, n) : Ends(leg, bar, n)}

\* The legs before the structure of the bar is looked at.
BeforeStructure(lg, classified, ema, bar, n) ==
    LET measured == MeasuredLegs(lg, bar, n)
        ended == EndedLegs(lg, bar, n)
    IN [active |-> measured \ ended, pending |-> IF ended # {} THEN {} ELSE lg.pending,
        segment |-> SegmentAfter(lg, Crossing(lg, bar, ema), bar, n), close |-> {bar.close},
        ema |-> ema, last |-> Max({lg.last} \cup {c.swing.index : c \in classified}),
        legs |-> lg.legs, crosses |-> Crossing(lg, bar, ema),
        transitions |-> IF ended # {} THEN <<[type |-> "TERMINATED", leg |-> The(ended)]>>
                        ELSE <<>>]

\* What a bar makes of the legs, by its parts.
LEMMA LegUpdateShape ==
    ASSUME NEW lg, NEW i, NEW n, LegTypes(lg, i, n - 1), NEW classified, NEW ema, NEW bar
    PROVE  LegUpdate(lg, classified, ema, bar, n) =
             IF EndedLegs(lg, bar, n) # {} \/ classified = {}
             THEN BeforeStructure(lg, classified, ema, bar, n)
             ELSE Progress(BeforeStructure(lg, classified, ema, bar, n), The(classified), bar, n)
<1> DEFINE crosses == Crossing(lg, bar, ema)
           measured == {Measured(leg, bar, n) : leg \in lg.active}
           ended == {leg \in measured : Ends(leg, bar, n)}
           segment == SegmentAfter(lg, crosses, bar, n)
           last == Max({lg.last} \cup {c.swing.index : c \in classified})
           moves == IF ended # {} THEN <<[type |-> "TERMINATED", leg |-> The(ended)]>> ELSE <<>>
           waits == IF ended # {} THEN {} ELSE lg.pending
           next == [lg EXCEPT !.crosses = crosses, !.segment = segment, !.close = {bar.close},
                      !.ema = ema, !.last = last, !.active = measured \ ended,
                      !.pending = waits, !.transitions = moves]
<1>1. LegUpdate(lg, classified, ema, bar, n) =
        IF ended # {} \/ classified = {} THEN next ELSE Progress(next, The(classified), bar, n)
  BY DEF LegUpdate
<1>2. next = BeforeStructure(lg, classified, ema, bar, n)
  <2>1. lg = [active |-> lg.active, pending |-> lg.pending, segment |-> lg.segment,
             close |-> lg.close, ema |-> lg.ema, last |-> lg.last, legs |-> lg.legs,
             crosses |-> lg.crosses, transitions |-> lg.transitions]
    BY DEF LegTypes
  <2>2. BeforeStructure(lg, classified, ema, bar, n) =
          [active |-> measured \ ended, pending |-> waits, segment |-> segment,
           close |-> {bar.close}, ema |-> ema, last |-> last, legs |-> lg.legs,
           crosses |-> crosses, transitions |-> moves]
    BY DEF BeforeStructure, MeasuredLegs, EndedLegs
  <2> DEFINE whole == [active |-> measured \ ended, pending |-> waits, segment |-> segment,
                       close |-> {bar.close}, ema |-> ema, last |-> last, legs |-> lg.legs,
                       crosses |-> crosses, transitions |-> moves]
             fields == {"active", "pending", "segment", "close", "ema", "last", "legs", "crosses",
                        "transitions"}
  <2> HIDE DEF measured, ended, segment, crosses, last, moves, waits
  <2>3. DOMAIN lg = fields
    BY <2>1
  <2>4. next = [f \in fields |-> next[f]] /\ whole = [f \in fields |-> whole[f]]
    BY <2>3
  <2>5. /\ next.active = measured \ ended /\ next.pending = waits /\ next.segment = segment
        /\ next.close = {bar.close} /\ next.ema = ema /\ next.last = last /\ next.legs = lg.legs
        /\ next.crosses = crosses /\ next.transitions = moves
    BY <2>3
  <2>6. /\ whole.active = measured \ ended /\ whole.pending = waits /\ whole.segment = segment
        /\ whole.close = {bar.close} /\ whole.ema = ema /\ whole.last = last /\ whole.legs = lg.legs
        /\ whole.crosses = crosses /\ whole.transitions = moves
    OBVIOUS
  <2>7. whole = BeforeStructure(lg, classified, ema, bar, n)
    BY <2>2
  <2> HIDE DEF next, whole
  <2>8. \A f \in fields : next[f] = whole[f]
    BY <2>5, <2>6
  <2> QED BY <2>4, <2>7, <2>8
<1>3. ended = EndedLegs(lg, bar, n)
  BY DEF EndedLegs, MeasuredLegs
<1> HIDE DEF next, ended
<1> QED BY <1>1, <1>2, <1>3

Turned(old, new, bar, n) ==
    \E leg \in old :
        /\ Ends(Measured(leg, bar, n), bar, n)
        /\ new.active = {}
        /\ new.transitions = <<[type |-> "TERMINATED", leg |-> Measured(leg, bar, n)]>>

Stands(lg, new, bar, n) == new.active = MeasuredLegs(lg, bar, n) /\ new.transitions = <<>>

\* The structure of a bar continues the swings seen so far.
Continues(classified, i) ==
    classified = {} \/ \E c \in ClassType : classified = {c} /\ c.swing.index = i + 1

After(classified, i) == IF classified = {} THEN i ELSE i + 1

LEMMA BeforeStructureTyped ==
    ASSUME NEW i \in Nat, NEW n \in Nat \ {0}, NEW lg, LegTypes(lg, i, n - 1), NEW bar \in Bar,
           NEW classified, NEW ema, Continues(classified, i)
    PROVE  /\ LegTypes(BeforeStructure(lg, classified, ema, bar, n), After(classified, i), n)
           /\ \/ /\ EndedLegs(lg, bar, n) # {}
                 /\ Turned(lg.active, BeforeStructure(lg, classified, ema, bar, n), bar, n)
              \/ /\ EndedLegs(lg, bar, n) = {}
                 /\ Stands(lg, BeforeStructure(lg, classified, ema, bar, n), bar, n)
<1> DEFINE next == BeforeStructure(lg, classified, ema, bar, n)
           measured == {Measured(leg, bar, n) : leg \in lg.active}
           ended == {leg \in measured : Ends(leg, bar, n)}
           j == After(classified, i)
<1>1. next = [active |-> measured \ ended, pending |-> IF ended # {} THEN {} ELSE lg.pending,
        segment |-> SegmentAfter(lg, Crossing(lg, bar, ema), bar, n), close |-> {bar.close},
        ema |-> ema, last |-> Max({lg.last} \cup {c.swing.index : c \in classified}),
        legs |-> lg.legs, crosses |-> Crossing(lg, bar, ema),
        transitions |-> IF ended # {} THEN <<[type |-> "TERMINATED", leg |-> The(ended)]>>
                        ELSE <<>>]
  BY DEF BeforeStructure, MeasuredLegs, EndedLegs
<1>0. measured = MeasuredLegs(lg, bar, n) /\ ended = EndedLegs(lg, bar, n)
  BY DEF MeasuredLegs, EndedLegs
<1>2. next.last = j
  <2>1. CASE classified = {}
    <3>1. {lg.last} \cup {c.swing.index : c \in classified} = {i, i}
      BY <2>1 DEF LegTypes
    <3>2. Max({i, i}) = i
      BY MaxOfTwo
    <3> HIDE DEF next
    <3> QED BY <1>1, <2>1, <3>1, <3>2 DEF After
  <2>2. ASSUME NEW c \in ClassType, classified = {c}, c.swing.index = i + 1 PROVE next.last = j
    <3>1. {lg.last} \cup {x.swing.index : x \in classified} = {i, i + 1}
      <4>1. {x.swing.index : x \in classified} = {i + 1} /\ lg.last = i
        BY <2>2 DEF LegTypes
      <4> QED BY <4>1
    <3>2. Max({i, i + 1}) = i + 1
      BY MaxOfTwo
    <3> HIDE DEF next
    <3> QED BY <1>1, <2>2, <3>1, <3>2 DEF After
  <2> QED BY <2>1, <2>2 DEF Continues
<1>3. \A c \in lg.pending : Known(c, j, n)
  <2>1. ASSUME NEW c \in lg.pending PROVE Known(c, j, n)
    <3>1. Known(c, i, n - 1)
      BY DEF LegTypes
    <3>2. c.swing.detection \in Nat /\ c.swing.index \in Nat
      BY <3>1 DEF Known, ClassType, SwingType
    <3> QED BY <3>1, <3>2 DEF Known, After
  <2> QED BY <2>1
<1>4. \A leg \in lg.active : /\ LegAt(Measured(leg, bar, n), n)
                             /\ Measured(leg, bar, n).index <= lg.legs
                             /\ Measured(leg, bar, n) \in LegType
  <2>1. ASSUME NEW leg \in lg.active
        PROVE  leg \in LegType /\ leg.initial.event \in 1..n /\ leg.established <= n
               /\ leg.index <= lg.legs
    <3>1. LegAt(leg, n - 1) /\ leg.index <= lg.legs
      BY DEF LegTypes
    <3>2. leg.established \in Nat
      BY <3>1 DEF LegAt, LegType
    <3> QED BY <3>1, <3>2 DEF LegAt
  <2> QED BY <2>1, MeasuredTyped DEF LegAt
<1>5. lg.active = {} \/ \E leg \in LegType : lg.active = {leg}
  BY DEF LegTypes, Optional
<1>6. /\ next = [active |-> next.active, pending |-> next.pending, segment |-> next.segment,
                 close |-> next.close, ema |-> next.ema, last |-> next.last, legs |-> next.legs,
                 crosses |-> next.crosses, transitions |-> next.transitions]
      /\ next.legs = lg.legs
      /\ next.active = measured \ ended
      /\ next.pending = IF ended # {} THEN {} ELSE lg.pending
      /\ next.transitions = IF ended # {} THEN <<[type |-> "TERMINATED", leg |-> The(ended)]>>
                            ELSE <<>>
  <2> HIDE DEF next, measured, ended
  <2> QED BY <1>1
<1>7. /\ next.pending \in Optional(ClassType)
      /\ \A c \in next.pending : Known(c, j, n) /\ c.label \in {"HL", "LH"}
      /\ next.legs \in Nat
  <2> HIDE DEF next, measured, ended, j
  <2> QED BY <1>3, <1>6 DEF LegTypes, Optional
<1>8. CASE ended = {}
  <2>1. next.active = measured /\ next.transitions = <<>>
    <3> HIDE DEF next, measured, ended
    <3> QED BY <1>6, <1>8
  <2>2. measured \in Optional(LegType)
    BY <1>4, <1>5 DEF Optional
  <2>3. \A leg \in measured : LegAt(leg, n) /\ leg.index <= lg.legs
    BY <1>4
  <2>4. LegTypes(next, j, n)
    <3> HIDE DEF next, measured, ended, j
    <3> QED BY <1>2, <1>6, <1>7, <2>1, <2>2, <2>3 DEF LegTypes
  <2> HIDE DEF next, measured, ended
  <2> QED BY <1>0, <1>8, <2>1, <2>4 DEF next, Stands
<1>9. CASE ended # {}
  <2>1. PICK leg \in lg.active : Ends(Measured(leg, bar, n), bar, n)
    BY <1>9
  <2>2. lg.active = {leg}
    BY <1>5
  <2>3. measured = {Measured(leg, bar, n)} /\ ended = {Measured(leg, bar, n)}
    BY <2>1, <2>2
  <2>4. /\ next.active = {}
        /\ next.transitions = <<[type |-> "TERMINATED", leg |-> Measured(leg, bar, n)]>>
    <3> HIDE DEF next, measured, ended
    <3> QED BY <1>6, <1>9, <2>3, TheOne
  <2>5. LegTypes(next, j, n)
    <3> HIDE DEF next, measured, ended, j
    <3> QED BY <1>2, <1>6, <1>7, <2>4 DEF LegTypes, Optional
  <2>6. Turned(lg.active, next, bar, n)
    BY <2>1, <2>4 DEF Turned
  <2> HIDE DEF next, measured, ended
  <2> QED BY <1>0, <1>9, <2>5, <2>6 DEF next
<1> QED BY <1>8, <1>9

LEMMA PendingTyped ==
    ASSUME NEW lg, NEW c PROVE PendingAfter(lg, c) \in {{c}, {}, lg.pending}
<1> DEFINE d == CHOOSE x \in Directions : Corrective[x] = c.label
           against == \E leg \in lg.active : leg.direction # d
           better == \E leg \in lg.active : /\ leg.direction = d
                                 /\ Signed(d, c.swing.price - leg.protected.price) > 0
<1>1. PendingAfter(lg, c) = CASE lg.active = {} -> {c}
                              [] against -> {}
                              [] better -> {c}
                              [] OTHER -> lg.pending
  BY DEF PendingAfter
<1>2. lg.active = {} => ~against /\ ~better
  OBVIOUS
<1>3. ~(against /\ better) \/ TRUE
  OBVIOUS
<1> HIDE DEF against, better
<1> QED BY <1>1, <1>2

Progresses(lg, new, n) ==
    /\ \/ new.active = lg.active /\ new.transitions = <<>>
       \/ \E leg \in LegType : \E kind \in {"ESTABLISHED", "PROTECTION_ADVANCED"} :
             /\ LegAt(leg, n)
             /\ new.active = {leg}
             /\ new.transitions = <<[type |-> kind, leg |-> leg]>>
    /\ new.close = lg.close /\ new.crosses = lg.crosses

LEMMA ProgressTyped ==
    ASSUME NEW j \in Nat, NEW n \in Nat \ {0}, NEW lg, LegTypes(lg, j, n), NEW bar \in Bar,
           NEW c, Known(c, j, n), lg.transitions = <<>>
    PROVE  /\ LegTypes(Progress(lg, c, bar, n), j, n)
           /\ Progresses(lg, Progress(lg, c, bar, n), n)
<1> DEFINE new == Progress(lg, c, bar, n)
           p == The(lg.pending).swing
           d == CHOOSE x \in Directions : Corrective[x] = The(lg.pending).label
           leg0 == The(lg.active)
           advanced == [leg0 EXCEPT !.protected = p, !.directional = c.swing, !.since = n]
           extreme == IF d = "UP" THEN Max({c.swing.price, bar.high})
                      ELSE Min({c.swing.price, bar.low})
           seed == [index |-> lg.legs + 1, direction |-> d, initial |-> p, protected |-> p,
                    directional |-> c.swing, established |-> n, since |-> n, now |-> n,
                    extreme |-> extreme, duration |-> 0, movement |-> 0, retracement |-> 0]
           leg == IF lg.active = {} THEN Measured(seed, bar, n) ELSE advanced
           kind == IF lg.active = {} THEN "ESTABLISHED" ELSE "PROTECTION_ADVANCED"
<1>1. lg = [active |-> lg.active, pending |-> lg.pending, segment |-> lg.segment,
             close |-> lg.close, ema |-> lg.ema, last |-> lg.last, legs |-> lg.legs,
             crosses |-> lg.crosses, transitions |-> lg.transitions]
  BY DEF LegTypes
<1>2. new = IF c.label \in {"HL", "LH"} THEN [lg EXCEPT !.pending = PendingAfter(lg, c)]
            ELSE IF ~Completes(lg, c, bar, n) THEN [lg EXCEPT !.pending = {}]
            ELSE [lg EXCEPT !.pending = {}, !.active = {leg}, !.legs = leg.index,
                     !.transitions = Append(@, [type |-> kind, leg |-> leg])]
  BY DEF Progress
<1> SUFFICES LegTypes(new, j, n) /\ Progresses(lg, new, n)
  OBVIOUS
<1> HIDE DEF new, leg, kind
<1>3. ASSUME NEW pending, pending \in Optional(ClassType),
             \A x \in pending : Known(x, j, n) /\ x.label \in {"HL", "LH"},
             new = [lg EXCEPT !.pending = pending]
      PROVE  LegTypes(new, j, n) /\ Progresses(lg, new, n)
  <2>1. new = [active |-> lg.active, pending |-> pending, segment |-> lg.segment,
             close |-> lg.close, ema |-> lg.ema, last |-> lg.last, legs |-> lg.legs,
             crosses |-> lg.crosses, transitions |-> lg.transitions]
    BY <1>1, <1>3
  <2> QED BY <1>3, <2>1 DEF LegTypes, Progresses
<1>4. CASE c.label \in {"HL", "LH"}
  <2>1. PendingAfter(lg, c) \in Optional(ClassType)
        /\ \A x \in PendingAfter(lg, c) : Known(x, j, n) /\ x.label \in {"HL", "LH"}
    BY <1>4, PendingTyped DEF LegTypes, Optional, Known
  <2> QED BY <1>2, <1>3, <1>4, <2>1
<1>5. CASE ~(c.label \in {"HL", "LH"}) /\ ~Completes(lg, c, bar, n)
  <2> DEFINE none == {}
  <2>1. /\ new = [lg EXCEPT !.pending = none] /\ none \in Optional(ClassType)
        /\ \A x \in none : Known(x, j, n) /\ x.label \in {"HL", "LH"}
    BY <1>2, <1>5 DEF Optional
  <2> HIDE DEF none
  <2> QED BY <1>3, <2>1
<1>6. CASE ~(c.label \in {"HL", "LH"}) /\ Completes(lg, c, bar, n)
  <2>1. PICK x \in lg.pending : TRUE
    BY <1>6 DEF Completes
  <2>2. lg.pending = {x} /\ x \in ClassType /\ Known(x, j, n) /\ x.label \in {"HL", "LH"}
    BY <2>1 DEF LegTypes, Optional
  <2>3. The(lg.pending) = x
    BY <2>2, TheOne
  <2>4. p \in SwingType /\ p.event \in 1..n /\ c.swing \in SwingType
    BY <2>2, <2>3 DEF Known, ClassType
  <2>5. d \in Directions
    BY <2>2, <2>3 DEF Corrective, Directions
  <2>6. extreme \in Int
    <3>1. c.swing.price \in Int /\ bar.high \in Int /\ bar.low \in Int
      BY <2>4 DEF SwingType, Bar
    <3> QED BY <3>1, MaxOfTwo, MinOfTwo
  <2>7. LegAt(leg, n) /\ leg \in LegType
    <3> HIDE DEF p, d, extreme
    <3>1. CASE lg.active = {}
      <4>1. seed \in LegType /\ seed.initial.event \in 1..n /\ seed.established <= n
        BY <2>4, <2>5, <2>6 DEF LegTypes, LegType
      <4> QED BY <3>1, <4>1, MeasuredTyped DEF leg, LegAt
    <3>2. ASSUME NEW y \in LegType, lg.active = {y} PROVE LegAt(leg, n) /\ leg \in LegType
      <4>1. leg0 = y /\ LegAt(y, n)
        BY <3>2, TheOne DEF LegTypes
      <4>2. leg = [y EXCEPT !.protected = p, !.directional = c.swing, !.since = n]
        BY <3>2, <4>1 DEF leg
      <4>3. leg \in LegType
        BY <2>4, <4>2 DEF LegType
      <4>4. leg.now = y.now /\ leg.initial = y.initial /\ leg.duration = y.duration
            /\ leg.established = y.established
        BY <4>2 DEF LegType
      <4> QED BY <4>1, <4>3, <4>4 DEF LegAt
    <3> QED BY <3>1, <3>2 DEF LegTypes, Optional
  <2>8. kind \in {"ESTABLISHED", "PROTECTION_ADVANCED"}
    BY DEF kind
  <2>9. new = [active |-> {leg}, pending |-> {}, segment |-> lg.segment,
             close |-> lg.close, ema |-> lg.ema, last |-> lg.last, legs |-> leg.index,
             crosses |-> lg.crosses, transitions |-> <<[type |-> kind, leg |-> leg]>>]
    <3> DEFINE moves == Append(lg.transitions, [type |-> kind, leg |-> leg])
               fields == {"active", "pending", "segment", "close", "ema", "last", "legs", "crosses",
                          "transitions"}
               made == [lg EXCEPT !.pending = {}, !.active = {leg}, !.legs = leg.index,
                          !.transitions = moves]
               whole == [active |-> {leg}, pending |-> {}, segment |-> lg.segment,
                         close |-> lg.close, ema |-> lg.ema, last |-> lg.last, legs |-> leg.index,
                         crosses |-> lg.crosses, transitions |-> moves]
    <3>1. moves = <<[type |-> kind, leg |-> leg]>>
      OBVIOUS
    <3> HIDE DEF moves
    <3>2. new = made
      BY <1>2, <1>6 DEF moves
    <3>3. DOMAIN lg = fields
      BY <1>1
    <3>4. made = [f \in fields |-> made[f]] /\ whole = [f \in fields |-> whole[f]]
      BY <3>3
    <3>5. /\ made.active = {leg} /\ made.pending = {} /\ made.segment = lg.segment
          /\ made.close = lg.close /\ made.ema = lg.ema /\ made.last = lg.last
          /\ made.legs = leg.index /\ made.crosses = lg.crosses /\ made.transitions = moves
      BY <3>3
    <3>6. /\ whole.active = {leg} /\ whole.pending = {} /\ whole.segment = lg.segment
          /\ whole.close = lg.close /\ whole.ema = lg.ema /\ whole.last = lg.last
          /\ whole.legs = leg.index /\ whole.crosses = lg.crosses /\ whole.transitions = moves
      OBVIOUS
    <3> HIDE DEF made, whole
    <3>7. \A f \in fields : made[f] = whole[f]
      BY <3>5, <3>6
    <3>8. made = whole
      BY <3>4, <3>7
    <3> QED BY <3>1, <3>2, <3>8 DEF whole
  <2>10. leg.index \in Nat
    BY <2>7 DEF LegType
  <2>11. LegTypes(new, j, n)
    BY <2>7, <2>9, <2>10 DEF LegTypes, Optional
  <2>12. new.active = {leg} /\ new.transitions = <<[type |-> kind, leg |-> leg]>>
         /\ new.close = lg.close /\ new.crosses = lg.crosses
    BY <2>9
  <2> QED BY <2>7, <2>8, <2>11, <2>12 DEF Progresses
<1> QED BY <1>4, <1>5, <1>6

\* What a bar does to the active leg.
Turns(old, new, bar, n) ==
    \/ Turned(old.active, new, bar, n)
    \/ Stands(old, new, bar, n)
    \/ \E leg \in LegType : \E kind \in {"ESTABLISHED", "PROTECTION_ADVANCED"} :
          /\ LegAt(leg, n)
          /\ new.active = {leg}
          /\ new.transitions = <<[type |-> kind, leg |-> leg]>>

\* The legs keep their types and end, found or advance at most one leg on a bar.
LEMMA LegUpdateTyped ==
    ASSUME NEW i \in Nat, NEW n \in Nat \ {0}, NEW lg, LegTypes(lg, i, n - 1), NEW bar \in Bar,
           NEW classified, NEW ema, Continues(classified, i),
           \A c \in classified : Known(c, i + 1, n)
    PROVE  /\ LegTypes(LegUpdate(lg, classified, ema, bar, n), After(classified, i), n)
           /\ Turns(lg, LegUpdate(lg, classified, ema, bar, n), bar, n)
           /\ LegUpdate(lg, classified, ema, bar, n).close = {bar.close}
           /\ LegUpdate(lg, classified, ema, bar, n).crosses = Crossing(lg, bar, ema)
<1> DEFINE new == LegUpdate(lg, classified, ema, bar, n)
           next == BeforeStructure(lg, classified, ema, bar, n)
           ended == EndedLegs(lg, bar, n)
           measured == MeasuredLegs(lg, bar, n)
           j == After(classified, i)
<1>1. new = IF ended # {} \/ classified = {} THEN next ELSE Progress(next, The(classified), bar, n)
  BY LegUpdateShape
<1>2. /\ LegTypes(next, j, n)
      /\ \/ ended # {} /\ Turned(lg.active, next, bar, n)
         \/ ended = {} /\ next.active = measured /\ next.transitions = <<>>
  <2>1. LegTypes(next, j, n)
    BY BeforeStructureTyped
  <2>2. ended # {} => Turned(lg.active, next, bar, n)
    BY BeforeStructureTyped
  <2>3. ended = {} => Stands(lg, next, bar, n)
    BY BeforeStructureTyped
  <2> HIDE DEF next, ended, j
  <2> QED BY <2>1, <2>2, <2>3 DEF Stands
<1>3. next.close = {bar.close} /\ next.crosses = Crossing(lg, bar, ema)
  BY DEF BeforeStructure
<1>4. j \in Nat
  BY DEF After
<1> SUFFICES /\ LegTypes(new, j, n)
             /\ Turns(lg, new, bar, n)
             /\ new.close = {bar.close} /\ new.crosses = Crossing(lg, bar, ema)
  OBVIOUS
<1> HIDE DEF new, next, ended, measured, j
<1>6. CASE ended # {} \/ classified = {}
  <2>1. new = next
    BY <1>1, <1>6
  <2> QED BY <1>2, <1>3, <2>1 DEF Turns, Stands, measured
<1>7. CASE ended = {} /\ classified # {}
  <2>1. PICK c \in ClassType : classified = {c} /\ Known(c, i + 1, n)
    BY <1>7 DEF Continues
  <2>2. new = Progress(next, c, bar, n) /\ j = i + 1
    BY <1>1, <1>7, <2>1, TheOne DEF j, After
  <2>3. next.transitions = <<>> /\ next.active = measured
    BY <1>2, <1>7
  <2>4. LegTypes(new, j, n) /\ Progresses(next, new, n)
    BY <1>2, <1>4, <2>1, <2>2, <2>3, ProgressTyped
  <2> QED BY <1>3, <2>3, <2>4 DEF Turns, Stands, Progresses, measured
<1> QED BY <1>6, <1>7

\* Qualification follows the active leg.
QualificationTypes(q, active) ==
    /\ \A leg \in active : \E a \in q.active : a.leg = leg
    /\ \A a \in q.active : a.leg \in active

\* The qualification follows the legs.
LEMMA QualificationTyped ==
    ASSUME NEW q, NEW lg, NEW n PROVE QualificationTypes(QualificationUpdate(q, lg, n), lg.active)
<1> DEFINE new == QualificationUpdate(q, lg, n)
           Sticky(leg) == \E a \in q.active : a.leg.index = leg.index /\ a.qualified
           earned == {leg \in lg.active : ~Sticky(leg) /\ Passes(leg)}
<1>1. new.active = {[leg |-> leg, qualified |-> Sticky(leg) \/ leg \in earned] : leg \in lg.active}
  BY DEF QualificationUpdate
<1> HIDE DEF new
<1>2. \A leg \in lg.active : \E a \in new.active : a.leg = leg
  <2>1. ASSUME NEW leg \in lg.active PROVE \E a \in new.active : a.leg = leg
    <3> DEFINE a == [leg |-> leg, qualified |-> Sticky(leg) \/ leg \in earned]
    <3>1. a \in new.active
      BY <1>1
    <3>2. a.leg = leg
      OBVIOUS
    <3> HIDE DEF a
    <3> QED BY <3>1, <3>2
  <2> QED BY <2>1
<1>3. \A a \in new.active : a.leg \in lg.active
  BY <1>1
<1> QED BY <1>2, <1>3 DEF QualificationTypes, new

\* What the legs publish is what the qualification accepts.
LEMMA LegsAreValid ==
    ASSUME NEW i \in Nat, NEW n \in Nat \ {0}, NEW old, LegTypes(old, i, n - 1), NEW bar \in Bar,
           NEW new, LegTypes(new, i, n) \/ LegTypes(new, i + 1, n),
           Turns(old, new, bar, n),
           NEW q, QualificationTypes(q, old.active)
    PROVE  ValidLegs(q, new, n)
<1> DEFINE ended == {k \in DOMAIN new.transitions : new.transitions[k].type = "TERMINATED"}
           Valid(leg) == leg.now = n /\ leg.duration >= 1 /\ leg.established <= n
<1>1. \A leg : LegAt(leg, n) => Valid(leg)
  <2> SUFFICES ASSUME NEW leg, LegAt(leg, n) PROVE Valid(leg)
    OBVIOUS
  <2>1. leg.initial.event \in 1..n /\ leg.duration = n - leg.initial.event + 1
    BY DEF LegAt
  <2> QED BY <2>1 DEF LegAt
<1>2. \A leg \in new.active : Valid(leg)
  BY <1>1 DEF LegTypes
<1> SUFFICES /\ Cardinality(ended) <= 1
             /\ ended # {} => new.active = {}
             /\ \A k \in DOMAIN new.transitions : Valid(new.transitions[k].leg)
             /\ \A k \in ended : \E a \in q.active : a.leg.index = new.transitions[k].leg.index
  BY <1>2 DEF ValidLegs
<1>3. ASSUME NEW leg \in old.active,
             new.active = {},
             new.transitions = <<[type |-> "TERMINATED", leg |-> Measured(leg, bar, n)]>>
      PROVE  /\ Cardinality(ended) <= 1
             /\ ended # {} => new.active = {}
             /\ \A k \in DOMAIN new.transitions : Valid(new.transitions[k].leg)
             /\ \A k \in ended : \E a \in q.active : a.leg.index = new.transitions[k].leg.index
  <2>1. DOMAIN new.transitions = {1} /\ ended = {1}
        /\ new.transitions[1].leg = Measured(leg, bar, n)
    BY <1>3
  <2>2. LegAt(leg, n - 1) /\ leg.established \in Nat /\ leg \in LegType
    BY DEF LegTypes, LegAt, LegType
  <2>3. leg.initial.event \in 1..n /\ leg.established <= n
    BY <2>2 DEF LegAt
  <2>4. LegAt(Measured(leg, bar, n), n) /\ Measured(leg, bar, n).index = leg.index
    BY <2>2, <2>3, MeasuredTyped
  <2>5. PICK a \in q.active : a.leg = leg
    BY DEF QualificationTypes
  <2>6. Cardinality({1}) = 1
    BY FS_Singleton
  <2>7. Valid(Measured(leg, bar, n))
    BY <1>1, <2>4
  <2>8. \A k \in DOMAIN new.transitions : Valid(new.transitions[k].leg)
    <3> HIDE DEF Valid, ended
    <3> QED BY <2>1, <2>7
  <2>9. \A k \in ended : \E x \in q.active : x.leg.index = new.transitions[k].leg.index
    <3> HIDE DEF Valid, ended
    <3> QED BY <2>1, <2>4, <2>5
  <2>10. Cardinality(ended) <= 1
    <3> HIDE DEF Valid, ended
    <3> QED BY <2>1, <2>6
  <2>11. ended # {} => new.active = {}
    BY <1>3
  <2> HIDE DEF Valid, ended
  <2> QED BY <2>8, <2>9, <2>10, <2>11
<1>4. CASE new.transitions = <<>>
  <2>1. ended = {} /\ DOMAIN new.transitions = {}
    BY <1>4
  <2>2. Cardinality({}) = 0
    BY FS_EmptySet
  <2> QED BY <2>1, <2>2
<1>5. ASSUME NEW leg \in LegType, NEW kind \in {"ESTABLISHED", "PROTECTION_ADVANCED"}, LegAt(leg, n),
             new.transitions = <<[type |-> kind, leg |-> leg]>>
      PROVE  /\ Cardinality(ended) <= 1
             /\ ended # {} => new.active = {}
             /\ \A k \in DOMAIN new.transitions : Valid(new.transitions[k].leg)
             /\ \A k \in ended : \E a \in q.active : a.leg.index = new.transitions[k].leg.index
  <2>1. DOMAIN new.transitions = {1} /\ new.transitions[1].leg = leg /\ ended = {}
    BY <1>5
  <2>2. Cardinality({}) = 0
    BY FS_EmptySet
  <2>3. Valid(leg)
    BY <1>1, <1>5
  <2>4. \A k \in DOMAIN new.transitions : Valid(new.transitions[k].leg)
    <3> HIDE DEF Valid
    <3> QED BY <2>1, <2>3
  <2> HIDE DEF Valid, ended
  <2> QED BY <2>1, <2>2, <2>4
<1>6. CASE Turned(old.active, new, bar, n)
  <2>1. PICK leg \in old.active :
          /\ new.active = {}
          /\ new.transitions = <<[type |-> "TERMINATED", leg |-> Measured(leg, bar, n)]>>
    BY <1>6 DEF Turned
  <2> HIDE DEF ended, Valid
  <2> QED BY <1>3, <2>1
<1>7. CASE \E leg \in LegType : \E kind \in {"ESTABLISHED", "PROTECTION_ADVANCED"} :
             /\ LegAt(leg, n)
             /\ new.active = {leg}
             /\ new.transitions = <<[type |-> kind, leg |-> leg]>>
  <2> HIDE DEF ended, Valid
  <2> QED BY <1>5, <1>7
<1> HIDE DEF ended, Valid
<1> QED BY <1>4, <1>6, <1>7 DEF Turns, Stands

-------------------------------------------------------------------------------
(* What a bar publishes.                                                   *)

\* An event of bar n: it is detected on it and not dated later, and a leg is
\* only said to have ended by a close through what protects it.
Told(x, bar, n) ==
    /\ x.event \in Nat /\ x.event <= n /\ x.detection = n
    /\ x.type = "TREND_LEG_ENDED" =>
         ClosesThrough(x.evidence.direction, bar, x.evidence.protected)

ValuesOf(s) == {s[k] : k \in DOMAIN s}

LEMMA JoinedValues ==
    ASSUME NEW S, NEW s \in Seq(S), NEW t \in Seq(S)
    PROVE  s \o t \in Seq(S) /\ \A k \in DOMAIN (s \o t) : (s \o t)[k] \in S
OBVIOUS

\* A part of what is published: at most one event.
LEMMA PartTold ==
    ASSUME NEW n, NEW bar, NEW s, s = <<>> \/ \E x : s = <<x>> /\ Told(x, bar, n)
    PROVE  s \in Seq(ValuesOf(s)) /\ \A x \in ValuesOf(s) : Told(x, bar, n)
<1>1. CASE s = <<>>
  BY <1>1 DEF ValuesOf
<1>2. ASSUME NEW x, s = <<x>>, Told(x, bar, n)
      PROVE  s \in Seq(ValuesOf(s)) /\ \A y \in ValuesOf(s) : Told(y, bar, n)
  <2>1. ValuesOf(s) = {x}
    BY <1>2 DEF ValuesOf
  <2>2. <<x>> \in Seq({x})
    OBVIOUS
  <2> QED BY <1>2, <2>1, <2>2
<1> QED BY <1>1, <1>2

TypesOfOthers ==
    {"SWING_POINT_CONFIRMED", "SWING_STRUCTURE_CLASSIFIED", "SWING_HIGH_CLOSE_BREAK",
     "SWING_LOW_CLOSE_BREAK", "EMA_CROSS", "TREND_LEG_QUALIFICATION_ENDED", "TREND_LEG_QUALIFIED"}

LEMMA OtherEvent ==
    ASSUME NEW n \in Nat, NEW bar, NEW type \in TypesOfOthers, NEW at \in Nat, at <= n, NEW evidence
    PROVE  Told(Event(type, at, n, evidence), bar, n)
BY DEF Told, Event, TypesOfOthers

LEMMA LegEventTold ==
    ASSUME NEW n \in Nat \ {0}, NEW old, NEW new, NEW bar,
           \A leg \in old.active : Measured(leg, bar, n) \in LegType,
           Turns(old, new, bar, n)
    PROVE  \A i \in DOMAIN new.transitions :
             Told(Event(LegEvent[new.transitions[i].type],
                        IF new.transitions[i].type = "ESTABLISHED"
                        THEN new.transitions[i].leg.initial.event ELSE n,
                        n, new.transitions[i].leg), bar, n)
<1> DEFINE E(t) == Event(LegEvent[t.type], IF t.type = "ESTABLISHED" THEN t.leg.initial.event ELSE n,
                         n, t.leg)
<1> SUFFICES ASSUME NEW i \in DOMAIN new.transitions PROVE Told(E(new.transitions[i]), bar, n)
  OBVIOUS
<1>1. CASE Turned(old.active, new, bar, n)
  <2>1. PICK leg \in old.active :
          /\ Ends(Measured(leg, bar, n), bar, n)
          /\ new.transitions = <<[type |-> "TERMINATED", leg |-> Measured(leg, bar, n)]>>
    BY <1>1 DEF Turned
  <2> DEFINE gone == Measured(leg, bar, n)
  <2> HIDE DEF gone
  <2>2. new.transitions[i] = [type |-> "TERMINATED", leg |-> gone] /\ Ends(gone, bar, n)
    BY <2>1 DEF gone
  <2>3. LegEvent["TERMINATED"] = "TREND_LEG_ENDED"
    BY DEF LegEvent
  <2>4. E(new.transitions[i]) = [type |-> "TREND_LEG_ENDED", event |-> n, detection |-> n,
                                 evidence |-> gone]
    BY <2>2, <2>3 DEF Event
  <2>5. ClosesThrough(gone.direction, bar, gone.protected)
    BY <2>2 DEF Ends
  <2> QED BY <2>4, <2>5 DEF Told
<1>2. CASE Stands(old, new, bar, n)
  BY <1>2 DEF Stands
<1>3. ASSUME NEW leg \in LegType, NEW kind \in {"ESTABLISHED", "PROTECTION_ADVANCED"}, LegAt(leg, n),
             new.transitions = <<[type |-> kind, leg |-> leg]>>
      PROVE  Told(E(new.transitions[i]), bar, n)
  <2>1. new.transitions[i] = [type |-> kind, leg |-> leg]
    BY <1>3
  <2>2. LegEvent[kind] # "TREND_LEG_ENDED"
    BY DEF LegEvent
  <2>3. leg.initial.event \in Nat /\ leg.initial.event <= n
    BY <1>3 DEF LegAt
  <2>4. E(new.transitions[i]) = [type |-> LegEvent[kind],
                                 event |-> IF kind = "ESTABLISHED" THEN leg.initial.event ELSE n,
                                 detection |-> n, evidence |-> leg]
    BY <2>1 DEF Event
  <2> QED BY <2>2, <2>3, <2>4 DEF Told
<1> HIDE DEF E
<1> QED BY <1>1, <1>2, <1>3 DEF Turns

AllTold(events, bar, n) ==
    \A i \in DOMAIN events : \E x : /\ events[i] = [event |-> x.event, ref |-> <<i, x>>]
                                   /\ Told(x, bar, n)

\* Every event of a bar is dated no later than the bar.
LEMMA EventsTold ==
    ASSUME NEW n \in Nat \ {0}, NEW old, NEW m, NEW bar,
           \A leg \in old.active : Measured(leg, bar, n) \in LegType,
           Turns(old, m.legs, bar, n),
           \A p \in CurrentSwings(m.swings, n) : p.event \in Nat /\ p.event <= n,
           \A c \in m.structure.classified : c.swing.event \in Nat /\ c.swing.event <= n
    PROVE  /\ Events(m, n) \in Seq(ValuesOf(Events(m, n)))
           /\ AllTold(Events(m, n), bar, n)
<1> DEFINE legEvents == [i \in DOMAIN m.legs.transitions |->
                      Event(LegEvent[m.legs.transitions[i].type],
                            IF m.legs.transitions[i].type = "ESTABLISHED"
                            THEN m.legs.transitions[i].leg.initial.event ELSE n,
                            n, m.legs.transitions[i].leg)]
           s1 == Each(CurrentSwings(m.swings, n),
                      LAMBDA p : Event("SWING_POINT_CONFIRMED", p.event, n, p))
           s2 == Each(m.structure.classified,
                      LAMBDA c : Event("SWING_STRUCTURE_CLASSIFIED", c.swing.event, n, c))
           s3 == Each({b \in m.structure.breaks : b.side = "HIGH"},
                      LAMBDA b : Event(BreakEvent.HIGH, n, n, b.swing))
           s4 == Each({b \in m.structure.breaks : b.side = "LOW"},
                      LAMBDA b : Event(BreakEvent.LOW, n, n, b.swing))
           s5 == Each(m.legs.crosses, LAMBDA d : Event("EMA_CROSS", n, n, [direction |-> d]))
           s7 == Each(m.qualification.ended,
                      LAMBDA e : Event("TREND_LEG_QUALIFICATION_ENDED", n, n, e))
           s8 == Each(m.qualification.earned, LAMBDA leg : Event("TREND_LEG_QUALIFIED", n, n, leg))
           listed == s1 \o s2 \o s3 \o s4 \o s5 \o legEvents \o s7 \o s8
<1>0. Events(m, n) = [i \in DOMAIN listed |-> [event |-> listed[i].event, ref |-> <<i, listed[i]>>]]
  BY DEF Events
<1>1. s1 = <<>> \/ \E x : s1 = <<x>> /\ Told(x, bar, n)
  <2>1. \A p \in CurrentSwings(m.swings, n) :
          Told(Event("SWING_POINT_CONFIRMED", p.event, n, p), bar, n)
    BY OtherEvent DEF TypesOfOthers
  <2> QED BY <2>1 DEF Each, The
<1>2. s2 = <<>> \/ \E x : s2 = <<x>> /\ Told(x, bar, n)
  <2>1. \A c \in m.structure.classified :
          Told(Event("SWING_STRUCTURE_CLASSIFIED", c.swing.event, n, c), bar, n)
    BY OtherEvent DEF TypesOfOthers
  <2> QED BY <2>1 DEF Each, The
<1>3. \A type \in TypesOfOthers : \A evidence : Told(Event(type, n, n, evidence), bar, n)
  BY OtherEvent
<1>4. BreakEvent.HIGH \in TypesOfOthers /\ BreakEvent.LOW \in TypesOfOthers
  BY DEF BreakEvent, TypesOfOthers
<1>5. s3 = <<>> \/ \E x : s3 = <<x>> /\ Told(x, bar, n)
  BY <1>3, <1>4 DEF Each
<1>6. s4 = <<>> \/ \E x : s4 = <<x>> /\ Told(x, bar, n)
  BY <1>3, <1>4 DEF Each
<1>7. s5 = <<>> \/ \E x : s5 = <<x>> /\ Told(x, bar, n)
  BY <1>3 DEF Each, TypesOfOthers
<1>8. s7 = <<>> \/ \E x : s7 = <<x>> /\ Told(x, bar, n)
  BY <1>3 DEF Each, TypesOfOthers
<1>9. s8 = <<>> \/ \E x : s8 = <<x>> /\ Told(x, bar, n)
  BY <1>3 DEF Each, TypesOfOthers
<1>10. legEvents = <<>> \/ \E x : legEvents = <<x>> /\ Told(x, bar, n)
  <2>1. \A i \in DOMAIN m.legs.transitions : Told(legEvents[i], bar, n)
    BY LegEventTold
  <2>2. m.legs.transitions = <<>> \/ \E t : m.legs.transitions = <<t>>
    BY DEF Turns, Turned, Stands
  <2>3. CASE m.legs.transitions = <<>>
    BY <2>3
  <2>4. ASSUME NEW t, m.legs.transitions = <<t>> PROVE \E x : legEvents = <<x>> /\ Told(x, bar, n)
    <3>1. DOMAIN m.legs.transitions = {1}
      BY <2>4
    <3>2. DOMAIN legEvents = {1}
      BY <3>1
    <3>3. legEvents = [i \in {1} |-> legEvents[1]]
      BY <3>1
    <3>4. Told(legEvents[1], bar, n)
      BY <2>1, <3>1
    <3> HIDE DEF legEvents
    <3>5. legEvents = <<legEvents[1]>>
      BY <3>3
    <3> QED BY <3>4, <3>5
  <2> QED BY <2>2, <2>3, <2>4
<1> HIDE DEF s1, s2, s3, s4, s5, legEvents, s7, s8
<1> DEFINE T == ValuesOf(s1) \cup ValuesOf(s2) \cup ValuesOf(s3) \cup ValuesOf(s4)
                \cup ValuesOf(s5) \cup ValuesOf(legEvents) \cup ValuesOf(s7) \cup ValuesOf(s8)
<1>11. \A x \in T : Told(x, bar, n)
  BY <1>1, <1>2, <1>5, <1>6, <1>7, <1>8, <1>9, <1>10, PartTold
<1>12. /\ s1 \in Seq(T) /\ s2 \in Seq(T) /\ s3 \in Seq(T) /\ s4 \in Seq(T)
       /\ s5 \in Seq(T) /\ legEvents \in Seq(T) /\ s7 \in Seq(T) /\ s8 \in Seq(T)
  <2>1. \A s : (s = <<>> \/ \E x : s = <<x>> /\ Told(x, bar, n)) => s \in Seq(ValuesOf(s))
    BY PartTold
  <2>2. \A s : s \in Seq(ValuesOf(s)) /\ ValuesOf(s) \subseteq T => s \in Seq(T)
    <3> HIDE DEF T
    <3> QED OBVIOUS
  <2> QED BY <1>1, <1>2, <1>5, <1>6, <1>7, <1>8, <1>9, <1>10, <2>1, <2>2
<1> HIDE DEF T
<1>13. listed \in Seq(T)
  BY <1>12, JoinedValues
<1> HIDE DEF listed
<1>14. \A k \in DOMAIN listed : listed[k] \in T
  BY <1>13
<1>15. DOMAIN listed = 1..Len(listed) /\ Len(listed) \in Nat
  BY <1>13
<1>16. Events(m, n) \in Seq(ValuesOf(Events(m, n)))
  <2>1. DOMAIN Events(m, n) = 1..Len(listed)
    BY <1>0, <1>15
  <2>2. \A k \in 1..Len(listed) : Events(m, n)[k] \in ValuesOf(Events(m, n))
    BY <2>1 DEF ValuesOf
  <2>3. Events(m, n) = [k \in 1..Len(listed) |-> Events(m, n)[k]]
    BY <1>0, <1>15
  <2> QED BY <1>15, <2>2, <2>3
<1>17. \A i \in DOMAIN Events(m, n) : \E x :
         /\ Events(m, n)[i] = [event |-> x.event, ref |-> <<i, x>>]
         /\ Told(x, bar, n)
  BY <1>0, <1>11, <1>14
<1> QED BY <1>16, <1>17 DEF AllTold

-------------------------------------------------------------------------------
(* The chain: what each component makes of a bar.                          *)

NextAtr(m, bar) == AtrUpdate(m.atr, bar)
NextSwings(m, bar) ==
    SwingUpdate(m.swings, bar, m.bars + 1,
                IF NextAtr(m, bar).value = {} THEN 0 ELSE The(NextAtr(m, bar).value))
NextStructure(m, bar) ==
    StructureUpdate(m.structure, CurrentSwings(NextSwings(m, bar), m.bars + 1), bar, m.bars + 1)
NextLegs(m, bar) ==
    LegUpdate(m.legs, NextStructure(m, bar).classified, EmaUpdate(m.ema, bar).value, bar, m.bars + 1)

Refused(m, bar) ==
    \/ \E p \in CurrentSwings(NextSwings(m, bar), m.bars + 1) :
          ~ValidSwing(p, m.structure.last, m.bars + 1)
    \/ \E c \in NextStructure(m, bar).classified :
          ~ValidClassification(c, m.legs.last, m.bars + 1)
    \/ ~ValidLegs(m.qualification, NextLegs(m, bar), m.bars + 1)

Made(m, bar) ==
    [bars |-> m.bars + 1, raised |-> FALSE, ema |-> EmaUpdate(m.ema, bar), atr |-> NextAtr(m, bar),
     swings |-> NextSwings(m, bar), structure |-> NextStructure(m, bar), legs |-> NextLegs(m, bar),
     qualification |-> QualificationUpdate(m.qualification, NextLegs(m, bar), m.bars + 1),
     range |-> RangeUpdate(m.range, bar, NextAtr(m, bar).range), events |-> <<>>]

LEMMA MarketUpdateShape ==
    ASSUME NEW m, NEW bar
    PROVE  MarketUpdate(m, bar) =
             IF Refused(m, bar) THEN [m EXCEPT !.raised = TRUE]
             ELSE [Made(m, bar) EXCEPT !.events = Events(Made(m, bar), m.bars + 1)]
BY DEF MarketUpdate, Refused, Made, NextLegs, NextStructure, NextSwings, NextAtr

MarketTypes(m) ==
    /\ m.bars \in Nat
    /\ m.raised = FALSE
    /\ AtrTypes(m.atr)
    /\ SwingTypes(m.swings, m.bars)
    /\ StructureTypes(m.structure, Len(m.swings.confirmed), m.bars)
    /\ LegTypes(m.legs, Len(m.swings.confirmed), m.bars)
    /\ QualificationTypes(m.qualification, m.legs.active)

\* A bar consumed.
Advanced(m, new, bar) ==
    /\ new.bars = m.bars + 1
    /\ new.ema = EmaUpdate(m.ema, bar)
    /\ new.atr = NextAtr(m, bar)
    /\ new.swings = NextSwings(m, bar)
    /\ new.structure = NextStructure(m, bar)
    /\ new.legs = NextLegs(m, bar)
    /\ new.qualification = QualificationUpdate(m.qualification, NextLegs(m, bar), m.bars + 1)
    /\ new.range = RangeUpdate(m.range, bar, NextAtr(m, bar).range)
    /\ new.events = Events(Made(m, bar), m.bars + 1)

LEMMA MarketAdvances ==
    ASSUME NEW m, NEW bar, ~Refused(m, bar)
    PROVE  Advanced(m, MarketUpdate(m, bar), bar) /\ MarketUpdate(m, bar).raised = FALSE
<1>1. MarketUpdate(m, bar) = [Made(m, bar) EXCEPT !.events = Events(Made(m, bar), m.bars + 1)]
  BY MarketUpdateShape
<1> QED BY <1>1 DEF Made, Advanced

\* What a bar makes of each component, and why no component refuses it.
LEMMA ChainTyped ==
    ASSUME NEW m, MarketTypes(m), NEW bar \in Bar
    PROVE  /\ ~Refused(m, bar)
           /\ AtrTypes(NextAtr(m, bar))
           /\ SwingTypes(NextSwings(m, bar), m.bars + 1)
           /\ StructureTypes(NextStructure(m, bar), Len(NextSwings(m, bar).confirmed), m.bars + 1)
           /\ LegTypes(NextLegs(m, bar), Len(NextSwings(m, bar).confirmed), m.bars + 1)
           /\ Turns(m.legs, NextLegs(m, bar), bar, m.bars + 1)
           /\ NextLegs(m, bar).close = {bar.close}
           /\ \A p \in CurrentSwings(NextSwings(m, bar), m.bars + 1) :
                p.event \in Nat /\ p.event <= m.bars + 1
           /\ \A c \in NextStructure(m, bar).classified :
                c.swing.event \in Nat /\ c.swing.event <= m.bars + 1
<1> DEFINE n == m.bars + 1
           i == Len(m.swings.confirmed)
           atr == IF NextAtr(m, bar).value = {} THEN 0 ELSE The(NextAtr(m, bar).value)
           sw == NextSwings(m, bar)
           st == NextStructure(m, bar)
           lg == NextLegs(m, bar)
           ema == EmaUpdate(m.ema, bar).value
           current == CurrentSwings(sw, n)
<1>1. n \in Nat \ {0} /\ n - 1 = m.bars /\ i \in Nat
  BY DEF MarketTypes, SwingTypes, Confirmed
<1>2. AtrTypes(NextAtr(m, bar))
  BY AtrUpdateTypes DEF MarketTypes, NextAtr
<1>3. atr \in Nat
  BY <1>2, TheOne DEF AtrTypes, Optional
<1>4. SwingTypes(m.swings, n - 1) /\ StructureTypes(m.structure, i, n - 1)
      /\ LegTypes(m.legs, i, n - 1) /\ Confirmed(m.swings.confirmed, n - 1)
  BY <1>1 DEF MarketTypes, SwingTypes
<1>5. sw = SwingUpdate(m.swings, bar, n, atr)
  BY DEF NextSwings
<1>6. st = StructureUpdate(m.structure, current, bar, n)
  BY DEF NextStructure
<1>7. lg = LegUpdate(m.legs, st.classified, ema, bar, n)
  BY DEF NextLegs
<1>8. Refused(m, bar) <=> \/ \E p \in current : ~ValidSwing(p, m.structure.last, n)
                          \/ \E c \in st.classified : ~ValidClassification(c, m.legs.last, n)
                          \/ ~ValidLegs(m.qualification, lg, n)
  BY DEF Refused
<1> SUFFICES /\ ~Refused(m, bar)
             /\ SwingTypes(sw, n)
             /\ StructureTypes(st, Len(sw.confirmed), n)
             /\ LegTypes(lg, Len(sw.confirmed), n)
             /\ Turns(m.legs, lg, bar, n)
             /\ lg.close = {bar.close}
             /\ \A p \in current : p.event \in Nat /\ p.event <= n
             /\ \A c \in st.classified : c.swing.event \in Nat /\ c.swing.event <= n
  BY <1>2
<1> HIDE DEF n, i, atr, sw, st, lg, ema, current
<1>9. SwingTypes(sw, n) /\ Confirms(m.swings.confirmed, sw.confirmed, n)
  BY <1>1, <1>3, <1>4, <1>5, SwingUpdateTyped
<1>10. /\ m.structure.last = i /\ m.legs.last = i
  BY <1>4 DEF StructureTypes, LegTypes
<1>11. \/ sw.confirmed = m.swings.confirmed /\ current = {}
       \/ \E p \in SwingType : /\ sw.confirmed = Append(m.swings.confirmed, p)
                               /\ current = {p}
                               /\ p.index = i + 1
                               /\ p.detection = n /\ p.event \in 1..(n - 1)
  BY <1>1, <1>4, <1>9, CurrentSwing DEF current, i
<1>12. Len(sw.confirmed) = IF current = {} THEN i ELSE i + 1
  <2> DEFINE S == m.swings.confirmed
  <2>1. S \in Seq(SwingType) /\ i = Len(S)
    BY <1>4 DEF Confirmed, i
  <2>2. \A p \in SwingType : Len(Append(S, p)) = Len(S) + 1
    <3> HIDE DEF S
    <3> QED BY <2>1
  <2>3. \/ sw.confirmed = S /\ current = {}
        \/ \E p \in SwingType : sw.confirmed = Append(S, p) /\ current = {p}
    BY <1>11
  <2> HIDE DEF S
  <2> QED BY <2>1, <2>2, <2>3
<1>13. \/ current = {}
       \/ \E p \in SwingType : /\ current = {p} /\ p.index = i + 1
                               /\ p.detection = n /\ p.event \in 1..(n - 1)
  BY <1>11
<1>14. /\ StructureTypes(st, IF current = {} THEN i ELSE i + 1, n)
       /\ Classifies(m.structure, st, current, n)
  BY <1>1, <1>4, <1>6, <1>13, StructureUpdateTyped
<1>15. \A p \in current : ValidSwing(p, i, n) /\ p.event \in Nat /\ p.event <= n
  BY <1>1, <1>13 DEF ValidSwing, SwingType
<1>16. \A c \in st.classified : ValidClassification(c, i, n)
  BY <1>10, <1>14 DEF Classifies
<1>17. Continues(st.classified, i) /\ (st.classified = {} <=> current = {})
       /\ \A c \in st.classified : c \in ClassType /\ c.swing \in current
  BY <1>13, <1>14 DEF Classifies, Continues
<1>18. \A c \in st.classified : Known(c, i + 1, n)
  BY <1>1, <1>13, <1>17 DEF Known
<1>19. \A c \in st.classified : c.swing.event \in Nat /\ c.swing.event <= n
  BY <1>15, <1>17
<1>20. /\ LegTypes(lg, After(st.classified, i), n)
       /\ Turns(m.legs, lg, bar, n)
       /\ lg.close = {bar.close}
  BY <1>1, <1>4, <1>7, <1>17, <1>18, LegUpdateTyped
<1>21. After(st.classified, i) = Len(sw.confirmed)
  BY <1>12, <1>17 DEF After
<1>22. LegTypes(lg, i, n) \/ LegTypes(lg, i + 1, n)
  BY <1>20 DEF After
<1>23. QualificationTypes(m.qualification, m.legs.active)
  BY DEF MarketTypes
<1>24. ValidLegs(m.qualification, lg, n)
  BY <1>1, <1>4, <1>20, <1>22, <1>23, LegsAreValid
<1> QED BY <1>8, <1>9, <1>10, <1>12, <1>14, <1>15, <1>16, <1>19, <1>20, <1>21, <1>24

\* What the detectors are given of a bar.
Publishes(m, bar) ==
    /\ m.legs.close = {bar.close}
    /\ AllTold(m.events, bar, m.bars)

\* No component of the chain refuses a bar, and each keeps its types.
LEMMA MarketUpdateTyped ==
    ASSUME NEW m, MarketTypes(m), NEW bar \in Bar
    PROVE  /\ MarketTypes(MarketUpdate(m, bar))
           /\ Advanced(m, MarketUpdate(m, bar), bar)
           /\ Publishes(MarketUpdate(m, bar), bar)
<1> DEFINE new == MarketUpdate(m, bar)
           n == m.bars + 1
           made == Made(m, bar)
<1>1. Advanced(m, new, bar) /\ new.raised = FALSE
  BY ChainTyped, MarketAdvances
<1> HIDE DEF new
<1>2. n \in Nat \ {0} /\ new.bars = n
  BY <1>1 DEF MarketTypes, Advanced
<1>3. MarketTypes(new)
  <2>1. /\ new.atr = NextAtr(m, bar) /\ new.swings = NextSwings(m, bar)
        /\ new.structure = NextStructure(m, bar) /\ new.legs = NextLegs(m, bar)
    BY <1>1 DEF Advanced
  <2>2. QualificationTypes(new.qualification, new.legs.active)
    BY <1>1, QualificationTyped DEF Advanced
  <2>3. /\ AtrTypes(new.atr) /\ SwingTypes(new.swings, n)
        /\ StructureTypes(new.structure, Len(new.swings.confirmed), n)
        /\ LegTypes(new.legs, Len(new.swings.confirmed), n)
    BY <2>1, ChainTyped
  <2> QED BY <1>1, <1>2, <2>2, <2>3 DEF MarketTypes
<1>4. Publishes(new, bar)
  <2>1. new.events = Events(made, n) /\ new.legs = NextLegs(m, bar)
    BY <1>1 DEF Advanced
  <2>2. /\ made.legs = NextLegs(m, bar) /\ made.swings = NextSwings(m, bar)
        /\ made.structure = NextStructure(m, bar)
    BY DEF Made
  <2> HIDE DEF made
  <2>3. Turns(m.legs, made.legs, bar, n) /\ NextLegs(m, bar).close = {bar.close}
    BY <2>2, ChainTyped
  <2>4. \A p \in CurrentSwings(made.swings, n) : p.event \in Nat /\ p.event <= n
    BY <2>2, ChainTyped
  <2>5. \A c \in made.structure.classified : c.swing.event \in Nat /\ c.swing.event <= n
    BY <2>2, ChainTyped
  <2>6. \A leg \in m.legs.active : Measured(leg, bar, n) \in LegType
    <3>1. ASSUME NEW leg \in m.legs.active PROVE Measured(leg, bar, n) \in LegType
      <4>1. LegAt(leg, m.bars) /\ m.bars = n - 1
        BY DEF MarketTypes, LegTypes
      <4>2. leg \in LegType /\ leg.initial.event \in 1..n /\ leg.established <= n
        BY <1>2, <4>1 DEF LegAt, LegType
      <4> QED BY <1>2, <4>2, MeasuredTyped DEF LegAt
    <3> QED BY <3>1
  <2> HIDE DEF n
  <2>7. AllTold(Events(made, n), bar, n)
    BY <1>2, <2>3, <2>4, <2>5, <2>6, EventsTold
  <2> QED BY <1>2, <2>1, <2>3, <2>7 DEF Publishes
<1> QED BY <1>1, <1>3, <1>4 DEF new

-------------------------------------------------------------------------------
(* The path the lifecycle runner derives.                                  *)

LEMMA LeastExists ==
    ASSUME NEW S, S \subseteq Nat, S # {} PROVE \E x \in S : \A y \in S : x <= y
<1> DEFINE Below == {0..x : x \in S}
           R == StrictSubsetOrdering(Nat)
<1>1. Below \subseteq FiniteSubsetsOf(Nat) /\ Below # {}
  <2>1. \A x \in S : 0..x \in FiniteSubsetsOf(Nat)
    <3> SUFFICES ASSUME NEW x \in S PROVE 0..x \in FiniteSubsetsOf(Nat)
      OBVIOUS
    <3>1. x \in Int /\ 0 \in Int /\ 0..x \subseteq Nat
      OBVIOUS
    <3>2. IsFiniteSet(0..x)
      BY <3>1, FS_Interval
    <3> QED BY <3>1, <3>2 DEF FiniteSubsetsOf
  <2> QED BY <2>1
<1>2. IsWellFoundedOn(R, FiniteSubsetsOf(Nat))
  BY FS_StrictSubsetOrderingWellFounded
<1>3. \A x, y \in S : y < x => <<0..y, 0..x>> \in R
  <2> SUFFICES ASSUME NEW x \in S, NEW y \in S, y < x PROVE <<0..y, 0..x>> \in R
    OBVIOUS
  <2>1. 0..y \subseteq 0..x /\ x \in 0..x /\ x \notin 0..y /\ 0..x \subseteq Nat
    OBVIOUS
  <2>2. 0..y # 0..x
    BY <2>1
  <2> QED BY <2>1, <2>2 DEF StrictSubsetOrdering
<1> HIDE DEF R
<1>4. PICK B \in Below : \A C \in Below : <<C, B>> \notin R
  <2> HIDE DEF Below
  <2> QED BY <1>1, <1>2, WFMin
<1>5. PICK x \in S : B = 0..x
  OBVIOUS
<1>6. \A y \in S : ~(y < x)
  BY <1>3, <1>4, <1>5
<1> QED BY <1>6

\* A walk that follows the rule is the one the runner takes.
Walk(d, start, evidence, w) ==
    w = [n \in 0 .. Len(d.edges) |->
           IF n = 0 THEN <<>>
           ELSE Extended(d, w[n - 1], Competing(d, start, w[n - 1], evidence))]

\* The path a runner finds is the walk along the first edges that fire.
LEMMA AdvanceIsWalk ==
    ASSUME NEW d, Len(d.edges) \in Nat, NEW start, NEW evidence, NEW w, Walk(d, start, evidence, w)
    PROVE  Advance(d, start, evidence) = w[Len(d.edges)]
<1> DEFINE L == Len(d.edges)
           Next1(path) == Extended(d, path, Competing(d, start, path, evidence))
           Follows(f) == f = [n \in 0 .. L |-> IF n = 0 THEN <<>> ELSE Next1(f[n - 1])]
           walk == CHOOSE f : Follows(f)
<1>1. Advance(d, start, evidence) = walk[L]
  BY DEF Advance
<1>2. Follows(w)
  BY DEF Walk
<1> HIDE DEF Next1
<1>3. Follows(walk)
  BY <1>2
<1> HIDE DEF walk
<1> DEFINE Wrong == {n \in 0..L : walk[n] # w[n]}
<1>4. CASE Wrong = {}
  BY <1>1, <1>4
<1>5. CASE Wrong # {}
  <2>1. PICK n \in Wrong : \A k \in Wrong : n <= k
    <3>1. Wrong \subseteq Nat
      OBVIOUS
    <3> HIDE DEF Wrong
    <3> QED BY <1>5, <3>1, LeastExists
  <2>2. n \in 0..L
    OBVIOUS
  <2>3. CASE n = 0
    <3>1. walk[0] = <<>> /\ w[0] = <<>>
      BY <1>2, <1>3
    <3> QED BY <2>3, <3>1
  <2>4. CASE n # 0
    <3>1. n - 1 \in 0..L /\ n - 1 < n
      BY <2>2, <2>4
    <3>2. walk[n - 1] = w[n - 1]
      BY <2>1, <3>1
    <3>3. walk[n] = Next1(walk[n - 1]) /\ w[n] = Next1(w[n - 1])
      BY <1>2, <1>3, <2>2, <2>4
    <3> QED BY <3>2, <3>3
  <2> QED BY <2>3, <2>4
<1> QED BY <1>4, <1>5

LEMMA SelectedOne ==
    ASSUME NEW d, NEW k \in Nat PROVE Selected(d, {k}) = k
BY DEF Selected

LEMMA AdvanceNone ==
    ASSUME NEW d, Len(d.edges) \in Nat, NEW start, NEW evidence,
           Competing(d, start, <<>>, evidence) = {}
    PROVE  Advance(d, start, evidence) = <<>>
<1> DEFINE w == [n \in 0 .. Len(d.edges) |-> <<>>]
<1>1. Extended(d, <<>>, Competing(d, start, <<>>, evidence)) = <<>>
  BY DEF Extended
<1>2. \A n \in 0 .. Len(d.edges) : n # 0 => w[n - 1] = <<>>
  OBVIOUS
<1>3. Walk(d, start, evidence, w)
  <2>1. w = [n \in 0 .. Len(d.edges) |->
               IF n = 0 THEN <<>>
               ELSE Extended(d, w[n - 1], Competing(d, start, w[n - 1], evidence))]
    BY <1>1, <1>2
  <2> HIDE DEF w
  <2> QED BY <2>1 DEF Walk
<1>4. w[Len(d.edges)] = <<>>
  OBVIOUS
<1> HIDE DEF w
<1> QED BY <1>3, <1>4, AdvanceIsWalk

LEMMA AdvanceOne ==
    ASSUME NEW d, Len(d.edges) \in Nat \ {0}, NEW start, NEW evidence, NEW k \in Nat,
           Competing(d, start, <<>>, evidence) = {k},
           Competing(d, start, <<d.edges[k]>>, evidence) = {}
    PROVE  Advance(d, start, evidence) = <<d.edges[k]>>
<1> DEFINE one == <<d.edges[k]>>
           w == [n \in 0 .. Len(d.edges) |-> IF n = 0 THEN <<>> ELSE one]
           Next1(path) == Extended(d, path, Competing(d, start, path, evidence))
<1>1. Next1(<<>>) = one
  BY SelectedOne DEF Extended
<1>2. Next1(one) = one
  BY DEF Extended
<1>3. Walk(d, start, evidence, w)
  <2> HIDE DEF one, Next1
  <2>1. w = [n \in 0 .. Len(d.edges) |-> IF n = 0 THEN <<>> ELSE Next1(w[n - 1])]
    BY <1>1, <1>2
  <2> HIDE DEF w
  <2> QED BY <2>1 DEF Walk, Next1
<1>4. w[Len(d.edges)] = one
  OBVIOUS
<1> HIDE DEF w
<1> QED BY <1>3, <1>4, AdvanceIsWalk

LEMMA AdvanceTwo ==
    ASSUME NEW d, Len(d.edges) \in Nat \ {0, 1}, NEW start, NEW evidence, NEW a, NEW b,
           Extended(d, <<>>, Competing(d, start, <<>>, evidence)) = <<a>>,
           Extended(d, <<a>>, Competing(d, start, <<a>>, evidence)) = <<a, b>>,
           Extended(d, <<a, b>>, Competing(d, start, <<a, b>>, evidence)) = <<a, b>>
    PROVE  Advance(d, start, evidence) = <<a, b>>
<1> DEFINE one == <<a>>
           two == <<a, b>>
           w == [n \in 0 .. Len(d.edges) |-> IF n = 0 THEN <<>> ELSE IF n = 1 THEN one ELSE two]
           Next1(path) == Extended(d, path, Competing(d, start, path, evidence))
<1>1. Next1(<<>>) = one /\ Next1(one) = two /\ Next1(two) = two
  OBVIOUS
<1>3. Walk(d, start, evidence, w)
  <2> HIDE DEF one, two, Next1
  <2>1. w = [n \in 0 .. Len(d.edges) |-> IF n = 0 THEN <<>> ELSE Next1(w[n - 1])]
    BY <1>1
  <2> HIDE DEF w
  <2> QED BY <2>1 DEF Walk, Next1
<1>4. w[Len(d.edges)] = two
  OBVIOUS
<1> HIDE DEF w
<1> QED BY <1>3, <1>4, AdvanceIsWalk

\* A definition whose edges out of a state are told apart by their triggers.
Plain(d) ==
    /\ Len(d.edges) \in Nat \ {0}
    /\ DOMAIN d.edges = 1..Len(d.edges)
    /\ \A i \in DOMAIN d.edges : /\ d.edges[i].from \notin d.terminal
                                 /\ d.edges[i].from # d.edges[i].to
                                 /\ d.edges[i].trigger \in d.conditions
    /\ \A i, j \in DOMAIN d.edges :
         d.edges[i].from = d.edges[j].from /\ d.edges[i].trigger = d.edges[j].trigger => i = j

LEMMA DerivesNone ==
    ASSUME NEW d, Plain(d), NEW start PROVE Derives(d, start, <<>>)
<1>1. {<<>>[i].trigger : i \in DOMAIN <<>>} = {}
  OBVIOUS
<1>2. Competing(d, start, <<>>, {}) = {}
  BY DEF Competing
<1>3. Advance(d, start, {}) = <<>>
  BY <1>2, AdvanceNone DEF Plain
<1> QED BY <1>1, <1>3 DEF Derives

LEMMA DerivesOne ==
    ASSUME NEW d, Plain(d), NEW k \in DOMAIN d.edges
    PROVE  Derives(d, d.edges[k].from, <<d.edges[k]>>)
<1> DEFINE e == d.edges[k]
           evidence == {e.trigger}
<1>1. {<<e>>[i].trigger : i \in DOMAIN <<e>>} = evidence
  <2>1. DOMAIN <<e>> = {1} /\ <<e>>[1] = e
    OBVIOUS
  <2> HIDE DEF e
  <2> QED BY <2>1
<1>2. Competing(d, e.from, <<>>, evidence) = {k}
  <2>1. StateAfter(e.from, <<>>) = e.from /\ DOMAIN <<>> = {}
    BY DEF StateAfter
  <2>2. {<<>>[i].to : i \in DOMAIN <<>>} = {} /\ {<<>>[i].trigger : i \in DOMAIN <<>>} = {}
    OBVIOUS
  <2>3. \A i \in DOMAIN d.edges :
          (/\ e.from \notin d.terminal /\ d.edges[i].from = e.from
           /\ d.edges[i].trigger \in evidence /\ d.edges[i].to # e.from) <=> i = k
    BY DEF Plain
  <2>4. \A i : i \in Competing(d, e.from, <<>>, evidence) <=>
          /\ i \in DOMAIN d.edges
          /\ e.from \notin d.terminal /\ d.edges[i].from = e.from
          /\ d.edges[i].trigger \in evidence /\ d.edges[i].to # e.from
    <3> HIDE DEF e, evidence
    <3> QED BY <2>1, <2>2 DEF Competing
  <2> HIDE DEF e, evidence
  <2> QED BY <2>3, <2>4
<1>3. Competing(d, e.from, <<e>>, evidence) = {}
  <2>1. {<<e>>[i].trigger : i \in DOMAIN <<e>>} = evidence
    BY <1>1
  <2>2. evidence \ {<<e>>[i].trigger : i \in DOMAIN <<e>>} = {}
    BY <2>1
  <2> HIDE DEF e, evidence
  <2> QED BY <2>2 DEF Competing
<1>4. Advance(d, e.from, evidence) = <<e>>
  <2>1. k \in Nat /\ Len(d.edges) \in Nat \ {0}
    BY DEF Plain
  <2> QED BY <1>2, <1>3, <2>1, AdvanceOne
<1>5. evidence \subseteq d.conditions
  BY DEF Plain
<1> HIDE DEF e, evidence
<1> QED BY <1>1, <1>4, <1>5 DEF Derives, e

LEMMA ReversalPlain == Plain(ReversalPattern) /\ DOMAIN ReversalPattern.edges = 1..4
<1> DEFINE edges == <<Edge("INACTIVE", "CANDIDATE", "opposing_ema_cross"),
               Edge("CANDIDATE", "CONFIRMED", "protected_swing_break"),
               Edge("CANDIDATE", "INVALIDATED", "same_direction_extreme"),
               Edge("CANDIDATE", "EXPIRED", "candidate_age_limit")>>
<1>1. ReversalPattern.edges = edges
  BY DEF ReversalPattern
<1>2. ReversalPattern.terminal = {"CONFIRMED", "INVALIDATED", "EXPIRED"}
  BY DEF ReversalPattern
<1>3. ReversalPattern.conditions = {"opposing_ema_cross", "protected_swing_break",
        "same_direction_extreme", "candidate_age_limit"}
  BY DEF ReversalPattern
<1>4. Len(edges) = 4 /\ DOMAIN edges = 1..4
  OBVIOUS
<1>5. /\ edges[1] = [from |-> "INACTIVE", to |-> "CANDIDATE", trigger |-> "opposing_ema_cross"]
      /\ edges[2] = [from |-> "CANDIDATE", to |-> "CONFIRMED", trigger |-> "protected_swing_break"]
      /\ edges[3] = [from |-> "CANDIDATE", to |-> "INVALIDATED", trigger |-> "same_direction_extreme"]
      /\ edges[4] = [from |-> "CANDIDATE", to |-> "EXPIRED", trigger |-> "candidate_age_limit"]
  BY DEF Edge
<1> HIDE DEF edges
<1>6. \A i \in 1..4 : i = 1 \/ i = 2 \/ i = 3 \/ i = 4
  OBVIOUS
<1> QED BY <1>1, <1>2, <1>3, <1>4, <1>5, <1>6 DEF Plain

LEMMA CompressionPlain == Plain(CompressionPattern) /\ DOMAIN CompressionPattern.edges = 1..4
<1> DEFINE edges == <<Edge("INACTIVE", "CANDIDATE", "compression_entry"),
               Edge("CANDIDATE", "ACTIVE", "persistence_confirmed"),
               Edge("CANDIDATE", "INVALIDATED", "candidate_interrupted"),
               Edge("ACTIVE", "COMPLETED", "compression_released")>>
<1>1. CompressionPattern.edges = edges
  BY DEF CompressionPattern
<1>2. CompressionPattern.terminal = {"INVALIDATED", "COMPLETED"}
  BY DEF CompressionPattern
<1>3. CompressionPattern.conditions = {"compression_entry", "persistence_confirmed",
        "candidate_interrupted", "compression_released"}
  BY DEF CompressionPattern
<1>4. Len(edges) = 4 /\ DOMAIN edges = 1..4
  OBVIOUS
<1>5. /\ edges[1] = [from |-> "INACTIVE", to |-> "CANDIDATE", trigger |-> "compression_entry"]
      /\ edges[2] = [from |-> "CANDIDATE", to |-> "ACTIVE", trigger |-> "persistence_confirmed"]
      /\ edges[3] = [from |-> "CANDIDATE", to |-> "INVALIDATED", trigger |-> "candidate_interrupted"]
      /\ edges[4] = [from |-> "ACTIVE", to |-> "COMPLETED", trigger |-> "compression_released"]
  BY DEF Edge
<1> HIDE DEF edges
<1>6. \A i \in 1..4 : i = 1 \/ i = 2 \/ i = 3 \/ i = 4
  OBVIOUS
<1> QED BY <1>1, <1>2, <1>3, <1>4, <1>5, <1>6 DEF Plain

ContinuationEdge ==
    [from : {"INACTIVE", "CANDIDATE", "RECLAIMED"},
     to : {"CANDIDATE", "RECLAIMED", "INVALIDATED", "CONFIRMED", "EXPIRED"},
     trigger : {"opposing_ema_cross", "ema_reclaim", "protected_swing_break", "continuation_break",
                "candidate_age_limit"}]

LEMMA ContinuationEdges ==
    /\ DOMAIN ContinuationPattern.edges = 1..7 /\ Len(ContinuationPattern.edges) = 7
    /\ ContinuationPattern.edges[1] =
         [from |-> "INACTIVE", to |-> "CANDIDATE", trigger |-> "opposing_ema_cross"]
    /\ ContinuationPattern.edges[2] =
         [from |-> "CANDIDATE", to |-> "RECLAIMED", trigger |-> "ema_reclaim"]
    /\ ContinuationPattern.edges[3] =
         [from |-> "CANDIDATE", to |-> "INVALIDATED", trigger |-> "protected_swing_break"]
    /\ ContinuationPattern.edges[4] =
         [from |-> "RECLAIMED", to |-> "INVALIDATED", trigger |-> "protected_swing_break"]
    /\ ContinuationPattern.edges[5] =
         [from |-> "RECLAIMED", to |-> "CONFIRMED", trigger |-> "continuation_break"]
    /\ ContinuationPattern.edges[6] =
         [from |-> "CANDIDATE", to |-> "EXPIRED", trigger |-> "candidate_age_limit"]
    /\ ContinuationPattern.edges[7] =
         [from |-> "RECLAIMED", to |-> "EXPIRED", trigger |-> "candidate_age_limit"]
<1> DEFINE edges == <<Edge("INACTIVE", "CANDIDATE", "opposing_ema_cross"),
               Edge("CANDIDATE", "RECLAIMED", "ema_reclaim"),
               Edge("CANDIDATE", "INVALIDATED", "protected_swing_break"),
               Edge("RECLAIMED", "INVALIDATED", "protected_swing_break"),
               Edge("RECLAIMED", "CONFIRMED", "continuation_break"),
               Edge("CANDIDATE", "EXPIRED", "candidate_age_limit"),
               Edge("RECLAIMED", "EXPIRED", "candidate_age_limit")>>
<1>1. ContinuationPattern.edges = edges
  BY DEF ContinuationPattern
<1>2. Len(edges) = 7 /\ DOMAIN edges = 1..7
  OBVIOUS
<1>3. /\ edges[1] = Edge("INACTIVE", "CANDIDATE", "opposing_ema_cross")
      /\ edges[2] = Edge("CANDIDATE", "RECLAIMED", "ema_reclaim")
      /\ edges[3] = Edge("CANDIDATE", "INVALIDATED", "protected_swing_break")
      /\ edges[4] = Edge("RECLAIMED", "INVALIDATED", "protected_swing_break")
      /\ edges[5] = Edge("RECLAIMED", "CONFIRMED", "continuation_break")
      /\ edges[6] = Edge("CANDIDATE", "EXPIRED", "candidate_age_limit")
      /\ edges[7] = Edge("RECLAIMED", "EXPIRED", "candidate_age_limit")
  OBVIOUS
<1> HIDE DEF edges
<1> QED BY <1>1, <1>2, <1>3 DEF Edge

LEMMA ContinuationPlain == Plain(ContinuationPattern)
<1>1. ContinuationPattern.terminal = {"CONFIRMED", "INVALIDATED", "EXPIRED"}
  BY DEF ContinuationPattern
<1>2. ContinuationPattern.conditions = {"opposing_ema_cross", "ema_reclaim",
        "protected_swing_break", "continuation_break", "candidate_age_limit"}
  BY DEF ContinuationPattern
<1>3. \A i \in 1..7 : i = 1 \/ i = 2 \/ i = 3 \/ i = 4 \/ i = 5 \/ i = 6 \/ i = 7
  OBVIOUS
<1> QED BY <1>1, <1>2, <1>3, ContinuationEdges DEF Plain

LEMMA AppendTwo == ASSUME NEW x, NEW y PROVE Append(<<x>>, y) = <<x, y>>
<1> DEFINE s == Append(<<x>>, y)
           t == <<x, y>>
<1>1. <<x>> \in Seq({x, y})
  OBVIOUS
<1>2. s \in Seq({x, y}) /\ Len(s) = 2 /\ s[1] = x /\ s[2] = y
  BY <1>1
<1>3. t \in Seq({x, y}) /\ Len(t) = 2 /\ t[1] = x /\ t[2] = y
  OBVIOUS
<1> HIDE DEF s, t
<1>4. \A i \in 1..2 : s[i] = t[i]
  BY <1>2, <1>3
<1>5. s = [i \in 1..2 |-> s[i]] /\ t = [i \in 1..2 |-> t[i]]
  BY <1>2, <1>3
<1>6. s = t
  BY <1>4, <1>5
<1> QED BY <1>6 DEF s, t

\* A reclaim may be followed on its own bar: by the break, or by the age.
LEMMA DerivesTwo ==
    ASSUME NEW k \in {5, 7}
    PROVE  Derives(ContinuationPattern, "CANDIDATE",
                   <<ContinuationPattern.edges[2], ContinuationPattern.edges[k]>>)
<1> DEFINE d == ContinuationPattern
           a == d.edges[2]
           b == d.edges[k]
           evidence == {a.trigger, b.trigger}
<1>1. /\ a.from = "CANDIDATE" /\ a.to = "RECLAIMED" /\ a.trigger = "ema_reclaim"
      /\ b.from = "RECLAIMED" /\ b.to \in d.terminal
      /\ b.to \in {"CONFIRMED", "EXPIRED"}
      /\ b.trigger = IF k = 5 THEN "continuation_break" ELSE "candidate_age_limit"
  <2>1. d.terminal = {"CONFIRMED", "INVALIDATED", "EXPIRED"}
    BY DEF ContinuationPattern
  <2> QED BY <2>1, ContinuationEdges
<1>2. d.terminal = {"CONFIRMED", "INVALIDATED", "EXPIRED"}
  BY DEF ContinuationPattern
<1>3. d.precedence = <<"protected_swing_break", "ema_reclaim", "continuation_break",
                       "candidate_age_limit">>
  BY DEF ContinuationPattern
<1>4. d.chains = {<<"ema_reclaim", "continuation_break">>, <<"ema_reclaim", "candidate_age_limit">>}
  BY DEF ContinuationPattern
<1>5. \A i \in 1..7 : i = 1 \/ i = 2 \/ i = 3 \/ i = 4 \/ i = 5 \/ i = 6 \/ i = 7
  OBVIOUS
<1>6. Competing(d, "CANDIDATE", <<>>, evidence) = IF k = 5 THEN {2} ELSE {2, 6}
  <2>1. StateAfter("CANDIDATE", <<>>) = "CANDIDATE"
    BY DEF StateAfter
  <2>2. {<<>>[i].to : i \in DOMAIN <<>>} = {} /\ {<<>>[i].trigger : i \in DOMAIN <<>>} = {}
    OBVIOUS
  <2>3. \A i : i \in Competing(d, "CANDIDATE", <<>>, evidence) <=>
          /\ i \in DOMAIN d.edges
          /\ "CANDIDATE" \notin d.terminal /\ d.edges[i].from = "CANDIDATE"
          /\ d.edges[i].trigger \in evidence /\ d.edges[i].to # "CANDIDATE"
    <3> HIDE DEF d, a, b, evidence
    <3> QED BY <2>1, <2>2 DEF Competing
  <2>4. \A i \in 1..7 :
          (/\ "CANDIDATE" \notin d.terminal /\ d.edges[i].from = "CANDIDATE"
           /\ d.edges[i].trigger \in evidence /\ d.edges[i].to # "CANDIDATE")
          <=> IF k = 5 THEN i = 2 ELSE i \in {2, 6}
    BY <1>1, <1>2, <1>5, ContinuationEdges
  <2>5. DOMAIN d.edges = 1..7
    BY ContinuationEdges
  <2> HIDE DEF d, a, b, evidence
  <2>6. \A i : i \in Competing(d, "CANDIDATE", <<>>, evidence) <=> IF k = 5 THEN i = 2 ELSE i \in {2, 6}
    BY <2>3, <2>4, <2>5
  <2> QED BY <2>6
<1>7. Extended(d, <<>>, Competing(d, "CANDIDATE", <<>>, evidence)) = <<a>>
  <2>1. Selected(d, {2}) = 2
    BY SelectedOne
  <2>2. Selected(d, {2, 6}) = 2
    <3>1. Rank(d, "ema_reclaim") = 2 /\ Rank(d, "candidate_age_limit") = 4
      <4> DEFINE p == <<"protected_swing_break", "ema_reclaim", "continuation_break",
                        "candidate_age_limit">>
      <4>1. DOMAIN p = 1..4 /\ p[1] = "protected_swing_break" /\ p[2] = "ema_reclaim"
            /\ p[3] = "continuation_break" /\ p[4] = "candidate_age_limit"
        OBVIOUS
      <4>2. \A i \in 1..4 : i = 1 \/ i = 2 \/ i = 3 \/ i = 4
        OBVIOUS
      <4>3. d.precedence = p
        BY <1>3
      <4> HIDE DEF p, d
      <4> QED BY <4>1, <4>2, <4>3 DEF Rank
    <3>2. d.edges[2].trigger = "ema_reclaim" /\ d.edges[6].trigger = "candidate_age_limit"
      BY ContinuationEdges
    <3> HIDE DEF d
    <3> QED BY <3>1, <3>2 DEF Selected
  <2>3. Append(<<>>, a) = <<a>>
    OBVIOUS
  <2>4. Selected(d, Competing(d, "CANDIDATE", <<>>, evidence)) = 2
        /\ Competing(d, "CANDIDATE", <<>>, evidence) # {}
    <3> HIDE DEF d, evidence
    <3> QED BY <1>6, <2>1, <2>2
  <2> HIDE DEF evidence
  <2>5. Extended(d, <<>>, Competing(d, "CANDIDATE", <<>>, evidence)) = Append(<<>>, d.edges[2])
    BY <2>4 DEF Extended
  <2> QED BY <2>3, <2>5
<1>8. Extended(d, <<a>>, Competing(d, "CANDIDATE", <<a>>, evidence)) = <<a, b>>
  <2>1. Competing(d, "CANDIDATE", <<a>>, evidence) = {k}
    <3>1. /\ StateAfter("CANDIDATE", <<a>>) = "RECLAIMED"
          /\ DOMAIN <<a>> = {1} /\ <<a>>[1] = a /\ <<a>> # <<>> /\ <<a>>[Len(<<a>>)] = a
      BY <1>1 DEF StateAfter
    <3>2. {<<a>>[i].to : i \in DOMAIN <<a>>} = {"RECLAIMED"}
          /\ {<<a>>[i].trigger : i \in DOMAIN <<a>>} = {"ema_reclaim"}
      <4> HIDE DEF a
      <4> QED BY <1>1, <3>1
    <3>3. \A i : i \in Competing(d, "CANDIDATE", <<a>>, evidence) <=>
            /\ i \in DOMAIN d.edges
            /\ "RECLAIMED" \notin d.terminal /\ d.edges[i].from = "RECLAIMED"
            /\ d.edges[i].trigger \in evidence \ {"ema_reclaim"}
            /\ d.edges[i].to \notin {"CANDIDATE"} \cup {"RECLAIMED"}
            /\ <<"ema_reclaim", d.edges[i].trigger>> \in d.chains
      <4>1. a.trigger = "ema_reclaim"
        BY <1>1
      <4> HIDE DEF d, a, b, evidence
      <4> QED BY <3>1, <3>2, <4>1 DEF Competing
    <3>4. \A i \in 1..7 :
            (/\ "RECLAIMED" \notin d.terminal /\ d.edges[i].from = "RECLAIMED"
             /\ d.edges[i].trigger \in evidence \ {"ema_reclaim"}
             /\ d.edges[i].to \notin {"CANDIDATE"} \cup {"RECLAIMED"}
             /\ <<"ema_reclaim", d.edges[i].trigger>> \in d.chains)
            <=> i = k
      BY <1>1, <1>2, <1>4, <1>5, ContinuationEdges
    <3>5. DOMAIN d.edges = 1..7 /\ k \in 1..7
      BY ContinuationEdges
    <3> HIDE DEF d, a, b, evidence
    <3>6. \A i : i \in Competing(d, "CANDIDATE", <<a>>, evidence) <=> i = k
      BY <3>3, <3>4, <3>5
    <3> QED BY <3>6
  <2>2. Selected(d, {k}) = k
    BY SelectedOne
  <2>3. Append(<<a>>, b) = <<a, b>>
    BY AppendTwo
  <2> HIDE DEF evidence, a
  <2> QED BY <2>1, <2>2, <2>3 DEF Extended
<1>9. Extended(d, <<a, b>>, Competing(d, "CANDIDATE", <<a, b>>, evidence)) = <<a, b>>
  <2>1. StateAfter("CANDIDATE", <<a, b>>) = b.to
    BY DEF StateAfter
  <2>2. Competing(d, "CANDIDATE", <<a, b>>, evidence) = {}
    <3> HIDE DEF d, a, b, evidence
    <3> QED BY <1>1, <2>1 DEF Competing
  <2> QED BY <2>2 DEF Extended
<1>10. Advance(d, "CANDIDATE", evidence) = <<a, b>>
  <2>1. Len(d.edges) \in Nat \ {0, 1}
    BY ContinuationEdges
  <2> QED BY <1>7, <1>8, <1>9, <2>1, AdvanceTwo
<1>11. {<<a, b>>[i].trigger : i \in DOMAIN <<a, b>>} = evidence
  <2>1. DOMAIN <<a, b>> = {1, 2} /\ <<a, b>>[1] = a /\ <<a, b>>[2] = b
    OBVIOUS
  <2> HIDE DEF a, b
  <2> QED BY <2>1
<1>12. evidence \subseteq d.conditions
  BY <1>1 DEF ContinuationPattern
<1> HIDE DEF a, b, evidence, d
<1> QED BY <1>10, <1>11, <1>12 DEF Derives, a, b, d

-------------------------------------------------------------------------------
(* What the runtime accepts.                                               *)

\* At most two intents, as a sequence.
Short(intents) == \E k \in 0..2 : DOMAIN intents = 1..k

Accepts(d, rt, s, slot, out, seen, refs, now) ==
    Accepted(d, rt, s, slot, out, seen, refs, now) /\ Short(out.intents)

\* A detector that proposes nothing is accepted.
LEMMA AcceptsUnmoved ==
    ASSUME NEW d, Plain(d), NEW rt, NEW s, NEW slot, NEW out, NEW seen, NEW refs, NEW now,
           ~out.raised, out.ordinal = slot.ordinal, out.intents = <<>>, out.state = slot.state
    PROVE  Accepts(d, rt, s, slot, out, seen, refs, now)
<1>1. DOMAIN out.intents = {}
  OBVIOUS
<1>2. [i \in DOMAIN out.intents |-> out.intents[i].edge] = <<>>
  BY <1>1
<1>3. Derives(d, slot.state, <<>>) /\ StateAfter(slot.state, <<>>) = slot.state
  BY DerivesNone DEF StateAfter
<1>4. Short(out.intents)
  <2>1. 1..0 = {} /\ 0 \in 0..2
    OBVIOUS
  <2> QED BY <1>1, <2>1 DEF Short
<1> QED BY <1>1, <1>2, <1>3, <1>4 DEF Accepts, Accepted

\* An intent the runtime would take alone.
Takes(d, rt, s, slot, intent, seen, refs, now) ==
    /\ intent.ordinal = slot.ordinal
    /\ intent.edge \in Edges(d)
    /\ intent.cites \subseteq refs
    /\ intent.detection = now
    /\ intent.event <= now
    /\ intent.event # now => intent.event \in seen \cup OwnTimes(rt, s, slot.ordinal)

\* The intent takes the k-th edge of the pattern.
TakesEdge(d, k, rt, s, slot, intent, seen, refs, now) ==
    /\ Takes(d, rt, s, slot, intent, seen, refs, now)
    /\ intent.edge = d.edges[k]

\* A detector that proposes the one edge its state leaves by is accepted.
LEMMA AcceptsOne ==
    ASSUME NEW d, Plain(d), NEW rt, NEW s, NEW slot, NEW out, NEW seen, NEW refs, NEW now,
           NEW k \in DOMAIN d.edges, d.edges[k].from = slot.state,
           NEW intent, TakesEdge(d, k, rt, s, slot, intent, seen, refs, now),
           ~out.raised, out.ordinal = slot.ordinal, out.intents = <<intent>>,
           out.state = d.edges[k].to
    PROVE  Accepts(d, rt, s, slot, out, seen, refs, now)
<1>1. DOMAIN out.intents = {1} /\ out.intents[1] = intent
  OBVIOUS
<1>2. [i \in DOMAIN out.intents |-> out.intents[i].edge] = <<d.edges[k]>>
  BY <1>1 DEF TakesEdge
<1>3. StateAfter(slot.state, <<d.edges[k]>>) = d.edges[k].to
  BY DEF StateAfter
<1>4. Derives(d, slot.state, <<d.edges[k]>>)
  BY DerivesOne
<1>5. \A j \in 1 .. 1 - 1 : FALSE
  OBVIOUS
<1>6. Short(out.intents)
  <2>1. 1..1 = {1} /\ 1 \in 0..2
    OBVIOUS
  <2> QED BY <1>1, <2>1 DEF Short
<1> QED BY <1>1, <1>2, <1>3, <1>4, <1>5, <1>6 DEF Accepts, Accepted, Takes, TakesEdge

\* So is a reclaim followed on its own bar.
LEMMA AcceptsTwo ==
    ASSUME NEW rt, NEW s, NEW slot, NEW out, NEW seen, NEW refs, NEW now,
           slot.state = "CANDIDATE", NEW k \in {5, 7},
           NEW a, TakesEdge(ContinuationPattern, 2, rt, s, slot, a, seen, refs, now),
           NEW b, TakesEdge(ContinuationPattern, k, rt, s, slot, b, seen, refs, now),
           ~out.raised, out.ordinal = slot.ordinal, out.intents = <<a, b>>,
           out.state = ContinuationPattern.edges[k].to
    PROVE  Accepts(ContinuationPattern, rt, s, slot, out, seen, refs, now)
<1> DEFINE d == ContinuationPattern
           edges == [i \in DOMAIN out.intents |-> out.intents[i].edge]
<1>0. a.edge = d.edges[2] /\ b.edge = d.edges[k]
  BY DEF TakesEdge
<1>1. DOMAIN out.intents = {1, 2} /\ out.intents[1] = a /\ out.intents[2] = b
  OBVIOUS
<1>2. edges = <<d.edges[2], d.edges[k]>>
  <2> HIDE DEF d
  <2>1. edges = [i \in {1, 2} |-> IF i = 1 THEN d.edges[2] ELSE d.edges[k]]
    BY <1>0, <1>1 DEF d
  <2> HIDE DEF edges
  <2>2. {1, 2} = 1..2
    OBVIOUS
  <2> QED BY <2>1, <2>2
<1>3. StateAfter(slot.state, <<d.edges[2], d.edges[k]>>) = d.edges[k].to
  <2> HIDE DEF d
  <2> QED BY DEF StateAfter
<1>4. Derives(d, slot.state, <<d.edges[2], d.edges[k]>>)
  BY DerivesTwo
<1>5. a.edge.trigger # b.edge.trigger
  BY <1>0, ContinuationEdges
<1>6. (\A j \in 1 .. 1 - 1 : FALSE) /\ \A j \in 1 .. 2 - 1 : j = 1
  OBVIOUS
<1>7. \A i \in DOMAIN out.intents : \A j \in 1 .. i - 1 :
        out.intents[j].edge.trigger # out.intents[i].edge.trigger
  BY <1>1, <1>5, <1>6
<1>8. Derives(d, slot.state, edges) /\ out.state = StateAfter(slot.state, edges)
  BY <1>2, <1>3, <1>4
<1> HIDE DEF d
<1>9. \A i \in DOMAIN out.intents :
        Takes(d, rt, s, slot, out.intents[i], seen, refs, now)
  BY <1>1 DEF d, TakesEdge
<1>10. Short(out.intents)
  <2>1. 1..2 = {1, 2} /\ 2 \in 0..2
    OBVIOUS
  <2> QED BY <1>1, <2>1 DEF Short
<1> HIDE DEF edges
<1> QED BY <1>7, <1>8, <1>9, <1>10 DEF Accepts, Accepted, Takes, d, edges

LEMMA EdgeOf ==
    ASSUME NEW d, NEW k \in DOMAIN d.edges PROVE d.edges[k] \in Edges(d)
BY DEF Edges

\* The thresholds descend: the detector refuses every bar otherwise.
ThresholdsDescend ==
    /\ CompressionRelease < CompressionEntry
    /\ ChopRelease[1] * ChopEntry[2] < ChopEntry[1] * ChopRelease[2]

\* What the compression detector returns.
LEMMA CompressionAccepted ==
    ASSUME NEW rt, NEW s, NEW slot, NEW m, m.bars \in Nat, NEW seen, NEW refs, ThresholdsDescend,
           slot.state = "CANDIDATE" =>
             /\ "started" \in DOMAIN slot.context
             /\ slot.context.started \in Nat /\ slot.context.started <= m.bars
             /\ slot.context.started \in OwnTimes(rt, s, slot.ordinal)
    PROVE  Accepts(CompressionPattern, rt, s, slot, CompressionOutput(slot, m), seen, refs, m.bars)
<1> DEFINE out == CompressionOutput(slot, m)
           r == m.range
           n == m.bars
           d == CompressionPattern
           A(o) == Accepts(d, rt, s, slot, o, seen, refs, n)
<1> SUFFICES A(out)
  OBVIOUS
<1> HIDE DEF out, r, n, d
<1>1. out = CASE slot.state = "INACTIVE" -> CompressionOpens(slot, r, n)
              [] slot.state = "CANDIDATE" -> CompressionPersists(slot, r, n)
              [] slot.state = "ACTIVE" -> CompressionReleases(slot, r, n)
              [] OTHER -> Unmoved(slot, slot.context)
  BY DEF CompressionOutput, ThresholdsDescend, out, r, n
<1>2. ASSUME NEW context PROVE A(Unmoved(slot, context))
  BY CompressionPlain, AcceptsUnmoved DEF Unmoved, d
<1>3. ASSUME NEW k \in 1..4, NEW event \in Nat, event <= n, NEW context,
             d.edges[k].from = slot.state,
             event # n => event \in OwnTimes(rt, s, slot.ordinal)
      PROVE  A(Moved(slot, <<Intent(slot, d.edges[k], event, n, {})>>, context))
  <2> DEFINE intent == Intent(slot, d.edges[k], event, n, {})
             o == Moved(slot, <<intent>>, context)
  <2>1. d.edges[k] \in Edges(d) /\ k \in DOMAIN d.edges
    BY CompressionPlain, EdgeOf DEF d
  <2>2. TakesEdge(d, k, rt, s, slot, intent, seen, refs, n) /\ intent.edge = d.edges[k]
    BY <1>3, <2>1 DEF Takes, TakesEdge, Intent
  <2> HIDE DEF intent
  <2>3. <<intent>>[Len(<<intent>>)] = intent
    OBVIOUS
  <2>4. o.raised = FALSE /\ o.ordinal = slot.ordinal /\ o.intents = <<intent>>
        /\ o.state = intent.edge.to
    BY <2>3 DEF Moved
  <2> HIDE DEF o
  <2>5. A(o)
    BY <1>3, <2>1, <2>2, <2>4, CompressionPlain, AcceptsOne DEF d
  <2> QED BY <2>5 DEF o, intent
<1>4. /\ d.edges[1].from = "INACTIVE" /\ d.edges[2].from = "CANDIDATE"
      /\ d.edges[3].from = "CANDIDATE" /\ d.edges[4].from = "ACTIVE"
  BY DEF d, CompressionPattern, Edge
<1>5. n \in Nat
  BY DEF n
<1>6. CASE slot.state = "INACTIVE"
  <2>1. out = CompressionOpens(slot, r, n)
    BY <1>1, <1>6
  <2>2. A(CompressionOpens(slot, r, n))
    <3>1. CASE ~Qualifies(r)
      BY <1>2, <3>1 DEF CompressionOpens
    <3>2. CASE Qualifies(r)
      <4> HIDE DEF A
      <4> QED BY <1>3, <1>4, <1>5, <1>6, <3>2 DEF CompressionOpens, d
    <3> QED BY <3>1, <3>2
  <2> QED BY <2>1, <2>2
<1>7. CASE slot.state = "CANDIDATE"
  <2> DEFINE context == [slot.context EXCEPT !.count = slot.context.count + 1]
  <2>1. out = CompressionPersists(slot, r, n)
    BY <1>1, <1>7
  <2>2. context.started = slot.context.started
    BY <1>7
  <2>3. context.started \in Nat /\ context.started <= n
        /\ context.started \in OwnTimes(rt, s, slot.ordinal)
    BY <1>7, <2>2 DEF n
  <2> HIDE DEF A
  <2>4. CASE ~Qualifies(r)
    BY <1>3, <1>4, <1>5, <1>7, <2>1, <2>4 DEF CompressionPersists, d
  <2>5. CASE Qualifies(r) /\ slot.context.count + 1 < ConfirmationBars
    BY <1>2, <2>1, <2>5 DEF CompressionPersists
  <2>6. CASE Qualifies(r) /\ ~(slot.context.count + 1 < ConfirmationBars)
    <3>1. out = Moved(slot, <<Intent(slot, d.edges[2], context.started, n, {})>>,
                      [context EXCEPT !.observed = 1])
      BY <2>1, <2>6 DEF CompressionPersists, d
    <3> HIDE DEF context
    <3> QED BY <1>3, <1>4, <1>7, <2>3, <3>1
  <2> QED BY <2>4, <2>5, <2>6
<1>8. CASE slot.state = "ACTIVE"
  <2>1. out = CompressionReleases(slot, r, n)
    BY <1>1, <1>8
  <2> HIDE DEF A
  <2>2. CASE r.status # "AVAILABLE"
    BY <1>2, <2>1, <2>2 DEF CompressionReleases
  <2>3. CASE r.status = "AVAILABLE" /\ Releases(r) # {}
    BY <1>3, <1>4, <1>5, <1>8, <2>1, <2>3 DEF CompressionReleases, d
  <2>4. CASE r.status = "AVAILABLE" /\ Releases(r) = {}
    BY <1>2, <2>1, <2>4 DEF CompressionReleases
  <2> QED BY <2>2, <2>3, <2>4
<1>9. CASE slot.state \notin {"INACTIVE", "CANDIDATE", "ACTIVE"}
  BY <1>1, <1>2, <1>9
<1> QED BY <1>6, <1>7, <1>8, <1>9

\* The runtime knows the events of the bar.
Knows(m, seen, refs) ==
    \A i \in DOMAIN m.events : m.events[i].event \in seen /\ m.events[i].ref \in refs

\* What a detector cites of a bar has been published.
LEMMA RefsKnown ==
    ASSUME NEW m, NEW seen, NEW refs, Knows(m, seen, refs), NEW events
    PROVE  RefsOf(m, events) \subseteq refs
BY DEF RefsOf, Knows

LEMMA ObservedTold ==
    ASSUME NEW m, NEW bar, AllTold(m.events, bar, m.bars), NEW seen, NEW refs, Knows(m, seen, refs),
           NEW type, NEW e \in Observed(m, type)
    PROVE  Told(e, bar, m.bars) /\ e.event \in seen /\ e.type = type
<1>1. PICK i \in DOMAIN m.events : m.events[i].ref[2] = e /\ e.type = type
  BY DEF Observed
<1>2. PICK x : m.events[i] = [event |-> x.event, ref |-> <<i, x>>] /\ Told(x, bar, m.bars)
  BY DEF AllTold
<1>3. m.events[i].ref[2] = x /\ m.events[i].event = x.event
  BY <1>2
<1> QED BY <1>1, <1>2, <1>3 DEF Knows

LEMMA TakingIs ==
    ASSUME NEW d, Plain(d), NEW k \in DOMAIN d.edges
    PROVE  Taking(d, d.edges[k].from, d.edges[k].trigger) = d.edges[k]
<1>1. \A e \in Edges(d) : e.from = d.edges[k].from /\ e.trigger = d.edges[k].trigger => e = d.edges[k]
  BY DEF Plain, Edges
<1>2. d.edges[k] \in Edges(d)
  BY EdgeOf
<1> QED BY <1>1, <1>2 DEF Taking

\* An edge of a pattern, observed on the bar.
LEMMA ObservesTakes ==
    ASSUME NEW d, Plain(d), NEW rt, NEW s, NEW slot, NEW m, m.bars \in Nat, NEW seen, NEW refs,
           Knows(m, seen, refs), NEW k \in DOMAIN d.edges,
           NEW from, NEW trigger, d.edges[k].from = from, d.edges[k].trigger = trigger,
           NEW cited, NEW event \in Nat, event <= m.bars, event # m.bars => event \in seen
    PROVE  TakesEdge(d, k, rt, s, slot, Observes(slot, d, from, trigger, event, m, cited),
                     seen, refs, m.bars)
<1>1. Taking(d, from, trigger) = d.edges[k] /\ d.edges[k] \in Edges(d)
  BY TakingIs, EdgeOf
<1>2. RefsOf(m, cited) \subseteq refs
  BY RefsKnown
<1>3. Observes(slot, d, from, trigger, event, m, cited) =
        [ordinal |-> slot.ordinal, edge |-> d.edges[k], event |-> event, detection |-> m.bars,
         cites |-> RefsOf(m, cited)]
  BY <1>1 DEF Observes, Intent
<1> HIDE DEF Observes
<1> QED BY <1>1, <1>2, <1>3 DEF Takes, TakesEdge

LEMMA MovedOne ==
    ASSUME NEW slot, NEW intent, NEW context
    PROVE  Moved(slot, <<intent>>, context) =
             [raised |-> FALSE, ordinal |-> slot.ordinal, intents |-> <<intent>>,
              state |-> intent.edge.to, context |-> context]
<1>1. <<intent>>[Len(<<intent>>)] = intent
  OBVIOUS
<1> QED BY <1>1 DEF Moved

\* A detector that moves its occurrence along one edge.
LEMMA MovesAccepted ==
    ASSUME NEW d, Plain(d), NEW rt, NEW s, NEW slot, NEW m, m.bars \in Nat, NEW seen, NEW refs,
           Knows(m, seen, refs), NEW k \in DOMAIN d.edges,
           NEW trigger, d.edges[k].from = slot.state, d.edges[k].trigger = trigger,
           NEW cited, NEW event \in Nat, event <= m.bars, event # m.bars => event \in seen,
           NEW context, NEW out,
           out = Moved(slot, <<Observes(slot, d, slot.state, trigger, event, m, cited)>>, context)
    PROVE  Accepts(d, rt, s, slot, out, seen, refs, m.bars)
<1> DEFINE intent == Observes(slot, d, slot.state, trigger, event, m, cited)
<1>1. TakesEdge(d, k, rt, s, slot, intent, seen, refs, m.bars)
  BY ObservesTakes
<1> HIDE DEF intent
<1>2. out = [raised |-> FALSE, ordinal |-> slot.ordinal, intents |-> <<intent>>,
             state |-> intent.edge.to, context |-> context]
  BY MovedOne DEF intent
<1>3. out.raised = FALSE /\ out.ordinal = slot.ordinal /\ out.intents = <<intent>>
      /\ out.state = d.edges[k].to
  BY <1>1, <1>2 DEF TakesEdge
<1> QED BY <1>1, <1>3, AcceptsOne

\* What the reversal detector returns.
LEMMA ReversalAccepted ==
    ASSUME NEW rt, NEW s, NEW slot, NEW m, m.bars \in Nat, NEW bar, Publishes(m, bar),
           NEW seen, NEW refs, Knows(m, seen, refs)
    PROVE  Accepts(ReversalPattern, rt, s, slot, ReversalOutput(slot, m), seen, refs, m.bars)
<1> DEFINE d == ReversalPattern
           n == m.bars
           A(o) == Accepts(d, rt, s, slot, o, seen, refs, n)
           out == ReversalOutput(slot, m)
<1>1. out = CASE slot.state = "INACTIVE" -> ReversalOpens(slot, m)
              [] slot.state = "CANDIDATE" -> ReversalResolves(slot, m)
              [] OTHER -> Unmoved(slot, slot.context)
  BY DEF ReversalOutput
<1> SUFFICES A(out)
  OBVIOUS
<1> HIDE DEF d, n, out
<1>2. ASSUME NEW context PROVE A(Unmoved(slot, context))
  BY ReversalPlain, AcceptsUnmoved DEF Unmoved, d
<1>3. ASSUME NEW k \in 1..4, NEW trigger, d.edges[k].from = slot.state,
             d.edges[k].trigger = trigger, NEW cited, NEW event \in Nat, event <= n,
             event # n => event \in seen, NEW context
      PROVE  A(Moved(slot, <<Observes(slot, d, slot.state, trigger, event, m, cited)>>, context))
  <2>1. Plain(d) /\ k \in DOMAIN d.edges
    BY ReversalPlain DEF d
  <2> DEFINE o == Moved(slot, <<Observes(slot, d, slot.state, trigger, event, m, cited)>>, context)
  <2>2. A(o)
    BY <1>3, <2>1, MovesAccepted DEF n
  <2> QED BY <2>2
<1>4. /\ d.edges[1].from = "INACTIVE" /\ d.edges[1].trigger = "opposing_ema_cross"
      /\ d.edges[2].from = "CANDIDATE" /\ d.edges[2].trigger = "protected_swing_break"
      /\ d.edges[3].from = "CANDIDATE" /\ d.edges[3].trigger = "same_direction_extreme"
      /\ d.edges[4].from = "CANDIDATE" /\ d.edges[4].trigger = "candidate_age_limit"
  BY DEF d, ReversalPattern, Edge
<1>5. n \in Nat /\ n <= n
  BY DEF n
<1>6. CASE slot.state = "INACTIVE"
  <2>1. out = ReversalOpens(slot, m)
    BY <1>1, <1>6
  <2> DEFINE leg == The(Eligible(m))
             cross == Crosses(m, Opposed(leg.direction))
  <2>2. CASE Eligible(m) = {} \/ cross = {}
    <3>1. out = Unmoved(slot, slot.context)
      BY <2>1, <2>2 DEF ReversalOpens
    <3> QED BY <1>2, <3>1
  <2>3. CASE ~(Eligible(m) = {} \/ cross = {})
    <3> DEFINE context == [direction |-> leg.direction, leg |-> leg.index, started |-> m.bars,
                           protected |-> leg.protected, ema |-> m.ema.value]
    <3>1. out = Moved(slot, <<Observes(slot, d, slot.state, "opposing_ema_cross", n, m, cross)>>,
                      context)
      BY <1>6, <2>1, <2>3 DEF ReversalOpens, d, n
    <3> HIDE DEF A, leg, cross, context
    <3> QED BY <1>3, <1>4, <1>5, <1>6, <3>1
  <2> QED BY <2>2, <2>3
<1>7. CASE slot.state = "CANDIDATE"
  <2> DEFINE context == slot.context
             ends == SourceEnds(slot, m)
             extremes == NewSwings(m, Extending[context.direction], context.started)
             Ending(trigger, event, cited) ==
               Moved(slot, <<Observes(slot, d, slot.state, trigger, event, m, cited)>>, context)
             through == ClosesThrough(context.direction, [close |-> The(m.legs.close)],
                                      The(ends).evidence.protected)
  <2>1. out = CASE ends # {} ->
                     [Ending("protected_swing_break", n, ends \cup Corroborating(slot, m, ends))
                      EXCEPT !.raised = ~through]
                [] ends = {} /\ extremes # {} ->
                     Ending("same_direction_extreme", The(extremes).event, extremes)
                [] ends = {} /\ extremes = {} /\ Aged(m, context.started) ->
                     Ending("candidate_age_limit", n, {})
                [] OTHER -> Unmoved(slot, [context EXCEPT !.ema = IF m.ema.value = {} THEN @
                                                                  ELSE m.ema.value])
    BY <1>1, <1>7 DEF ReversalResolves, d, n
  <2>2. ASSUME NEW event \in Nat, event <= n, event # n => event \in seen, NEW cited,
               NEW trigger \in {"protected_swing_break", "same_direction_extreme",
                                "candidate_age_limit"}
        PROVE  A(Ending(trigger, event, cited)) /\ Ending(trigger, event, cited).raised = FALSE
    <3>1. Ending(trigger, event, cited).raised = FALSE
      BY DEF Moved
    <3>2. PICK k \in 1..4 : d.edges[k].from = slot.state /\ d.edges[k].trigger = trigger
      BY <1>4, <1>7, <2>2
    <3>3. A(Ending(trigger, event, cited))
      <4> HIDE DEF A
      <4> QED BY <1>3, <2>2, <3>2
    <3> QED BY <3>1, <3>3
  <2>3. \A e \in ends : /\ Told(e, bar, n) /\ e.type = "TREND_LEG_ENDED"
                        /\ e.evidence.direction = context.direction
    <3>1. ASSUME NEW e \in ends
          PROVE  e \in Observed(m, "TREND_LEG_ENDED") /\ e.evidence.direction = context.direction
      BY DEF SourceEnds
    <3>2. AllTold(m.events, bar, m.bars)
      BY DEF Publishes
    <3> HIDE DEF ends
    <3>3. ASSUME NEW e \in ends PROVE Told(e, bar, n) /\ e.type = "TREND_LEG_ENDED"
      BY <3>1, <3>2, ObservedTold DEF n
    <3> QED BY <3>1, <3>3
  <2>4. \A e \in extremes : Told(e, bar, n) /\ e.event \in seen
    BY ObservedTold DEF NewSwings, Publishes, n
  <2>5. ends # {} => through
    <3>1. ASSUME ends # {} PROVE through
      <4>1. The(ends) \in ends
        BY <3>1 DEF The
      <4> DEFINE e == The(ends)
      <4> HIDE DEF ends, e
      <4>2. ClosesThrough(e.evidence.direction, bar, e.evidence.protected)
            /\ e.evidence.direction = context.direction
        BY <2>3, <4>1 DEF Told, e
      <4>3. The(m.legs.close) = bar.close
        BY TheOne DEF Publishes
      <4>4. [close |-> The(m.legs.close)].close = bar.close
        BY <4>3
      <4> QED BY <4>2, <4>4 DEF ClosesThrough, e
    <3> QED BY <3>1
  <2> HIDE DEF ends, extremes, through
  <2>6. CASE ends # {}
    <3> DEFINE o == Ending("protected_swing_break", n, ends \cup Corroborating(slot, m, ends))
    <3>1. out = [o EXCEPT !.raised = FALSE]
      BY <2>1, <2>5, <2>6
    <3>2. A(o) /\ o.raised = FALSE
      <4> HIDE DEF A, Ending
      <4> QED BY <1>4, <1>5, <2>2
    <3>3. o = [raised |-> o.raised, ordinal |-> o.ordinal, intents |-> o.intents,
               state |-> o.state, context |-> o.context]
      BY DEF Moved
    <3> HIDE DEF o, A
    <3>4. [o EXCEPT !.raised = FALSE] = o
      BY <3>2, <3>3
    <3> QED BY <3>1, <3>2, <3>4
  <2>7. CASE ends = {} /\ extremes # {}
    <3>1. out = Ending("same_direction_extreme", The(extremes).event, extremes)
      BY <2>1, <2>7
    <3>2. The(extremes) \in extremes
      BY <2>7 DEF The
    <3>3. The(extremes).event \in Nat /\ The(extremes).event <= n /\ The(extremes).event \in seen
      BY <2>4, <3>2 DEF Told
    <3>4. A(Ending("same_direction_extreme", The(extremes).event, extremes))
      <4> HIDE DEF A, Ending
      <4> QED BY <1>4, <2>2, <3>3
    <3> HIDE DEF Ending, A
    <3> QED BY <3>1, <3>4
  <2>8. CASE ends = {} /\ extremes = {} /\ Aged(m, context.started)
    <3>1. out = Ending("candidate_age_limit", n, {})
      BY <2>1, <2>8
    <3>2. A(Ending("candidate_age_limit", n, {}))
      <4> HIDE DEF A, Ending
      <4> QED BY <1>4, <1>5, <2>2
    <3> HIDE DEF Ending, A
    <3> QED BY <3>1, <3>2
  <2>9. CASE ends = {} /\ extremes = {} /\ ~Aged(m, context.started)
    <3>1. out = Unmoved(slot, [context EXCEPT !.ema = IF m.ema.value = {} THEN @ ELSE m.ema.value])
      BY <2>1, <2>9
    <3> QED BY <1>2, <3>1
  <2> QED BY <2>6, <2>7, <2>8, <2>9
<1>8. CASE slot.state \notin {"INACTIVE", "CANDIDATE"}
  BY <1>1, <1>2, <1>8
<1> QED BY <1>6, <1>7, <1>8

LEMMA MovedTwo ==
    ASSUME NEW slot, NEW a, NEW b, NEW context
    PROVE  Moved(slot, <<a, b>>, context) =
             [raised |-> FALSE, ordinal |-> slot.ordinal, intents |-> <<a, b>>,
              state |-> b.edge.to, context |-> context]
<1>1. <<a, b>>[Len(<<a, b>>)] = b
  OBVIOUS
<1> QED BY <1>1 DEF Moved

\* A reclaim, and what follows it on its bar.
LEMMA MovesTwiceAccepted ==
    ASSUME NEW rt, NEW s, NEW slot, slot.state = "CANDIDATE", NEW m, m.bars \in Nat,
           NEW seen, NEW refs, Knows(m, seen, refs),
           NEW trigger \in {"continuation_break", "candidate_age_limit"},
           NEW reclaim, NEW cited, NEW context, NEW out,
           out = Moved(slot,
                       <<Observes(slot, ContinuationPattern, "CANDIDATE", "ema_reclaim", m.bars, m, reclaim),
                         Observes(slot, ContinuationPattern, "RECLAIMED", trigger, m.bars, m, cited)>>,
                       context)
    PROVE  Accepts(ContinuationPattern, rt, s, slot, out, seen, refs, m.bars)
<1> DEFINE d == ContinuationPattern
           a == Observes(slot, d, "CANDIDATE", "ema_reclaim", m.bars, m, reclaim)
           b == Observes(slot, d, "RECLAIMED", trigger, m.bars, m, cited)
           k == IF trigger = "continuation_break" THEN 5 ELSE 7
<1>1. /\ k \in {5, 7} /\ 2 \in DOMAIN d.edges /\ k \in DOMAIN d.edges
      /\ d.edges[2].from = "CANDIDATE" /\ d.edges[2].trigger = "ema_reclaim"
      /\ d.edges[k].from = "RECLAIMED" /\ d.edges[k].trigger = trigger
  BY ContinuationEdges
<1>2. Plain(d) /\ m.bars <= m.bars
  BY ContinuationPlain
<1> HIDE DEF d, k
<1>3. TakesEdge(d, 2, rt, s, slot, a, seen, refs, m.bars)
  BY <1>1, <1>2, ObservesTakes
<1>4. TakesEdge(d, k, rt, s, slot, b, seen, refs, m.bars)
  BY <1>1, <1>2, ObservesTakes
<1>5. out = Moved(slot, <<a, b>>, context)
  BY DEF d
<1> HIDE DEF a, b
<1>6. /\ out.raised = FALSE /\ out.ordinal = slot.ordinal /\ out.intents = <<a, b>>
      /\ out.state = d.edges[k].to
  <2> DEFINE both == <<a, b>>
  <2>1. out = [raised |-> FALSE, ordinal |-> slot.ordinal, intents |-> both,
               state |-> b.edge.to, context |-> context]
    BY <1>5, MovedTwo
  <2>2. b.edge = d.edges[k]
    BY <1>4 DEF TakesEdge
  <2> HIDE DEF both
  <2>3. out.raised = FALSE /\ out.ordinal = slot.ordinal /\ out.intents = both
        /\ out.state = d.edges[k].to
    BY <2>1, <2>2
  <2> QED BY <2>3 DEF both
<1> QED BY <1>1, <1>3, <1>4, <1>6, AcceptsTwo DEF d

\* What the continuation detector returns.
LEMMA ContinuationAccepted ==
    ASSUME NEW rt, NEW s, NEW slot, NEW m, m.bars \in Nat, NEW bar,
           NEW seen, NEW refs, Knows(m, seen, refs)
    PROVE  Accepts(ContinuationPattern, rt, s, slot, ContinuationOutput(slot, m, bar),
                    seen, refs, m.bars)
<1> DEFINE d == ContinuationPattern
           n == m.bars
           A(o) == Accepts(d, rt, s, slot, o, seen, refs, n)
           out == ContinuationOutput(slot, m, bar)
<1>1. out = CASE slot.state = "INACTIVE" -> ContinuationOpens(slot, m, bar)
              [] slot.state \in {"CANDIDATE", "RECLAIMED"} -> ContinuationAdvances(slot, m, bar)
              [] OTHER -> Unmoved(slot, slot.context)
  BY DEF ContinuationOutput
<1> SUFFICES A(out)
  OBVIOUS
<1> HIDE DEF d, n, out
<1>2. ASSUME NEW context PROVE A(Unmoved(slot, context))
  BY ContinuationPlain, AcceptsUnmoved DEF Unmoved, d
<1>4. /\ d.edges[1].from = "INACTIVE" /\ d.edges[1].trigger = "opposing_ema_cross"
      /\ d.edges[2].from = "CANDIDATE" /\ d.edges[2].trigger = "ema_reclaim"
      /\ d.edges[3].from = "CANDIDATE" /\ d.edges[3].trigger = "protected_swing_break"
      /\ d.edges[4].from = "RECLAIMED" /\ d.edges[4].trigger = "protected_swing_break"
      /\ d.edges[5].from = "RECLAIMED" /\ d.edges[5].trigger = "continuation_break"
      /\ d.edges[6].from = "CANDIDATE" /\ d.edges[6].trigger = "candidate_age_limit"
      /\ d.edges[7].from = "RECLAIMED" /\ d.edges[7].trigger = "candidate_age_limit"
  BY ContinuationEdges DEF d
<1>3. ASSUME NEW trigger, NEW cited, NEW context,
             \E k \in 1..7 : d.edges[k].from = slot.state /\ d.edges[k].trigger = trigger
      PROVE  A(Moved(slot, <<Observes(slot, d, slot.state, trigger, n, m, cited)>>, context))
  <2>1. PICK k \in 1..7 : d.edges[k].from = slot.state /\ d.edges[k].trigger = trigger
    BY <1>3
  <2>2. Plain(d) /\ k \in DOMAIN d.edges /\ n <= n
    BY ContinuationPlain, ContinuationEdges DEF d, n
  <2> DEFINE o == Moved(slot, <<Observes(slot, d, slot.state, trigger, n, m, cited)>>, context)
  <2>3. A(o)
    BY <2>1, <2>2, MovesAccepted DEF n
  <2> QED BY <2>3
<1>6. CASE slot.state = "INACTIVE"
  <2>1. out = ContinuationOpens(slot, m, bar)
    BY <1>1, <1>6
  <2> DEFINE leg == The(Eligible(m))
             cross == Crosses(m, Opposed(leg.direction))
             none == \/ Eligible(m) = {} \/ cross = {} \/ \E x \in Sides : m.structure.latest[x] = {}
  <2>2. CASE none
    <3>1. out = Unmoved(slot, slot.context)
      BY <2>1, <2>2 DEF ContinuationOpens
    <3> QED BY <1>2, <3>1
  <2>3. CASE ~none
    <3> DEFINE context ==
                 [direction |-> leg.direction, leg |-> leg.index, started |-> m.bars,
                  best |-> leg.extreme,
                  continuation |-> The(m.structure.latest[Forward(leg.direction)]).swing,
                  protected |-> The(m.structure.latest[Backward(leg.direction)]).swing,
                  depth |-> Depth(leg.direction, leg.extreme, bar), ema |-> m.ema.value,
                  prior |-> {}, reclaimed |-> {}, reactions |-> 0]
    <3>1. out = Moved(slot, <<Observes(slot, d, slot.state, "opposing_ema_cross", n, m, cross)>>,
                      context)
      BY <1>6, <2>1, <2>3 DEF ContinuationOpens, d, n
    <3> HIDE DEF A, leg, cross, context
    <3>2. \E k \in 1..7 : d.edges[k].from = slot.state /\ d.edges[k].trigger = "opposing_ema_cross"
      BY <1>4, <1>6
    <3> QED BY <1>3, <3>1, <3>2
  <2> QED BY <2>2, <2>3
<1>7. CASE slot.state \in {"CANDIDATE", "RECLAIMED"}
  <2> DEFINE context == Observing(slot.context, m, bar)
             refuted == BreakOf(m, context.protected)
             broken == BreakOf(m, context.continuation)
             reclaim == IF slot.state = "CANDIDATE" THEN Crosses(m, context.direction) ELSE {}
             aged == Aged(m, context.started)
             after == IF reclaim = {} THEN context ELSE [context EXCEPT !.reclaimed = {n}]
             first == Observes(slot, d, "CANDIDATE", "ema_reclaim", n, m, reclaim)
             reclaiming == IF reclaim = {} THEN <<>> ELSE <<first>>
             from == IF reclaim = {} THEN slot.state ELSE "RECLAIMED"
             Deciding(trigger, cited) == Observes(slot, d, from, trigger, n, m, cited)
             Ending(trigger, cited) == Moved(slot, Append(reclaiming, Deciding(trigger, cited)), after)
  <2>1. out = CASE refuted # {} ->
                     Moved(slot, <<Observes(slot, d, slot.state, "protected_swing_break", n, m,
                                            refuted)>>, context)
                [] refuted = {} /\ from = "RECLAIMED" /\ broken # {} ->
                     Ending("continuation_break", broken)
                [] refuted = {} /\ ~(from = "RECLAIMED" /\ broken # {}) /\ aged ->
                     Ending("candidate_age_limit", {})
                [] OTHER -> IF reclaim = {} THEN Unmoved(slot, after)
                            ELSE Moved(slot, reclaiming, after)
    BY <1>1, <1>7 DEF ContinuationAdvances, d, n
  <2>2. reclaim # {} => slot.state = "CANDIDATE"
    OBVIOUS
  <2>3. ASSUME NEW trigger \in {"continuation_break", "candidate_age_limit"}, NEW cited,
               trigger = "continuation_break" => from = "RECLAIMED"
        PROVE  A(Ending(trigger, cited))
    <3>1. CASE reclaim = {}
      <4>1. Ending(trigger, cited) =
              Moved(slot, <<Observes(slot, d, slot.state, trigger, n, m, cited)>>, after)
        <5> DEFINE x == Observes(slot, d, slot.state, trigger, n, m, cited)
        <5>1. Append(<<>>, x) = <<x>>
          <6> HIDE DEF x
          <6> QED OBVIOUS
        <5>2. Deciding(trigger, cited) = x /\ reclaiming = <<>>
          BY <3>1
        <5> HIDE DEF x, Deciding, reclaiming, after
        <5> QED BY <5>1, <5>2 DEF x
      <4>2. \E k \in 1..7 : d.edges[k].from = slot.state /\ d.edges[k].trigger = trigger
        BY <1>4, <1>7, <2>3, <3>1
      <4> HIDE DEF A, Ending, after
      <4> QED BY <1>3, <4>1, <4>2
    <3>2. CASE reclaim # {}
      <4> DEFINE x == Observes(slot, d, "RECLAIMED", trigger, n, m, cited)
      <4>1. Ending(trigger, cited) = Moved(slot, <<first, x>>, after)
        <5>1. Deciding(trigger, cited) = x /\ reclaiming = <<first>>
          BY <3>2
        <5>2. Append(<<first>>, x) = <<first, x>>
          BY AppendTwo
        <5> HIDE DEF x, Deciding, reclaiming, after, first
        <5> QED BY <5>1, <5>2
      <4> DEFINE o == Ending(trigger, cited)
      <4>2. o = Moved(slot, <<Observes(slot, d, "CANDIDATE", "ema_reclaim", n, m, reclaim),
                              Observes(slot, d, "RECLAIMED", trigger, n, m, cited)>>, after)
        BY <4>1
      <4> HIDE DEF o, after, reclaim
      <4>3. A(o)
        BY <2>2, <3>2, <4>2, MovesTwiceAccepted DEF d, n
      <4> QED BY <4>3 DEF o
    <3> QED BY <3>1, <3>2
  <2> HIDE DEF refuted, broken, aged
  <2>4. CASE refuted # {}
    <3>1. out = Moved(slot, <<Observes(slot, d, slot.state, "protected_swing_break", n, m,
                                       refuted)>>, context)
      BY <2>1, <2>4
    <3>2. \E k \in 1..7 :
            d.edges[k].from = slot.state /\ d.edges[k].trigger = "protected_swing_break"
      BY <1>4, <1>7
    <3> HIDE DEF A, context
    <3> QED BY <1>3, <3>1, <3>2
  <2>5. CASE refuted = {} /\ from = "RECLAIMED" /\ broken # {}
    <3>1. out = Ending("continuation_break", broken)
      BY <2>1, <2>5
    <3> HIDE DEF A, Ending, from
    <3> QED BY <2>3, <2>5, <3>1
  <2>6. CASE refuted = {} /\ ~(from = "RECLAIMED" /\ broken # {}) /\ aged
    <3>1. out = Ending("candidate_age_limit", {})
      BY <2>1, <2>6
    <3> HIDE DEF A, Ending, from
    <3> QED BY <2>3, <2>6, <3>1
  <2>7. CASE refuted = {} /\ ~(from = "RECLAIMED" /\ broken # {}) /\ ~aged
    <3>1. out = IF reclaim = {} THEN Unmoved(slot, after) ELSE Moved(slot, reclaiming, after)
      <4> HIDE DEF Ending, reclaim, after, reclaiming, from
      <4> QED BY <2>1, <2>7
    <3>2. CASE reclaim = {}
      <4> HIDE DEF A, reclaim, after
      <4> QED BY <1>2, <3>1, <3>2
    <3>3. CASE reclaim # {}
      <4>1. slot.state = "CANDIDATE"
        BY <2>2, <3>3
      <4>2. out = Moved(slot, <<Observes(slot, d, slot.state, "ema_reclaim", n, m, reclaim)>>, after)
        <5> HIDE DEF reclaim, after
        <5> QED BY <3>1, <3>3, <4>1
      <4>3. \E k \in 1..7 : d.edges[k].from = slot.state /\ d.edges[k].trigger = "ema_reclaim"
        BY <1>4, <4>1
      <4> HIDE DEF A, reclaim, after
      <4> QED BY <1>3, <4>2, <4>3
    <3> QED BY <3>2, <3>3
  <2> QED BY <2>4, <2>5, <2>6, <2>7
<1>8. CASE slot.state \notin {"INACTIVE", "CANDIDATE", "RECLAIMED"}
  BY <1>1, <1>2, <1>8
<1> QED BY <1>6, <1>7, <1>8

-------------------------------------------------------------------------------
(* The runtime's step: three bindings.                                     *)

LEMMA TupleIs ==
    ASSUME NEW f, f = [s \in 1..3 |-> f[s]]
    PROVE  Tuple(f) = f
<1> DEFINE S == {f[1], f[2], f[3]}
<1>1. f \in Seq(S) /\ Len(f) = 3
  <2>1. \A s \in 1..3 : f[s] \in S
    <3>1. \A s \in 1..3 : s = 1 \/ s = 2 \/ s = 3
      OBVIOUS
    <3> QED BY <3>1
  <2> HIDE DEF S
  <2> QED BY <2>1
<1> HIDE DEF S
<1>2. <<>> \in Seq(S)
  OBVIOUS
<1>3. f \o <<>> = f
  BY <1>1, <1>2
<1> QED BY <1>3 DEF Tuple

LEMMA FlattenThree ==
    ASSUME NEW q, q = [s \in 1..3 |-> q[s]]
    PROVE  FlattenSeq(q) = (q[1] \o q[2]) \o q[3]
<1>1. Len(q) = 3
  OBVIOUS
<1> DEFINE Follows(f) == f = [i \in 1..3 |-> IF i = 1 THEN q[i] ELSE f[i - 1] \o q[i]]
           f == [i \in 1..3 |-> IF i = 1 THEN q[1] ELSE IF i = 2 THEN q[1] \o q[2]
                                ELSE (q[1] \o q[2]) \o q[3]]
           flatten == CHOOSE g : Follows(g)
<1>2. Follows(f)
  <2>1. f[1] = q[1] /\ f[2] = q[1] \o q[2]
    OBVIOUS
  <2>2. \A i \in 1..3 : (IF i = 1 THEN q[1] ELSE IF i = 2 THEN q[1] \o q[2]
                                ELSE (q[1] \o q[2]) \o q[3]) = IF i = 1 THEN q[i] ELSE f[i - 1] \o q[i]
    <3>1. \A i \in 1..3 : i = 1 \/ i = 2 \/ i = 3
      OBVIOUS
    <3> HIDE DEF f
    <3>2. f[3 - 1] = q[1] \o q[2] /\ f[2 - 1] = q[1]
      BY <2>1
    <3> QED BY <3>1, <3>2
  <2> QED BY <2>2
<1>3. Follows(flatten)
  <2> HIDE DEF f, Follows
  <2> QED BY <1>2
<1>4. FlattenSeq(q) = flatten[3]
  BY <1>1 DEF FlattenSeq
<1> HIDE DEF flatten
<1>5. flatten[1] = q[1] /\ flatten[2] = flatten[1] \o q[2] /\ flatten[3] = flatten[2] \o q[3]
  <2>1. 2 - 1 = 1 /\ 3 - 1 = 2
    OBVIOUS
  <2>2. \A i \in 1..3 : flatten[i] = IF i = 1 THEN q[i] ELSE flatten[i - 1] \o q[i]
    BY <1>3
  <2> QED BY <2>1, <2>2
<1> QED BY <1>4, <1>5

Offer(rt, s) == Offered(Patterns[s], rt.slots[s])
Out(rt, s, m, bar) == Output(Offer(rt, s), s, m, bar)
Told3(rt, s, m, bar) == Committed(Offer(rt, s), s, Out(rt, s, m, bar))
EventsOf(m) == {m.events[i].event : i \in DOMAIN m.events}
RefsIn(m) == {m.events[i].ref : i \in DOMAIN m.events}

\* A bar committed for every binding.
Steps(rt, new, m, bar) ==
    /\ new.failed = FALSE
    /\ new.last = m.bars
    /\ new.seen = rt.seen \cup EventsOf(m)
    /\ new.refs = rt.refs \cup RefsIn(m)
    /\ new.log = rt.log \o ((Told3(rt, 1, m, bar) \o Told3(rt, 2, m, bar)) \o Told3(rt, 3, m, bar))
    /\ new.slots = [s \in 1..3 |-> Commit(Offer(rt, s), Out(rt, s, m, bar))]

RuntimeShape(rt) ==
    rt = [failed |-> rt.failed, last |-> rt.last, seen |-> rt.seen, refs |-> rt.refs,
          log |-> rt.log, slots |-> rt.slots]

StepOf(rt, m, bar) ==
    Step(Patterns, rt, [time |-> m.bars, market |-> Range(m.events)],
         LAMBDA s, slot : Output(slot, s, m, bar)).runtime

\* A bar every detector was accepted on is committed for all of them.
LEMMA StepCommits ==
    ASSUME NEW rt, RuntimeShape(rt), rt.failed = FALSE, NEW m, ~(m.bars <= rt.last), NEW bar,
           \A s \in 1..3 : Accepted(Patterns[s], rt, s, Offer(rt, s), Out(rt, s, m, bar),
                                    rt.seen \cup EventsOf(m), rt.refs \cup RefsIn(m), m.bars)
    PROVE  Steps(rt, StepOf(rt, m, bar), m, bar) /\ RuntimeShape(StepOf(rt, m, bar))
<1> DEFINE frame == [time |-> m.bars, market |-> Range(m.events)]
           offered == [s \in DOMAIN Patterns |-> Offered(Patterns[s], rt.slots[s])]
           out == [s \in DOMAIN Patterns |-> Output(offered[s], s, m, bar)]
           parts == [s \in DOMAIN Patterns |-> Committed(offered[s], s, out[s])]
           slots == [s \in DOMAIN Patterns |-> Commit(offered[s], out[s])]
<1>1. DOMAIN Patterns = 1..3
  BY DEF Patterns
<1>2. Tuple(offered) = offered /\ Tuple(out) = out /\ Tuple(slots) = slots
  BY <1>1, TupleIs
<1>3. /\ \A s \in 1..3 : offered[s] = Offer(rt, s) /\ out[s] = Out(rt, s, m, bar)
      /\ \A s \in 1..3 : slots[s] = Commit(Offer(rt, s), Out(rt, s, m, bar))
                         /\ parts[s] = Told3(rt, s, m, bar)
  BY <1>1 DEF Offer, Out, Told3
<1>4. Seen(rt, frame) = rt.seen \cup EventsOf(m) /\ Refs(rt, frame) = rt.refs \cup RefsIn(m)
  BY DEF Seen, Refs, EventsOf, RefsIn, Range
<1>5. FlattenSeq(parts) = (Told3(rt, 1, m, bar) \o Told3(rt, 2, m, bar)) \o Told3(rt, 3, m, bar)
  <2>1. FlattenSeq(parts) = (parts[1] \o parts[2]) \o parts[3]
    BY <1>1, FlattenThree
  <2>2. /\ parts[1] = Told3(rt, 1, m, bar) /\ parts[2] = Told3(rt, 2, m, bar)
        /\ parts[3] = Told3(rt, 3, m, bar)
    BY <1>3
  <2> HIDE DEF parts
  <2> QED BY <2>1, <2>2, Zenon
<1>6. frame.time = m.bars
  OBVIOUS
<1> HIDE DEF frame, offered, out, slots, parts
<1>7. StepOf(rt, m, bar) = Prepare(Patterns, rt, frame, offered, LAMBDA s, slot : Output(slot, s, m, bar)).runtime
  <2>1. StepOf(rt, m, bar) = Prepare(Patterns, rt, frame, Tuple(offered),
                                     LAMBDA s, slot : Output(slot, s, m, bar)).runtime
    BY <1>6 DEF StepOf, Step, frame, offered
  <2> QED BY <1>2, <2>1
<1>8. Prepare(Patterns, rt, frame, offered, LAMBDA s, slot : Output(slot, s, m, bar))
        = Settle(Patterns, rt, frame, offered, out)
  <2>1. Prepare(Patterns, rt, frame, offered, LAMBDA s, slot : Output(slot, s, m, bar))
        = Settle(Patterns, rt, frame, offered, Tuple(out))
    BY DEF Prepare, out
  <2> QED BY <1>2, <2>1
<1>9. Settle(Patterns, rt, frame, offered, out) =
        CommitAll(Patterns, rt, frame, offered, out, FlattenSeq(parts))
  BY <1>1, <1>3, <1>4, <1>6 DEF Settle, parts
<1>10. CommitAll(Patterns, rt, frame, offered, out, FlattenSeq(parts)).runtime =
         [rt EXCEPT !.last = frame.time, !.seen = Seen(rt, frame), !.refs = Refs(rt, frame),
                    !.log = rt.log \o FlattenSeq(parts), !.slots = Tuple(slots)]
  BY DEF CommitAll, slots
<1> DEFINE new == StepOf(rt, m, bar)
           events == FlattenSeq(parts)
           log == rt.log \o events
           seen == rt.seen \cup EventsOf(m)
           refs == rt.refs \cup RefsIn(m)
<1>11. new = [rt EXCEPT !.last = m.bars, !.seen = seen, !.refs = refs, !.log = log, !.slots = slots]
  BY <1>2, <1>4, <1>6, <1>7, <1>8, <1>9, <1>10
<1>12. log = rt.log \o ((Told3(rt, 1, m, bar) \o Told3(rt, 2, m, bar)) \o Told3(rt, 3, m, bar))
  BY <1>5
<1>13. slots = [s \in 1..3 |-> Commit(Offer(rt, s), Out(rt, s, m, bar))]
  BY <1>1, <1>3 DEF slots
<1> HIDE DEF new, log, seen, refs
<1>14. new = [failed |-> rt.failed, last |-> m.bars, seen |-> seen, refs |-> refs, log |-> log,
              slots |-> slots]
  BY <1>11 DEF RuntimeShape
<1>15. new.failed = FALSE /\ new.last = m.bars /\ new.seen = seen /\ new.refs = refs
       /\ new.log = log /\ new.slots = slots /\ RuntimeShape(new)
  BY <1>14 DEF RuntimeShape
<1> QED BY <1>12, <1>13, <1>15 DEF Steps, new, seen, refs

\* An open compression candidate remembers a bar its occurrence has reported.
Began(rt, slot, n) ==
    /\ "started" \in DOMAIN slot.context
    /\ slot.context.started \in Nat /\ slot.context.started <= n
    /\ slot.context.started \in OwnTimes(rt, Compression, slot.ordinal)

SlotShape(slot) ==
    slot = [ordinal |-> slot.ordinal, state |-> slot.state, next |-> slot.next,
            context |-> slot.context]

RuntimeTypes(rt, n) ==
    /\ RuntimeShape(rt)
    /\ rt.failed = FALSE
    /\ rt.last \in Int /\ rt.last <= n
    /\ rt.log \in Seq(ValuesOf(rt.log))
    /\ SlotShape(rt.slots[Compression])
    /\ rt.slots[Compression].state = "CANDIDATE" => Began(rt, rt.slots[Compression], n)

LEMMA KnownToStep ==
    ASSUME NEW m, NEW seen, NEW refs PROVE Knows(m, seen \cup EventsOf(m), refs \cup RefsIn(m))
BY DEF Knows, EventsOf, RefsIn

\* Every detector returns what the runtime accepts.
LEMMA DetectorsAccepted ==
    ASSUME NEW n \in Nat, NEW rt, NEW m, m.bars = n, NEW bar, Publishes(m, bar),
           ThresholdsDescend,
           Offer(rt, Compression).state = "CANDIDATE" => Began(rt, Offer(rt, Compression), n),
           NEW s \in 1..3
    PROVE  Accepts(Patterns[s], rt, s, Offer(rt, s), Out(rt, s, m, bar),
                   rt.seen \cup EventsOf(m), rt.refs \cup RefsIn(m), m.bars)
<1> DEFINE slot == Offer(rt, s)
           seen == rt.seen \cup EventsOf(m)
           refs == rt.refs \cup RefsIn(m)
<1>1. Knows(m, seen, refs)
  BY KnownToStep
<1> SUFFICES Accepts(Patterns[s], rt, s, slot, Output(slot, s, m, bar), seen, refs, m.bars)
  BY DEF Out
<1> HIDE DEF seen, refs
<1>2. CASE s = 1
  <2>1. Patterns[s] = ContinuationPattern /\ Output(slot, s, m, bar) = ContinuationOutput(slot, m, bar)
    BY <1>2 DEF Patterns, Output, Continuation, Reversal, Compression
  <2> HIDE DEF slot
  <2> QED BY <1>1, <2>1, ContinuationAccepted
<1>3. CASE s = 2
  <2>1. Patterns[s] = ReversalPattern /\ Output(slot, s, m, bar) = ReversalOutput(slot, m)
    BY <1>3 DEF Patterns, Output, Continuation, Reversal, Compression
  <2> HIDE DEF slot
  <2> QED BY <1>1, <2>1, ReversalAccepted
<1>4. CASE s = 3
  <2>1. Patterns[s] = CompressionPattern /\ Output(slot, s, m, bar) = CompressionOutput(slot, m)
    BY <1>4 DEF Patterns, Output, Continuation, Reversal, Compression
  <2>2. slot.state = "CANDIDATE" => Began(rt, slot, n)
    BY <1>4 DEF Compression
  <2>3. Began(rt, slot, n) =>
          /\ "started" \in DOMAIN slot.context
          /\ slot.context.started \in Nat /\ slot.context.started <= m.bars
          /\ slot.context.started \in OwnTimes(rt, s, slot.ordinal)
    BY <1>4 DEF Began, Compression
  <2> HIDE DEF slot
  <2> QED BY <2>1, <2>2, <2>3, CompressionAccepted
<1>5. s = 1 \/ s = 2 \/ s = 3
  OBVIOUS
<1> QED BY <1>2, <1>3, <1>4, <1>5

\* A compression becomes or stays a candidate.
LEMMA CompressionBegins ==
    ASSUME ThresholdsDescend, NEW slot, NEW m, CompressionOutput(slot, m).state = "CANDIDATE"
    PROVE  \/ /\ slot.state = "INACTIVE"
              /\ CompressionOutput(slot, m).intents =
                   <<Intent(slot, CompressionPattern.edges[1], m.bars, m.bars, {})>>
              /\ "started" \in DOMAIN CompressionOutput(slot, m).context
              /\ CompressionOutput(slot, m).context.started = m.bars
           \/ /\ slot.state = "CANDIDATE"
              /\ CompressionOutput(slot, m).intents = <<>>
              /\ CompressionOutput(slot, m).context =
                   [slot.context EXCEPT !.count = slot.context.count + 1]
<1> DEFINE out == CompressionOutput(slot, m)
           r == m.range
           n == m.bars
           d == CompressionPattern
<1>1. out = CASE slot.state = "INACTIVE" -> CompressionOpens(slot, r, n)
              [] slot.state = "CANDIDATE" -> CompressionPersists(slot, r, n)
              [] slot.state = "ACTIVE" -> CompressionReleases(slot, r, n)
              [] OTHER -> Unmoved(slot, slot.context)
  BY DEF CompressionOutput, ThresholdsDescend
<1>2. /\ d.edges[1].to = "CANDIDATE" /\ d.edges[2].to = "ACTIVE"
      /\ d.edges[3].to = "INVALIDATED" /\ d.edges[4].to = "COMPLETED"
  BY DEF CompressionPattern, Edge
<1>3. \A context : Unmoved(slot, context).state = slot.state
                   /\ Unmoved(slot, context).intents = <<>>
                   /\ Unmoved(slot, context).context = context
  BY DEF Unmoved
<1>4. \A edge, event, context :
        /\ Moved(slot, <<Intent(slot, edge, event, n, {})>>, context).state = edge.to
        /\ Moved(slot, <<Intent(slot, edge, event, n, {})>>, context).context = context
        /\ Moved(slot, <<Intent(slot, edge, event, n, {})>>, context).intents =
             <<Intent(slot, edge, event, n, {})>>
  <2>1. ASSUME NEW edge, NEW event, NEW context
        PROVE  /\ Moved(slot, <<Intent(slot, edge, event, n, {})>>, context).state = edge.to
               /\ Moved(slot, <<Intent(slot, edge, event, n, {})>>, context).context = context
               /\ Moved(slot, <<Intent(slot, edge, event, n, {})>>, context).intents =
                    <<Intent(slot, edge, event, n, {})>>
    <3> DEFINE intent == Intent(slot, edge, event, n, {})
               one == <<intent>>
               o == Moved(slot, one, context)
    <3>1. intent.edge = edge
      BY DEF Intent
    <3> HIDE DEF intent
    <3>2. o = [raised |-> FALSE, ordinal |-> slot.ordinal, intents |-> one,
               state |-> intent.edge.to, context |-> context]
      BY MovedOne
    <3> HIDE DEF o, one
    <3>3. o.state = edge.to /\ o.context = context /\ o.intents = one
      BY <3>1, <3>2
    <3> QED BY <3>3 DEF o, one, intent
  <2> QED BY <2>1
<1>5. out.state = "CANDIDATE"
  OBVIOUS
<1> SUFFICES \/ /\ slot.state = "INACTIVE"
                /\ out.intents = <<Intent(slot, d.edges[1], n, n, {})>>
                /\ "started" \in DOMAIN out.context /\ out.context.started = n
             \/ /\ slot.state = "CANDIDATE"
                /\ out.intents = <<>>
                /\ out.context = [slot.context EXCEPT !.count = slot.context.count + 1]
  OBVIOUS
<1> HIDE DEF out, r, n, d
<1>6. CASE slot.state = "INACTIVE"
  <2>1. out = CompressionOpens(slot, r, n)
    BY <1>1, <1>6
  <2>2. Qualifies(r)
    BY <1>3, <1>5, <1>6, <2>1 DEF CompressionOpens
  <2> DEFINE context == [started |-> n, count |-> 1, observed |-> 0, cause |-> {}]
  <2>3. out = Moved(slot, <<Intent(slot, d.edges[1], n, n, {})>>, context)
    BY <2>1, <2>2 DEF CompressionOpens, d
  <2>4. "started" \in DOMAIN context /\ context.started = n
    OBVIOUS
  <2> HIDE DEF context
  <2> QED BY <1>4, <1>6, <2>3, <2>4
<1>7. CASE slot.state = "CANDIDATE"
  <2> DEFINE count == slot.context.count + 1
             context == [slot.context EXCEPT !.count = count]
  <2>1. out = IF ~Qualifies(r)
              THEN Moved(slot, <<Intent(slot, d.edges[3], n, n, {})>>,
                         [slot.context EXCEPT !.cause = {Interruption(r)}])
              ELSE IF count < ConfirmationBars THEN Unmoved(slot, context)
              ELSE Moved(slot, <<Intent(slot, d.edges[2], context.started, n, {})>>,
                         [context EXCEPT !.observed = 1])
    BY <1>1, <1>7 DEF CompressionPersists, d
  <2> HIDE DEF context
  <2>2. out = Unmoved(slot, context)
    BY <1>2, <1>4, <1>5, <2>1
  <2> QED BY <1>3, <1>7, <2>2 DEF context
<1>8. CASE slot.state = "ACTIVE"
  <2>1. out = CompressionReleases(slot, r, n)
    BY <1>1, <1>8
  <2>2. out.state # "CANDIDATE"
    BY <1>2, <1>3, <1>4, <1>8, <2>1 DEF CompressionReleases, d
  <2> QED BY <1>5, <2>2
<1>9. CASE slot.state \notin {"INACTIVE", "CANDIDATE", "ACTIVE"}
  BY <1>1, <1>3, <1>5, <1>9
<1> QED BY <1>6, <1>7, <1>8, <1>9

-------------------------------------------------------------------------------
(* The whole state.                                                        *)

\* Joining two logs loses nothing of either.
LEMMA JoinedLogs ==
    ASSUME NEW a, a \in Seq(ValuesOf(a)), NEW b, b \in Seq(ValuesOf(b))
    PROVE  /\ a \o b \in Seq(ValuesOf(a \o b))
           /\ ValuesOf(a) \subseteq ValuesOf(a \o b)
           /\ ValuesOf(b) \subseteq ValuesOf(a \o b)
<1> DEFINE A == ValuesOf(a)
           B == ValuesOf(b)
           c == a \o b
<1>1. a \in Seq(A) /\ b \in Seq(B)
  OBVIOUS
<1>2. DOMAIN a = 1..Len(a) /\ DOMAIN b = 1..Len(b) /\ Len(a) \in Nat /\ Len(b) \in Nat
  <2> HIDE DEF A, B
  <2> QED BY <1>1
<1>3. /\ c \in Seq(A \cup B) /\ DOMAIN c = 1..(Len(a) + Len(b))
      /\ \A i \in 1..Len(a) : c[i] = a[i]
      /\ \A i \in 1..Len(b) : c[Len(a) + i] = b[i]
  <2> HIDE DEF A, B
  <2> QED BY <1>1
<1>4. Len(c) = Len(a) + Len(b)
  <2> HIDE DEF A, B
  <2> QED BY <1>1
<1> HIDE DEF c, A, B
<1>5. ValuesOf(a) \subseteq ValuesOf(c)
  BY <1>2, <1>3 DEF ValuesOf
<1>6. ValuesOf(b) \subseteq ValuesOf(c)
  <2>1. ASSUME NEW i \in 1..Len(b) PROVE \E k \in DOMAIN c : c[k] = b[i]
    <3>1. Len(a) + i \in DOMAIN c
      BY <1>2, <1>3
    <3> QED BY <1>3, <3>1
  <2> QED BY <1>2, <2>1 DEF ValuesOf
<1>7. c \in Seq(ValuesOf(c))
  <2>1. \A i \in 1..Len(c) : c[i] \in ValuesOf(c)
    BY <1>3, <1>4 DEF ValuesOf
  <2>2. Len(c) \in Nat /\ c = [i \in 1..Len(c) |-> c[i]]
    BY <1>2, <1>3, <1>4
  <2> QED BY <2>1, <2>2
<1> QED BY <1>5, <1>6, <1>7 DEF c

\* What a slot commits of a bar is a sequence of events.
LEMMA ToldIsLog ==
    ASSUME NEW slot, NEW s, NEW out, Short(out.intents)
    PROVE  Committed(slot, s, out) \in Seq(ValuesOf(Committed(slot, s, out)))
<1> DEFINE told == Committed(slot, s, out)
<1>1. PICK k \in 0..2 : DOMAIN out.intents = 1..k
  BY DEF Short
<1>2. told = [i \in 1..k |-> told[i]]
  BY <1>1 DEF Committed
<1> HIDE DEF told
<1>3. \A i \in 1..k : told[i] \in ValuesOf(told)
  BY <1>2 DEF ValuesOf
<1>4. told \in Seq(ValuesOf(told))
  BY <1>2, <1>3
<1> QED BY <1>4 DEF told

OwnIn(values, s, ordinal) == {x.event : x \in {v \in values : v.slot = s /\ v.ordinal = ordinal}}

LEMMA OwnTimesAre ==
    ASSUME NEW rt, NEW s, NEW ordinal
    PROVE  OwnTimes(rt, s, ordinal) = OwnIn(ValuesOf(rt.log), s, ordinal)
BY DEF OwnTimes, OwnIn, ValuesOf

\* An occurrence a binding is offered is its slot's or a fresh one.
LEMMA OfferedCompression ==
    ASSUME NEW rt, NEW n \in Nat, RuntimeTypes(rt, n),
           Offer(rt, Compression).state = "CANDIDATE"
    PROVE  Offer(rt, Compression) = rt.slots[Compression] /\ Began(rt, Offer(rt, Compression), n)
<1>1. Patterns[Compression] = CompressionPattern
  BY DEF Patterns, Compression
<1>2. \A k : FreshSlot(CompressionPattern, k).state = "INACTIVE"
  BY DEF FreshSlot, InitialState, CompressionPattern
<1>3. Offer(rt, Compression) = rt.slots[Compression]
  BY <1>1, <1>2 DEF Offer, Offered
<1> QED BY <1>3 DEF RuntimeTypes

LEMMA OfferedShape ==
    ASSUME NEW rt, SlotShape(rt.slots[Compression])
    PROVE  SlotShape(Offer(rt, Compression))
<1>1. \A d, k : SlotShape(FreshSlot(d, k))
  BY DEF SlotShape, FreshSlot
<1> QED BY <1>1 DEF Offer, Offered

LEMMA CommitIs ==
    ASSUME NEW slot, SlotShape(slot), NEW out
    PROVE  Commit(slot, out) = [ordinal |-> slot.ordinal, state |-> out.state,
                                next |-> slot.next + Len(out.intents), context |-> out.context]
<1> DEFINE made == Commit(slot, out)
<1>1. DOMAIN slot = {"ordinal", "state", "next", "context"}
  BY DEF SlotShape
<1>2. /\ DOMAIN made = DOMAIN slot
      /\ made.ordinal = slot.ordinal /\ made.state = out.state
      /\ made.next = slot.next + Len(out.intents) /\ made.context = out.context
      /\ made = [x \in DOMAIN made |-> made[x]]
  BY <1>1 DEF Commit
<1> HIDE DEF made
<1>3. made = [ordinal |-> made.ordinal, state |-> made.state, next |-> made.next,
              context |-> made.context]
  BY <1>1, <1>2
<1> QED BY <1>2, <1>3 DEF made

AllAccepted(rt, m, bar) ==
    \A s \in 1..3 : Accepts(Patterns[s], rt, s, Offer(rt, s), Out(rt, s, m, bar),
                            rt.seen \cup EventsOf(m), rt.refs \cup RefsIn(m), m.bars)

\* A step of the runtime commits the bar for every binding.
LEMMA RuntimeCommits ==
    ASSUME NEW n \in Nat \ {0}, NEW rt, RuntimeTypes(rt, n - 1), NEW m, m.bars = n, NEW bar,
           Publishes(m, bar), ThresholdsDescend
    PROVE  /\ Steps(rt, StepOf(rt, m, bar), m, bar) /\ RuntimeShape(StepOf(rt, m, bar))
           /\ \A s \in 1..3 : Told3(rt, s, m, bar) \in Seq(ValuesOf(Told3(rt, s, m, bar)))
           /\ AllAccepted(rt, m, bar)
<1> DEFINE new == StepOf(rt, m, bar)
           slot == Offer(rt, Compression)
           A(s) == Accepts(Patterns[s], rt, s, Offer(rt, s), Out(rt, s, m, bar),
                           rt.seen \cup EventsOf(m), rt.refs \cup RefsIn(m), m.bars)
<1>1. slot.state = "CANDIDATE" => slot = rt.slots[Compression] /\ Began(rt, slot, n - 1)
  BY OfferedCompression
<1>2. Began(rt, slot, n - 1) => Began(rt, slot, n)
  BY DEF Began
<1>3. \A s \in 1..3 : A(s)
  <2> HIDE DEF A, slot
  <2>1. ASSUME NEW s \in 1..3 PROVE A(s)
    BY <1>1, <1>2, DetectorsAccepted DEF A, slot
  <2> QED BY <2>1
<1>4. Steps(rt, new, m, bar) /\ RuntimeShape(new)
  <2>1. \A s \in 1..3 : Accepted(Patterns[s], rt, s, Offer(rt, s), Out(rt, s, m, bar),
                                 rt.seen \cup EventsOf(m), rt.refs \cup RefsIn(m), m.bars)
    BY <1>3 DEF Accepts
  <2>2. RuntimeShape(rt) /\ rt.failed = FALSE /\ ~(m.bars <= rt.last)
    BY DEF RuntimeTypes
  <2> QED BY <2>1, <2>2, StepCommits
<1>5. ASSUME NEW s \in 1..3 PROVE Told3(rt, s, m, bar) \in Seq(ValuesOf(Told3(rt, s, m, bar)))
  BY <1>3, ToldIsLog DEF Told3, Accepts
<1>6. AllAccepted(rt, m, bar)
  BY <1>3 DEF AllAccepted
<1> QED BY <1>4, <1>5, <1>6

\* It does not latch and keeps its types.
LEMMA RuntimeSteps ==
    ASSUME NEW n \in Nat \ {0}, NEW rt, RuntimeTypes(rt, n - 1), NEW m, m.bars = n, NEW bar,
           Publishes(m, bar), ThresholdsDescend
    PROVE  RuntimeTypes(StepOf(rt, m, bar), n)
<1> DEFINE new == StepOf(rt, m, bar)
           slot == Offer(rt, Compression)
           out == Out(rt, Compression, m, bar)
           t1 == Told3(rt, 1, m, bar)
           t2 == Told3(rt, 2, m, bar)
           t3 == Told3(rt, 3, m, bar)
<1>1. slot.state = "CANDIDATE" => slot = rt.slots[Compression] /\ Began(rt, slot, n - 1)
  BY OfferedCompression
<1>2. Began(rt, slot, n - 1) => Began(rt, slot, n)
  BY DEF Began
<1>4. Steps(rt, new, m, bar) /\ RuntimeShape(new)
  BY RuntimeCommits
<1>5. /\ t1 \in Seq(ValuesOf(t1)) /\ t2 \in Seq(ValuesOf(t2)) /\ t3 \in Seq(ValuesOf(t3))
  <2>1. \A s \in 1..3 : Told3(rt, s, m, bar) \in Seq(ValuesOf(Told3(rt, s, m, bar)))
    BY RuntimeCommits
  <2> QED BY <2>1
<1> HIDE DEF t1, t2, t3
<1>6. /\ new.log \in Seq(ValuesOf(new.log))
      /\ ValuesOf(rt.log) \subseteq ValuesOf(new.log)
      /\ ValuesOf(t3) \subseteq ValuesOf(new.log)
  <2>1. new.log = rt.log \o ((t1 \o t2) \o t3)
    BY <1>4 DEF Steps, t1, t2, t3
  <2>2. rt.log \in Seq(ValuesOf(rt.log))
    BY DEF RuntimeTypes
  <2> DEFINE told == (t1 \o t2) \o t3
  <2>3. t1 \o t2 \in Seq(ValuesOf(t1 \o t2))
    BY <1>5, JoinedLogs
  <2>4. told \in Seq(ValuesOf(told)) /\ ValuesOf(t3) \subseteq ValuesOf(told)
    BY <1>5, <2>3, JoinedLogs
  <2> HIDE DEF told
  <2>5. rt.log \o told \in Seq(ValuesOf(rt.log \o told))
        /\ ValuesOf(rt.log) \subseteq ValuesOf(rt.log \o told)
        /\ ValuesOf(told) \subseteq ValuesOf(rt.log \o told)
    BY <2>2, <2>4, JoinedLogs
  <2>6. new.log = rt.log \o told
    BY <2>1 DEF told
  <2> HIDE DEF new
  <2> QED BY <2>4, <2>5, <2>6
<1>7. \A k : OwnTimes(rt, Compression, k) \subseteq OwnTimes(new, Compression, k)
  <2> HIDE DEF new
  <2> QED BY <1>6, OwnTimesAre DEF OwnIn
<1>8. new.slots[Compression] = Commit(slot, out)
  BY <1>4 DEF Steps, Compression, slot, out
<1> HIDE DEF new
<1>9. /\ SlotShape(new.slots[Compression])
      /\ new.slots[Compression].state = out.state /\ new.slots[Compression].context = out.context
      /\ new.slots[Compression].ordinal = slot.ordinal
  <2>1. SlotShape(slot)
    BY OfferedShape DEF RuntimeTypes, Compression
  <2> HIDE DEF slot, out
  <2> DEFINE next == slot.next + Len(out.intents)
             made == Commit(slot, out)
  <2>2. made = [ordinal |-> slot.ordinal, state |-> out.state, next |-> next, context |-> out.context]
    BY <2>1, CommitIs
  <2> HIDE DEF next, made
  <2>3. SlotShape(made) /\ made.state = out.state /\ made.context = out.context
        /\ made.ordinal = slot.ordinal
    BY <2>2 DEF SlotShape
  <2> QED BY <1>8, <2>3 DEF made
<1>10. ASSUME new.slots[Compression].state = "CANDIDATE"
       PROVE  Began(new, new.slots[Compression], n)
  <2> DEFINE at == new.slots[Compression]
  <2>1. SUFFICES /\ "started" \in DOMAIN out.context /\ out.context.started \in Nat
                 /\ out.context.started <= n
                 /\ out.context.started \in OwnTimes(new, Compression, slot.ordinal)
    BY <1>9 DEF Began
  <2>2. out = CompressionOutput(slot, m)
    BY DEF Out, Output, Continuation, Reversal, Compression
  <2>3. out.state = "CANDIDATE"
    BY <1>9, <1>10
  <2> DEFINE opening1 == Intent(slot, CompressionPattern.edges[1], n, n, {})
  <2>4. \/ /\ slot.state = "INACTIVE" /\ out.intents = <<opening1>>
           /\ "started" \in DOMAIN out.context /\ out.context.started = n
        \/ /\ slot.state = "CANDIDATE"
           /\ out.context = [slot.context EXCEPT !.count = slot.context.count + 1]
    <3> HIDE DEF slot, out
    <3> QED BY <2>2, <2>3, CompressionBegins
  <2> HIDE DEF slot, out, at
  <2>5. CASE /\ slot.state = "INACTIVE" /\ out.intents = <<opening1>>
             /\ "started" \in DOMAIN out.context /\ out.context.started = n
    <3>1. t3 = Committed(slot, 3, out)
      BY DEF t3, Told3, slot, out, Compression
    <3>2. opening1.event = n
      BY DEF Intent
    <3> HIDE DEF opening1
    <3>3. DOMAIN out.intents = {1} /\ out.intents[1].event = n
      BY <2>5, <3>2
    <3>4. t3[1].slot = 3 /\ t3[1].ordinal = slot.ordinal /\ t3[1].event = n /\ 1 \in DOMAIN t3
      BY <3>1, <3>3 DEF Committed
    <3>5. t3[1] \in ValuesOf(new.log)
      BY <1>6, <3>4 DEF ValuesOf
    <3>6. n \in OwnTimes(new, Compression, slot.ordinal)
      BY <3>4, <3>5, OwnTimesAre DEF OwnIn, Compression
    <3> QED BY <2>5, <3>6
  <2>6. CASE /\ slot.state = "CANDIDATE"
             /\ out.context = [slot.context EXCEPT !.count = slot.context.count + 1]
    <3>1. Began(rt, slot, n)
      BY <1>1, <1>2, <2>6 DEF slot
    <3>2. "started" \in DOMAIN out.context /\ out.context.started = slot.context.started
      BY <2>6, <3>1 DEF Began
    <3> QED BY <1>7, <3>1, <3>2 DEF Began
  <2> QED BY <2>4, <2>5, <2>6
<1>11. RuntimeTypes(new, n)
  <2>1. new.last = n /\ new.failed = FALSE /\ RuntimeShape(new)
    BY <1>4 DEF Steps, new
  <2> QED BY <1>6, <1>9, <1>10, <2>1 DEF RuntimeTypes
<1> QED BY <1>11 DEF new

LEMMA FreshSwingsTyped == SwingTypes(FreshSwings, 0)
<1> DEFINE sw == FreshSwings
<1>1. /\ sw.confirmed = <<>> /\ sw.search = Sides
      /\ sw.candidate = [s \in Sides |-> {}] /\ sw.opposite = [s \in Sides |-> {}]
      /\ sw = [confirmed |-> sw.confirmed, search |-> sw.search, candidate |-> sw.candidate,
               opposite |-> sw.opposite]
  BY DEF FreshSwings
<1> HIDE DEF sw
<1>2. Confirmed(<<>>, 0)
  BY DEF Confirmed
<1>3. Extremal({}, 0)
  BY DEF Extremal, Optional
<1>4. \A s \in Sides : sw.candidate[s] = {} /\ sw.opposite[s] = {}
  BY <1>1
<1> QED BY <1>1, <1>2, <1>3, <1>4 DEF SwingTypes, sw

\* Nothing has been consumed.
LEMMA FreshMarketTyped == MarketTypes(FreshMarket)
<1>1. AtrTypes(FreshAtr)
  BY DEF AtrTypes, FreshAtr, Optional
<1>2. SwingTypes(FreshSwings, 0)
  BY FreshSwingsTyped
<1>3. StructureTypes(FreshStructure, 0, 0)
  BY DEF StructureTypes, FreshStructure, Optional
<1>4. LegTypes(FreshLegs, 0, 0)
  BY DEF LegTypes, FreshLegs, Optional
<1>5. QualificationTypes(FreshQualification, {})
  BY DEF QualificationTypes, FreshQualification
<1>6. Len(FreshSwings.confirmed) = 0 /\ FreshLegs.active = {}
  BY DEF FreshSwings, FreshLegs
<1> QED BY <1>1, <1>2, <1>3, <1>4, <1>5, <1>6 DEF MarketTypes, FreshMarket

LEMMA FreshRuntimeTyped == RuntimeTypes(FreshRuntime(Patterns), 0)
<1> DEFINE rt == FreshRuntime(Patterns)
<1>1. RuntimeShape(rt) /\ rt.failed = FALSE /\ rt.last = -1 /\ rt.log = <<>>
  BY DEF FreshRuntime, RuntimeShape, Never
<1>2. rt.slots[Compression] = FreshSlot(CompressionPattern, 0)
  BY DEF FreshRuntime, Patterns, Compression
<1>3. SlotShape(FreshSlot(CompressionPattern, 0))
      /\ FreshSlot(CompressionPattern, 0).state = "INACTIVE"
  BY DEF SlotShape, FreshSlot, InitialState, CompressionPattern
<1> HIDE DEF rt
<1>4. rt.log \in Seq(ValuesOf(rt.log))
  BY <1>1
<1> QED BY <1>1, <1>2, <1>3, <1>4 DEF RuntimeTypes, rt

-----------------------------------------------------------------------------
\* The state after the bars consumed so far: neither the market state nor the
\* runtime has refused one of them.
MarketInv ==
    /\ bars \in Seq(Bar)
    /\ opening \in Seq(Move)
    /\ MarketTypes(market)
    /\ market.bars = Len(bars)
    /\ RuntimeTypes(runtime, Len(bars))

LEMMA InitHolds == Init => MarketInv
<1> SUFFICES ASSUME Init PROVE MarketInv
  OBVIOUS
<1>1. bars \in Seq(Bar) /\ Len(bars) = 0
  BY DEF Init
<1>2. opening \in Seq(Move)
  BY BarsAssumption DEF Init
<1>3. market.bars = 0
  BY DEF Init, FreshMarket
<1> QED BY <1>1, <1>2, <1>3, FreshMarketTyped, FreshRuntimeTyped DEF Init, MarketInv

\* A move makes a bar.
LEMMA BarIsBar ==
    ASSUME bars \in Seq(Bar), NEW m \in Move
    PROVE  BarOf(m) \in Bar
<1> DEFINE open == LastClose + m.gap
           close == LastClose + m.move
           wick == m.wick
<1>1. LastClose \in Int
  <2>1. CASE bars = <<>>
    BY <2>1, BarsAssumption DEF LastClose
  <2>2. CASE bars # <<>>
    <3>1. bars[Len(bars)] \in Bar
      BY <2>2
    <3> QED BY <2>2, <3>1 DEF LastClose, Bar
  <2> QED BY <2>1, <2>2
<1>2. open \in Int /\ close \in Int /\ wick \in Nat
  BY <1>1 DEF Move
<1>3. BarOf(m) = [open |-> open, high |-> Max({open, close}) + wick,
                  low |-> Min({open, close}) - wick, close |-> close]
  BY DEF BarOf
<1> HIDE DEF open, close, wick
<1> DEFINE high == Max({open, close}) + wick
           low == Min({open, close}) - wick
<1>4. /\ high \in Int /\ low \in Int
      /\ low <= open /\ open <= high /\ low <= close /\ close <= high
  BY <1>2, MaxOfTwo, MinOfTwo
<1> HIDE DEF high, low
<1> DEFINE bar == [open |-> open, high |-> high, low |-> low, close |-> close]
<1>5. /\ bar \in [open : Int, high : Int, low : Int, close : Int]
      /\ bar.low <= bar.open /\ bar.open <= bar.high
      /\ bar.low <= bar.close /\ bar.close <= bar.high
  BY <1>2, <1>4
<1>6. BarOf(m) = bar
  BY <1>3 DEF high, low
<1> HIDE DEF bar
<1> QED BY <1>5, <1>6 DEF Bar

LEMMA ProcessIs ==
    ASSUME NEW m, m.raised = FALSE, NEW rt, rt.failed = FALSE, NEW bar,
           MarketUpdate(m, bar).raised = FALSE
    PROVE  /\ Process(m, rt, bar).market = MarketUpdate(m, bar)
           /\ Process(m, rt, bar).runtime = StepOf(rt, MarketUpdate(m, bar), bar)
BY DEF Process, StepOf

\* A bar consumed, when nothing has been refused.
Consumes(bar) ==
    /\ bars' = Append(bars, bar)
    /\ opening' = opening
    /\ market' = MarketUpdate(market, bar)
    /\ MarketTypes(market') /\ Advanced(market, market', bar) /\ Publishes(market', bar)
    /\ runtime' = StepOf(runtime, market', bar)

LEMMA ConsumeIs ==
    ASSUME MarketInv, NEW m \in Move, Consume(m)
    PROVE  BarOf(m) \in Bar /\ Consumes(BarOf(m))
<1> DEFINE bar == BarOf(m)
           new == MarketUpdate(market, bar)
<1>1. bar \in Bar
  BY BarIsBar DEF MarketInv
<1> HIDE DEF bar
<1>2. MarketTypes(new) /\ Advanced(market, new, bar) /\ Publishes(new, bar)
  BY <1>1, MarketUpdateTyped DEF MarketInv
<1>3. bars' = Append(bars, bar) /\ opening' = opening
      /\ market' = Process(market, runtime, bar).market
      /\ runtime' = Process(market, runtime, bar).runtime
  BY DEF Consume, bar
<1>4. market.raised = FALSE /\ runtime.failed = FALSE /\ new.raised = FALSE
  BY <1>2 DEF MarketInv, MarketTypes, RuntimeTypes
<1> HIDE DEF new
<1>5. market' = new /\ runtime' = StepOf(runtime, new, bar)
  BY <1>3, <1>4, ProcessIs DEF new
<1>6. Consumes(bar)
  BY <1>2, <1>3, <1>5 DEF Consumes, new
<1> QED BY <1>1, <1>6 DEF bar

LEMMA NextConsumes ==
    ASSUME MarketInv, Next
    PROVE  \E bar \in Bar : Consumes(bar)
<1>1. PICK m \in IF Len(bars) < Len(opening) THEN {opening[Len(bars) + 1]} ELSE Moves : Consume(m)
  BY DEF Next
<1>2. m \in Move
  <2>1. CASE Len(bars) < Len(opening)
    <3>1. Len(bars) + 1 \in 1..Len(opening) /\ m = opening[Len(bars) + 1]
      BY <1>1, <2>1 DEF MarketInv
    <3> QED BY <3>1 DEF MarketInv
  <2>2. CASE ~(Len(bars) < Len(opening))
    BY <1>1, <2>2, BarsAssumption
  <2> QED BY <2>1, <2>2
<1> QED BY <1>1, <1>2, ConsumeIs

\* A bar consumed keeps the invariant.
LEMMA ConsumeKeeps ==
    ASSUME ThresholdsDescend, MarketInv, NEW bar \in Bar, Consumes(bar)
    PROVE  MarketInv'
<1> DEFINE n == Len(bars) + 1
<1>1. bars' \in Seq(Bar) /\ Len(bars') = n /\ n \in Nat \ {0} /\ Len(bars) = n - 1
  BY DEF MarketInv, Consumes
<1>2. market'.bars = n
  BY DEF Advanced, MarketInv, Consumes
<1> HIDE DEF n
<1>3. RuntimeTypes(runtime', n)
  BY <1>1, <1>2, RuntimeSteps DEF MarketInv, Consumes
<1> QED BY <1>1, <1>2, <1>3 DEF MarketInv, Consumes

\* The invariant is inductive.
LEMMA NextKeeps == ThresholdsDescend /\ MarketInv /\ [Next]_vars => MarketInv'
<1> SUFFICES ASSUME ThresholdsDescend, MarketInv, [Next]_vars PROVE MarketInv'
  OBVIOUS
<1>1. CASE UNCHANGED vars
  BY <1>1 DEF vars, MarketInv
<1>2. CASE Next
  BY <1>2, NextConsumes, ConsumeKeeps
<1> QED BY <1>1, <1>2

\* Whatever the bars and the parameters, no component of the chain refuses what
\* the one before it made of a bar and no detector returns what the runtime
\* rejects, so nothing latches (runtime.py:658): as long as the release
\* thresholds of the compression are below its entry thresholds, which the
\* detector refuses every bar without.
THEOREM NoBarIsEverRefused == ThresholdsDescend => (Spec => []NoBarIsRefused)
<1> SUFFICES ASSUME ThresholdsDescend PROVE Spec => []NoBarIsRefused
  OBVIOUS
<1>1. MarketInv => NoBarIsRefused
  BY DEF MarketInv, MarketTypes, RuntimeTypes, NoBarIsRefused
<1>2. MarketInv /\ [Next]_vars => MarketInv'
  BY NextKeeps
<1> QED BY InitHolds, <1>1, <1>2, PTL DEF Spec

-------------------------------------------------------------------------------
(* Swings against their definition over the bars.                          *)

Prices(bs, n) == \A j \in 1..n : bs[j] \in Bar

\* c is the earliest most extreme of the bars from..n, frozen as it was then.
Holds(bs, atr, c, s, from, n) ==
    /\ c.bar \in from..n
    /\ c.price = PriceOf(s, bs[c.bar])
    /\ c.atr = atr[c.bar]
    /\ c.threshold = (ReversalPercent * c.atr) \div 100
    /\ \A j \in from..n : ~Beyond(s, PriceOf(s, bs[j]), c.price)
    /\ \A j \in from..(c.bar - 1) : Beyond(s, c.price, PriceOf(s, bs[j]))

RunningOf(bs, s, from, n) ==
    Min({i \in from..n : \A j \in from..n : ~Beyond(s, PriceOf(s, bs[j]), PriceOf(s, bs[i]))})

LEMMA PriceIsInt ==
    ASSUME NEW s \in Sides, NEW bar \in Bar PROVE PriceOf(s, bar) \in Int
BY DEF PriceOf, Bar

LEMMA HeldIsRunning ==
    ASSUME NEW n \in Nat, NEW bs, Prices(bs, n), NEW atr, NEW s \in Sides, NEW from \in Nat \ {0},
           NEW c, Holds(bs, atr, c, s, from, n)
    PROVE  RunningOf(bs, s, from, n) = c.bar
<1> DEFINE S == {i \in from..n : \A j \in from..n : ~Beyond(s, PriceOf(s, bs[j]), PriceOf(s, bs[i]))}
           p(j) == PriceOf(s, bs[j])
<1>1. \A j \in from..n : p(j) \in Int
  BY PriceIsInt DEF Prices
<1>2. c.bar \in S
  BY DEF Holds
<1>3. ASSUME NEW i \in S PROVE c.bar <= i
  <2>1. i \in from..n /\ c.bar \in from..n
    BY DEF Holds
  <2>2. CASE i < c.bar
    <3>1. Beyond(s, p(c.bar), p(i))
      BY <2>1, <2>2 DEF Holds
    <3> QED BY <2>1, <3>1
  <2> QED BY <2>1, <2>2
<1>4. \A x \in S : x \in Int
  OBVIOUS
<1> HIDE DEF S
<1>5. Min(S) \in S /\ \A y \in S : Min(S) <= y
  BY <1>2, <1>3 DEF Min
<1>6. Min(S) = c.bar
  BY <1>2, <1>3, <1>4, <1>5
<1> QED BY <1>6 DEF RunningOf, S

LEMMA HeldByBars ==
    ASSUME NEW n \in Nat, NEW bs, NEW atr, NEW cs, NEW atr2, NEW s \in Sides, NEW from \in Nat \ {0},
           NEW c, Holds(bs, atr, c, s, from, n),
           \A j \in 1..n : cs[j] = bs[j] /\ atr2[j] = atr[j]
    PROVE  Holds(cs, atr2, c, s, from, n)
BY DEF Holds

LEMMA RunningByBars ==
    ASSUME NEW n \in Nat, NEW bs, NEW cs, NEW s \in Sides, NEW from \in Nat \ {0},
           \A j \in 1..n : cs[j] = bs[j]
    PROVE  RunningOf(cs, s, from, n) = RunningOf(bs, s, from, n)
<1> DEFINE A == {i \in from..n : \A j \in from..n : ~Beyond(s, PriceOf(s, bs[j]), PriceOf(s, bs[i]))}
           B == {i \in from..n : \A j \in from..n : ~Beyond(s, PriceOf(s, cs[j]), PriceOf(s, cs[i]))}
<1>1. \A j \in from..n : cs[j] = bs[j]
  OBVIOUS
<1>2. A = B
  BY <1>1
<1> QED BY <1>2 DEF RunningOf

\* A fresh extreme.
LEMMA FreshHolds ==
    ASSUME NEW n \in Nat \ {0}, NEW bs, Prices(bs, n), NEW atr, NEW s \in Sides
    PROVE  Holds(bs, atr, Extreme(s, bs[n], n, atr[n]), s, n, n)
<1> DEFINE c == Extreme(s, bs[n], n, atr[n])
<1>1. /\ c.bar = n /\ c.price = PriceOf(s, bs[n]) /\ c.atr = atr[n]
      /\ c.threshold = (ReversalPercent * atr[n]) \div 100
  BY DEF Extreme
<1>2. PriceOf(s, bs[n]) \in Int
  BY PriceIsInt DEF Prices
<1> HIDE DEF c
<1>3. Holds(bs, atr, c, s, n, n)
  BY <1>1, <1>2 DEF Holds, Beyond
<1> QED BY <1>3 DEF c

\* A bar beyond the extreme replaces it.
LEMMA BeyondHolds ==
    ASSUME NEW n \in Nat \ {0}, NEW bs, Prices(bs, n), NEW atr, NEW s \in Sides,
           NEW from \in 1..n, NEW c \in ExtremeType, Holds(bs, atr, c, s, from, n - 1),
           Beyond(s, PriceOf(s, bs[n]), c.price)
    PROVE  Holds(bs, atr, Extreme(s, bs[n], n, atr[n]), s, from, n)
<1> DEFINE d == Extreme(s, bs[n], n, atr[n])
           p(j) == PriceOf(s, bs[j])
<1>1. /\ d.bar = n /\ d.price = p(n) /\ d.atr = atr[n]
      /\ d.threshold = (ReversalPercent * atr[n]) \div 100
  BY DEF Extreme
<1>2. \A j \in 1..n : p(j) \in Int
  BY PriceIsInt DEF Prices
<1>3. c.price \in Int
  BY DEF ExtremeType
<1>4. \A j \in from..(n - 1) : ~Beyond(s, p(j), c.price)
  BY DEF Holds
<1>5. Beyond(s, p(n), c.price)
  OBVIOUS
<1> HIDE DEF d, p
<1>6. \A j \in from..(n - 1) : Beyond(s, p(n), p(j)) /\ ~Beyond(s, p(j), p(n))
  BY <1>2, <1>3, <1>4, <1>5 DEF Beyond
<1>7. \A j \in from..n : ~Beyond(s, p(j), p(n))
  <2>1. \A j \in from..n : j = n \/ j \in from..(n - 1)
    OBVIOUS
  <2>2. p(n) \in Int
    BY <1>2
  <2>3. ~Beyond(s, p(n), p(n))
    BY <2>2 DEF Beyond
  <2> QED BY <1>6, <2>1, <2>3
<1>8. Holds(bs, atr, d, s, from, n)
  BY <1>1, <1>6, <1>7 DEF Holds, p
<1> QED BY <1>8 DEF d

\* A bar not beyond it leaves it, or is counted as an equal.
LEMMA TrackedHolds ==
    ASSUME NEW n \in Nat \ {0}, NEW bs, Prices(bs, n), NEW atr, NEW s \in Sides,
           NEW from \in 1..n, NEW c \in ExtremeType, Holds(bs, atr, c, s, from, n - 1),
           ~Beyond(s, PriceOf(s, bs[n]), c.price)
    PROVE  \E d : /\ Tracked({c}, s, Extreme(s, bs[n], n, atr[n])) = {d}
                  /\ d \in ExtremeType /\ d.bar = c.bar
                  /\ Holds(bs, atr, d, s, from, n)
<1> DEFINE fresh == Extreme(s, bs[n], n, atr[n])
           d == IF fresh.price = c.price THEN [c EXCEPT !.equals = @ + 1] ELSE c
<1>1. fresh.price = PriceOf(s, bs[n])
  BY DEF Extreme
<1> HIDE DEF fresh
<1>2. Tracked({c}, s, fresh) = {d}
  BY <1>1 DEF Tracked
<1>3. d \in ExtremeType /\ d.bar = c.bar /\ d.price = c.price /\ d.atr = c.atr /\ d.threshold = c.threshold
  BY DEF ExtremeType
<1> HIDE DEF d
<1>4. \A j \in from..n : j = n \/ j \in from..(n - 1)
  OBVIOUS
<1>5. Holds(bs, atr, d, s, from, n)
  BY <1>3, <1>4 DEF Holds
<1> QED BY <1>2, <1>3, <1>5 DEF fresh

\* The bars a search covers, the side it looks for, and what follows it.
FromOf(S, k) ==
    IF k = 0 THEN AtrWarmup
    ELSE Max({S[k].event} \cup {S[i].detection : i \in {k - 1} \cap DOMAIN S})
AfterOf(S, k) == IF k = 0 THEN AtrWarmup ELSE S[k].detection + 1
SearchedOf(S, k) == IF k = 0 THEN Sides ELSE {Other(S[k].side)}
SinceOf(S, k, bar) == IF k = 0 THEN bar ELSE Max({bar, S[k].detection})

\* A later close retraces far enough from an extreme.
Retraces(s, bar, c) ==
    IF s = "HIGH" THEN bar.close * Unit <= c.price * Unit - c.threshold
    ELSE bar.close * Unit >= c.price * Unit + c.threshold

\* What the swing component keeps after bar n, once the ATR is warm.
Tracks(sw, bs, atr, n) ==
    LET S == sw.confirmed
        K == Len(S)
    IN /\ sw.search = SearchedOf(S, K)
       /\ \A s \in sw.search :
            \E c, e \in ExtremeType :
               /\ sw.candidate[s] = {c} /\ sw.opposite[Other(s)] = {e}
               /\ Holds(bs, atr, c, s, FromOf(S, K), n)
               /\ Holds(bs, atr, e, Other(s), SinceOf(S, K, c.bar), n)

AtrIs(atr, n) == \A j \in 1..n : atr[j] \in Nat

LEMMA WarmupIsNat == AtrWarmup \in Nat \ {0}
BY IndicatorAssumption DEF AtrWarmup

LEMMA ConfirmedDates ==
    ASSUME NEW n \in Nat, NEW S, Confirmed(S, n), NEW k \in DOMAIN S
    PROVE  S[k].event \in 1..n /\ S[k].detection \in 1..n /\ S[k].event < S[k].detection
<1>1. S[k] \in SwingType
  BY DEF Confirmed
<1>2. S[k].detection \in Nat /\ S[k].event \in 1..(S[k].detection - 1) /\ S[k].detection <= n
  BY <1>1 DEF Confirmed, SwingType
<1> QED BY <1>2

LEMMA TrackedBeyond ==
    ASSUME NEW c \in ExtremeType, NEW s, NEW fresh \in ExtremeType, Beyond(s, fresh.price, c.price)
    PROVE  Tracked({c}, s, fresh) = {fresh}
<1> DEFINE r == CASE Beyond(s, fresh.price, c.price) -> fresh
                  [] fresh.price = c.price -> [c EXCEPT !.equals = @ + 1]
                  [] OTHER -> c
<1>1. Tracked({c}, s, fresh) = {r}
  BY DEF Tracked
<1>2. fresh.price # c.price
  BY DEF Beyond, ExtremeType
<1>3. r = fresh
  BY <1>2
<1> QED BY <1>1, <1>3

\* A search begins after bar 0.
LEMMA FromIsBar ==
    ASSUME NEW n \in Nat, NEW S, Confirmed(S, n), AtrWarmup <= n
    PROVE  /\ FromOf(S, Len(S)) \in 1..n
           /\ \A bar \in 1..n : SinceOf(S, Len(S), bar) \in 1..n
<1> DEFINE K == Len(S)
<1>1. S \in Seq(SwingType) /\ K \in Nat /\ DOMAIN S = 1..K
  BY DEF Confirmed
<1>2. \A k \in 1..K : S[k].event \in 1..n /\ S[k].detection \in 1..n
  BY <1>1, ConfirmedDates
<1>3. CASE K = 0
  BY <1>3, WarmupIsNat DEF FromOf, SinceOf
<1>4. CASE K # 0
  <2>1. K \in 1..K
    BY <1>1, <1>4
  <2>2. \A bar \in 1..n : SinceOf(S, K, bar) \in 1..n
    BY <1>2, <1>4, <2>1, MaxOfTwo DEF SinceOf
  <2>3. FromOf(S, K) \in 1..n
    <3>1. CASE K = 1
      <4>1. {K - 1} \cap DOMAIN S = {}
        BY <1>1, <3>1
      <4>2. FromOf(S, K) = Max({S[K].event, S[K].event})
        BY <1>4, <4>1 DEF FromOf
      <4> QED BY <1>2, <2>1, <4>2, MaxOfTwo
    <3>2. CASE K # 1
      <4>1. K - 1 \in 1..K /\ {K - 1} \cap DOMAIN S = {K - 1}
        BY <1>1, <1>4, <3>2
      <4>2. FromOf(S, K) = Max({S[K].event, S[K - 1].detection})
        BY <1>4, <4>1 DEF FromOf
      <4> QED BY <1>2, <2>1, <4>1, <4>2, MaxOfTwo
    <3> QED BY <3>1, <3>2
  <2> QED BY <2>2, <2>3
<1> QED BY <1>3, <1>4

LEMMA OtherSide == \A s \in Sides : Other(s) \in Sides /\ Other(Other(s)) = s
BY DEF Sides, Other

\* The running extremes after a bar, before anything is confirmed.
LEMMA ExtremesTrack ==
    ASSUME NEW n \in Nat \ {0}, AtrWarmup < n, NEW bs, Prices(bs, n), NEW atr, AtrIs(atr, n),
           NEW sw, SwingTypes(sw, n - 1), Tracks(sw, bs, atr, n - 1)
    PROVE  Tracks(Extremes(sw, bs[n], n, atr[n]), bs, atr, n)
<1> DEFINE fresh == [s \in Sides |-> Extreme(s, bs[n], n, atr[n])]
           new == Extremes(sw, bs[n], n, atr[n])
           S == sw.confirmed
           K == Len(S)
<1>1. /\ new.confirmed = S /\ new.search = sw.search
      /\ \A s \in Sides :
           /\ new.candidate[s] = IF Replaces(sw, s, bs[n]) THEN {fresh[s]}
                                 ELSE Tracked(sw.candidate[s], s, fresh[s])
           /\ new.opposite[s] = IF Replaces(sw, Other(s), bs[n]) THEN {fresh[s]}
                                ELSE Tracked(sw.opposite[s], s, fresh[s])
  <2>1. \A s \in Sides : fresh[s] = Extreme(s, bs[n], n, atr[n])
    OBVIOUS
  <2>2. ExtremesMake(sw, new, bs[n], n, atr[n])
    BY ExtremesMade
  <2> HIDE DEF fresh, new
  <2> QED BY <2>1, <2>2 DEF ExtremesMake
<1>2. bs[n] \in Bar /\ atr[n] \in Nat
  BY DEF Prices, AtrIs
<1>3. \A s \in Sides : fresh[s] \in ExtremeType /\ fresh[s] = Extreme(s, bs[n], n, atr[n])
  BY <1>2, ExtremeTyped
<1>4. n - 1 \in Nat /\ AtrWarmup <= n - 1 /\ Confirmed(S, n - 1)
  BY WarmupIsNat DEF SwingTypes
<1>5. FromOf(S, K) \in 1..(n - 1) /\ \A bar \in 1..(n - 1) : SinceOf(S, K, bar) \in 1..(n - 1)
  BY <1>4, FromIsBar
<1>6. sw.search \subseteq Sides /\ sw.search = SearchedOf(S, K)
  BY DEF SwingTypes, Tracks
<1> HIDE DEF new
<1>7. ASSUME NEW s \in sw.search
      PROVE  \E c, e \in ExtremeType :
               /\ new.candidate[s] = {c} /\ new.opposite[Other(s)] = {e}
               /\ Holds(bs, atr, c, s, FromOf(S, K), n)
               /\ Holds(bs, atr, e, Other(s), SinceOf(S, K, c.bar), n)
  <2>1. s \in Sides /\ Other(s) \in Sides /\ Other(Other(s)) = s
    BY <1>6, OtherSide
  <2>2. PICK c, e \in ExtremeType :
          /\ sw.candidate[s] = {c} /\ sw.opposite[Other(s)] = {e}
          /\ Holds(bs, atr, c, s, FromOf(S, K), n - 1)
          /\ Holds(bs, atr, e, Other(s), SinceOf(S, K, c.bar), n - 1)
    BY DEF Tracks
  <2>3. Replaces(sw, s, bs[n]) <=> Beyond(s, PriceOf(s, bs[n]), c.price)
    BY <2>2 DEF Replaces
  <2>4. FromOf(S, K) \in 1..n /\ c.bar \in 1..(n - 1) /\ SinceOf(S, K, c.bar) \in 1..n
    <3>1. c.bar \in FromOf(S, K)..(n - 1)
      BY <2>2 DEF Holds
    <3>2. c.bar \in 1..(n - 1)
      BY <1>5, <3>1
    <3> QED BY <1>5, <3>2
  <2>5. CASE Replaces(sw, s, bs[n])
    <3>1. new.candidate[s] = {fresh[s]} /\ new.opposite[Other(s)] = {fresh[Other(s)]}
      BY <1>1, <2>1, <2>5
    <3>2. Holds(bs, atr, fresh[s], s, FromOf(S, K), n)
      BY <1>3, <2>1, <2>2, <2>3, <2>4, <2>5, BeyondHolds
    <3>3. Holds(bs, atr, fresh[Other(s)], Other(s), n, n)
      BY <1>3, <2>1, FreshHolds
    <3>4. SinceOf(S, K, n) = n
      <4>1. CASE K = 0
        BY <4>1 DEF SinceOf
      <4>2. CASE K # 0
        <5>1. K \in DOMAIN S
          BY <1>4, <4>2 DEF Confirmed
        <5>2. S[K].detection \in Nat /\ S[K].detection <= n - 1
          BY <1>4, <5>1, ConfirmedDates
        <5> QED BY <4>2, <5>2, MaxOfTwo DEF SinceOf
      <4> QED BY <4>1, <4>2
    <3>5. fresh[s].bar = n
      BY <1>3, <2>1 DEF Extreme
    <3> QED BY <1>3, <2>1, <3>1, <3>2, <3>3, <3>4, <3>5
  <2>6. CASE ~Replaces(sw, s, bs[n])
    <3>1. /\ new.candidate[s] = Tracked({c}, s, fresh[s])
          /\ new.opposite[Other(s)] = Tracked({e}, Other(s), fresh[Other(s)])
      BY <1>1, <2>1, <2>2, <2>6
    <3>2. ~Beyond(s, PriceOf(s, bs[n]), c.price)
      BY <2>1, <2>3, <2>6
    <3>3. PICK d : /\ Tracked({c}, s, fresh[s]) = {d} /\ d \in ExtremeType /\ d.bar = c.bar
                   /\ Holds(bs, atr, d, s, FromOf(S, K), n)
      BY <1>3, <2>1, <2>2, <2>4, <3>2, TrackedHolds
    <3>4. PICK x : /\ Tracked({e}, Other(s), fresh[Other(s)]) = {x} /\ x \in ExtremeType
                   /\ Holds(bs, atr, x, Other(s), SinceOf(S, K, c.bar), n)
      <4>1. CASE Beyond(Other(s), PriceOf(Other(s), bs[n]), e.price)
        <5>1. Holds(bs, atr, fresh[Other(s)], Other(s), SinceOf(S, K, c.bar), n)
          BY <1>3, <2>1, <2>2, <2>4, <4>1, BeyondHolds
        <5>2. Tracked({e}, Other(s), fresh[Other(s)]) = {fresh[Other(s)]}
          <6>1. fresh[Other(s)].price = PriceOf(Other(s), bs[n])
            BY <1>3, <2>1 DEF Extreme
          <6> QED BY <1>3, <2>1, <2>2, <4>1, <6>1, TrackedBeyond
        <5> QED BY <1>3, <2>1, <5>1, <5>2
      <4>2. CASE ~Beyond(Other(s), PriceOf(Other(s), bs[n]), e.price)
        BY <1>3, <2>1, <2>2, <2>4, <4>2, TrackedHolds
      <4> QED BY <4>1, <4>2
    <3> QED BY <3>1, <3>3, <3>4
  <2> QED BY <2>5, <2>6
<1> QED BY <1>1, <1>6, <1>7 DEF Tracks, new

\* The first bars after the warm-up.
LEMMA ExtremesBegin ==
    ASSUME NEW n \in Nat \ {0}, AtrWarmup = n, NEW bs, Prices(bs, n), NEW atr, AtrIs(atr, n)
    PROVE  Tracks(Extremes(FreshSwings, bs[n], n, atr[n]), bs, atr, n)
<1> DEFINE sw == FreshSwings
           new == Extremes(sw, bs[n], n, atr[n])
           fresh == [s \in Sides |-> Extreme(s, bs[n], n, atr[n])]
<1>1. ExtremesMake(sw, new, bs[n], n, atr[n])
  BY FreshSwingsTyped, ExtremesMade
<1>2. sw.confirmed = <<>> /\ sw.search = Sides /\ \A s \in Sides : sw.candidate[s] = {}
  BY DEF FreshSwings
<1>3. \A s \in Sides : Replaces(sw, s, bs[n])
  BY <1>2 DEF Replaces
<1>4. bs[n] \in Bar /\ atr[n] \in Nat
  BY DEF Prices, AtrIs
<1>5. \A s \in Sides : fresh[s] \in ExtremeType /\ fresh[s] = Extreme(s, bs[n], n, atr[n]) /\ fresh[s].bar = n
  BY <1>4, ExtremeTyped
<1>6. \A s \in Sides : Holds(bs, atr, fresh[s], s, n, n)
  BY <1>5, FreshHolds
<1> HIDE DEF new, fresh, sw
<1>7. new.search = Sides /\ new.confirmed = <<>>
      /\ \A s \in Sides : new.candidate[s] = {fresh[s]} /\ new.opposite[s] = {fresh[s]}
  <2>1. \A s \in Sides : Replaces(sw, Other(s), bs[n])
    BY <1>3, OtherSide
  <2> QED BY <1>1, <1>2, <1>3, <1>5, <2>1 DEF ExtremesMake
<1> DEFINE S == new.confirmed
           K == Len(S)
<1>8. K = 0 /\ FromOf(S, K) = n /\ SinceOf(S, K, n) = n /\ SearchedOf(S, K) = Sides
  BY <1>7 DEF FromOf, SinceOf, SearchedOf
<1>9. ASSUME NEW s \in new.search
      PROVE  \E c, e \in ExtremeType :
               /\ new.candidate[s] = {c} /\ new.opposite[Other(s)] = {e}
               /\ Holds(bs, atr, c, s, FromOf(S, K), n)
               /\ Holds(bs, atr, e, Other(s), SinceOf(S, K, c.bar), n)
  <2>1. s \in Sides /\ Other(s) \in Sides
    BY <1>7, OtherSide
  <2>2. /\ new.candidate[s] = {fresh[s]} /\ new.opposite[Other(s)] = {fresh[Other(s)]}
        /\ Holds(bs, atr, fresh[s], s, FromOf(S, K), n)
        /\ Holds(bs, atr, fresh[Other(s)], Other(s), SinceOf(S, K, fresh[s].bar), n)
    BY <1>5, <1>6, <1>7, <1>8, <2>1
  <2> QED BY <1>5, <2>1, <2>2
<1>10. Tracks(new, bs, atr, n)
  BY <1>7, <1>8, <1>9 DEF Tracks
<1> QED BY <1>10 DEF new, sw

\* After a confirmation the extreme tracked against the candidate is searched.
LEMMA ConfirmTracks ==
    ASSUME NEW n \in Nat \ {0}, AtrWarmup <= n, NEW bs, Prices(bs, n), NEW atr, AtrIs(atr, n),
           NEW sw, SwingTypes(sw, n), Tracks(sw, bs, atr, n),
           NEW side \in sw.search
    PROVE  Tracks(Confirm(sw, side, bs[n], n, atr[n]), bs, atr, n)
<1> DEFINE new == Confirm(sw, side, bs[n], n, atr[n])
           S == sw.confirmed
           K == Len(S)
           next == Other(side)
           T == new.confirmed
           fresh == Extreme(side, bs[n], n, atr[n])
<1>1. side \in Sides /\ next \in Sides /\ Other(next) = side /\ next # side
  BY OtherSide DEF SwingTypes, Sides, Other
<1>2. ConfirmMakes(sw, new, side, bs[n], n, atr[n])
  BY <1>1, ConfirmMade
<1>3. PICK c, e \in ExtremeType :
        /\ sw.candidate[side] = {c} /\ sw.opposite[next] = {e}
        /\ Holds(bs, atr, c, side, FromOf(S, K), n)
        /\ Holds(bs, atr, e, next, SinceOf(S, K, c.bar), n)
  BY DEF Tracks
<1>4. The(sw.candidate[side]) = c
  BY <1>3, TheOne
<1> DEFINE p == SwingOf(sw, side, n)
<1>5. p.event = c.bar /\ p.detection = n /\ p.side = side
  BY <1>4 DEF SwingOf
<1>6. bs[n] \in Bar /\ atr[n] \in Nat /\ fresh \in ExtremeType /\ fresh.bar = n
  BY <1>1, ExtremeTyped DEF Prices, AtrIs
<1>7. Holds(bs, atr, fresh, side, n, n)
  BY <1>1, FreshHolds
<1> HIDE DEF new, next, fresh, p
<1>8. /\ new.search = {next} /\ new.candidate[next] = {e} /\ new.opposite[side] = {fresh}
      /\ T = Append(S, p)
  BY <1>1, <1>2, <1>3 DEF ConfirmMakes, next, fresh, p
<1>9. S \in Seq(SwingType) /\ K \in Nat
  BY DEF SwingTypes, Confirmed
<1>10. Len(T) = K + 1 /\ T[K + 1] = p /\ DOMAIN T = 1..(K + 1) /\ \A k \in 1..K : T[k] = S[k]
  BY <1>8, <1>9
<1>11. c.bar \in Nat /\ e.bar \in Nat /\ e.bar <= n
  BY <1>3 DEF ExtremeType, Holds
<1> HIDE DEF T
<1>12. FromOf(T, K + 1) = SinceOf(S, K, c.bar)
  <2>1. FromOf(T, K + 1) = Max({c.bar} \cup {T[i].detection : i \in {K} \cap (1..(K + 1))})
    <3>1. (K + 1) - 1 = K /\ K + 1 # 0
      BY <1>9
    <3> QED BY <1>5, <1>10, <3>1 DEF FromOf
  <2>2. CASE K = 0
    <3>1. {K} \cap (1..(K + 1)) = {}
      BY <2>2
    <3>2. FromOf(T, K + 1) = Max({c.bar, c.bar})
      BY <2>1, <3>1
    <3> QED BY <1>11, <2>2, <3>2, MaxOfTwo DEF SinceOf
  <2>3. CASE K # 0
    <3>1. {K} \cap (1..(K + 1)) = {K} /\ T[K] = S[K]
      BY <1>9, <1>10, <2>3
    <3>2. FromOf(T, K + 1) = Max({c.bar, S[K].detection})
      BY <2>1, <3>1
    <3> QED BY <2>3, <3>2 DEF SinceOf
  <2> QED BY <2>2, <2>3
<1>13. SinceOf(T, K + 1, e.bar) = n
  <2>1. SinceOf(T, K + 1, e.bar) = Max({e.bar, n})
    <3>1. K + 1 # 0 /\ T[K + 1].detection = n
      BY <1>5, <1>9, <1>10
    <3> QED BY <3>1 DEF SinceOf
  <2> QED BY <1>11, <2>1, MaxOfTwo
<1>14. SearchedOf(T, K + 1) = {next}
  BY <1>5, <1>9, <1>10 DEF SearchedOf, next
<1>15. ASSUME NEW s \in new.search
       PROVE  \E x, y \in ExtremeType :
                /\ new.candidate[s] = {x} /\ new.opposite[Other(s)] = {y}
                /\ Holds(bs, atr, x, s, FromOf(T, K + 1), n)
                /\ Holds(bs, atr, y, Other(s), SinceOf(T, K + 1, x.bar), n)
  <2>1. s = next /\ Other(s) = side
    BY <1>1, <1>8
  <2> QED BY <1>3, <1>6, <1>7, <1>8, <1>12, <1>13, <2>1
<1>16. Tracks(new, bs, atr, n)
  BY <1>8, <1>10, <1>14, <1>15 DEF Tracks, T
<1> QED BY <1>16 DEF new

\* The definition of a turn, and of the swings of n bars.
TurnsOf(bs, atr, S, s, k, j) ==
    LET i == RunningOf(bs, s, FromOf(S, k), j)
        reversal == (ReversalPercent * atr[i]) \div 100
        back == (bs[j].close - PriceOf(s, bs[i])) * Unit
    IN i < j /\ (IF s = "HIGH" THEN back <= -reversal ELSE back >= reversal)

TurnedOf(bs, atr, S, k, n) ==
    {j \in AfterOf(S, k)..n : \E s \in SearchedOf(S, k) : TurnsOf(bs, atr, S, s, k, j)}

IsTurn(bs, atr, S, k, n) ==
    /\ S[k + 1].detection \in TurnedOf(bs, atr, S, k, n)
    /\ \A j \in TurnedOf(bs, atr, S, k, n) : S[k + 1].detection <= j
    /\ S[k + 1].side \in SearchedOf(S, k)
    /\ TurnsOf(bs, atr, S, S[k + 1].side, k, S[k + 1].detection)
    /\ S[k + 1].event = RunningOf(bs, S[k + 1].side, FromOf(S, k), S[k + 1].detection)

SwingsOf(bs, atr, S, n) ==
    /\ TurnedOf(bs, atr, S, Len(S), n) = {}
    /\ \A k \in 0..(Len(S) - 1) : IsTurn(bs, atr, S, k, n)

\* Every stretch of bars has an extreme: the least stretch without one would
\* extend one that has it.
LEMMA ExtremeExists ==
    ASSUME NEW n \in Nat, NEW bs, Prices(bs, n), NEW s \in Sides, NEW from \in 1..n, NEW to \in from..n
    PROVE  \E i \in from..to : \A j \in from..to : ~Beyond(s, PriceOf(s, bs[j]), PriceOf(s, bs[i]))
<1> DEFINE p(j) == PriceOf(s, bs[j])
           Has(m) == \E i \in from..m : \A j \in from..m : ~Beyond(s, p(j), p(i))
           Bad == {m \in from..n : ~Has(m)}
<1>1. \A j \in from..n : p(j) \in Int
  BY PriceIsInt DEF Prices
<1>2. Bad = {}
  <2> SUFFICES ASSUME Bad # {} PROVE FALSE
    OBVIOUS
  <2>1. PICK m \in Bad : \A x \in Bad : m <= x
    <3>1. Bad \subseteq Nat
      OBVIOUS
    <3> HIDE DEF Bad
    <3> QED BY <3>1, LeastExists
  <2> HIDE DEF p
  <2>2. CASE m = from
    <3>1. \A j \in from..m : j = m
      BY <2>2
    <3>2. ~Beyond(s, p(m), p(m))
      BY <1>1 DEF Beyond
    <3> QED BY <2>2, <3>1, <3>2
  <2>3. CASE m # from
    <3>0. m \in from..n /\ \A x \in Bad : m <= x
      BY <2>1
    <3>1. m - 1 \in from..n /\ m - 1 \notin Bad
      <4> HIDE DEF Bad
      <4> QED BY <2>3, <3>0
    <3>2. PICK i \in from..(m - 1) : \A j \in from..(m - 1) : ~Beyond(s, p(j), p(i))
      BY <3>1
    <3>3. p(i) \in Int /\ p(m) \in Int /\ \A j \in from..(m - 1) : p(j) \in Int
      BY <1>1
    <3>4. \A j \in from..m : j = m \/ j \in from..(m - 1)
      OBVIOUS
    <3>5. CASE Beyond(s, p(m), p(i))
      <4>1. ASSUME NEW j \in from..m PROVE ~Beyond(s, p(j), p(m))
        <5>1. CASE j = m
          BY <3>3, <5>1 DEF Beyond
        <5>2. CASE j \in from..(m - 1)
          <6>1. ~Beyond(s, p(j), p(i)) /\ p(j) \in Int
            BY <3>2, <3>3, <5>2
          <6> QED BY <3>3, <3>5, <6>1 DEF Beyond
        <5> QED BY <3>4, <5>1, <5>2
      <4>2. m \in from..m
        BY <3>0
      <4> QED BY <4>1, <4>2
    <3>6. CASE ~Beyond(s, p(m), p(i))
      <4>1. \A j \in from..m : ~Beyond(s, p(j), p(i))
        BY <3>2, <3>4, <3>6
      <4> QED BY <4>1
    <3> QED BY <3>5, <3>6
  <2> QED BY <2>2, <2>3
<1> QED BY <1>2

LEMMA RunningIsBar ==
    ASSUME NEW n \in Nat, NEW bs, Prices(bs, n), NEW s \in Sides, NEW from \in 1..n, NEW to \in from..n
    PROVE  RunningOf(bs, s, from, to) \in from..to
<1> DEFINE S == {i \in from..to : \A j \in from..to : ~Beyond(s, PriceOf(s, bs[j]), PriceOf(s, bs[i]))}
<1>1. S # {}
  BY ExtremeExists
<1>2. S \subseteq Nat /\ S \subseteq from..to
  OBVIOUS
<1> HIDE DEF S
<1>3. Min(S) \in S
  BY <1>1, <1>2, LeastExists DEF Min
<1> QED BY <1>2, <1>3 DEF RunningOf, S

\* The search for the next swing begins before its first close.
LEMMA FromBeforeAfter ==
    ASSUME NEW n \in Nat, NEW S, Confirmed(S, n), NEW k \in 0..Len(S)
    PROVE  /\ FromOf(S, k) \in Nat \ {0} /\ AfterOf(S, k) \in Nat /\ FromOf(S, k) <= AfterOf(S, k)
           /\ SearchedOf(S, k) \subseteq Sides
<1> DEFINE K == Len(S)
<1>1. K \in Nat /\ DOMAIN S = 1..K /\ S \in Seq(SwingType)
  BY DEF Confirmed
<1>2. CASE k = 0
  BY <1>2, WarmupIsNat DEF FromOf, AfterOf, SearchedOf
<1>3. CASE k # 0
  <2>1. k \in DOMAIN S
    BY <1>1, <1>3
  <2>2. S[k].event \in 1..n /\ S[k].detection \in 1..n /\ S[k].event < S[k].detection
    BY <2>1, ConfirmedDates
  <2>3. AfterOf(S, k) = S[k].detection + 1 /\ S[k].side \in Sides /\ SearchedOf(S, k) = {Other(S[k].side)}
    <3>1. S[k] \in SwingType
      BY <1>1, <2>1
    <3> QED BY <1>3, <3>1 DEF AfterOf, SearchedOf, SwingType
  <2>4. FromOf(S, k) \in Nat \ {0} /\ FromOf(S, k) <= S[k].detection
    <3>1. CASE k = 1
      <4>1. {k - 1} \cap DOMAIN S = {}
        BY <1>1, <3>1
      <4>2. FromOf(S, k) = Max({S[k].event, S[k].event})
        BY <1>3, <4>1 DEF FromOf
      <4> QED BY <2>2, <4>2, MaxOfTwo
    <3>2. CASE k # 1
      <4>1. k - 1 \in DOMAIN S /\ {k - 1} \cap DOMAIN S = {k - 1}
        BY <1>1, <1>3, <3>2
      <4>2. FromOf(S, k) = Max({S[k].event, S[k - 1].detection})
        BY <1>3, <4>1 DEF FromOf
      <4>3. S[k - 1].detection \in 1..n
        BY <4>1, ConfirmedDates
      <4>4. S[k].detection > S[k - 1].detection
        BY <1>1, <2>1, <1>3, <3>2 DEF Confirmed
      <4> QED BY <2>2, <4>2, <4>3, <4>4, MaxOfTwo
    <3> QED BY <3>1, <3>2
  <2> QED BY <2>2, <2>3, <2>4, OtherSide
<1> QED BY <1>2, <1>3

\* A turn is read from the bars up to it, and from the swings before it.
LEMMA TurnsByBars ==
    ASSUME NEW n \in Nat, NEW bs, Prices(bs, n), NEW cs, NEW atr, NEW atr2,
           \A j \in 1..n : cs[j] = bs[j] /\ atr2[j] = atr[j],
           NEW S, Confirmed(S, n), NEW T, NEW k \in 0..Len(S), FromOf(T, k) = FromOf(S, k),
           NEW s \in Sides, NEW j \in AfterOf(S, k)..n
    PROVE  /\ RunningOf(cs, s, FromOf(T, k), j) = RunningOf(bs, s, FromOf(S, k), j)
           /\ TurnsOf(cs, atr2, T, s, k, j) <=> TurnsOf(bs, atr, S, s, k, j)
<1> DEFINE from == FromOf(S, k)
           i == RunningOf(bs, s, from, j)
<1>1. from \in 1..j /\ j \in 1..n /\ j \in from..n
  BY FromBeforeAfter
<1>2. i \in 1..n
  BY <1>1, RunningIsBar
<1>3. RunningOf(cs, s, from, j) = i
  BY <1>1, RunningByBars
<1>4. cs[j] = bs[j] /\ cs[i] = bs[i] /\ atr2[i] = atr[i]
  BY <1>1, <1>2
<1> HIDE DEF i, from
<1>5. /\ RunningOf(cs, s, FromOf(T, k), j) = i /\ RunningOf(bs, s, FromOf(S, k), j) = i
  BY <1>3 DEF i, from
<1> QED BY <1>4, <1>5 DEF TurnsOf

LEMMA ScaledDifference ==
    ASSUME NEW a \in Int, NEW b \in Int, NEW u \in Int
    PROVE  (a - b) * u = a * u - b * u /\ a * u \in Int /\ b * u \in Int
OBVIOUS

\* The sides the component confirms on a bar are those that turn on it.
LEMMA ConfirmingTurns ==
    ASSUME NEW n \in Nat \ {0}, AtrWarmup <= n, NEW bs, Prices(bs, n), NEW atr,
           NEW sw, SwingTypes(sw, n), Tracks(sw, bs, atr, n), NEW s \in sw.search
    PROVE  /\ RunningOf(bs, s, FromOf(sw.confirmed, Len(sw.confirmed)), n) = The(sw.candidate[s]).bar
           /\ s \in Confirming(sw, bs[n], n)
                <=> TurnsOf(bs, atr, sw.confirmed, s, Len(sw.confirmed), n)
<1> DEFINE S == sw.confirmed
           K == Len(S)
           from == FromOf(S, K)
<1>1. s \in Sides
  BY DEF SwingTypes
<1>2. PICK c \in ExtremeType : sw.candidate[s] = {c} /\ Holds(bs, atr, c, s, from, n)
  BY DEF Tracks
<1>3. from \in Nat \ {0}
  BY FromIsBar DEF SwingTypes
<1>4. RunningOf(bs, s, from, n) = c.bar
  BY <1>1, <1>2, <1>3, HeldIsRunning
<1>5. The(sw.candidate[s]) = c
  BY <1>2, TheOne
<1> DEFINE bar == bs[n]
           back == (bar.close - c.price) * Unit
           price == c.price * Unit
           close == bar.close * Unit
           far == c.threshold
<1>6. back = close - price /\ close \in Int /\ price \in Int /\ far \in Int
  <2>1. bar.close \in Int /\ c.price \in Int /\ Unit \in Int /\ c.threshold \in Int
    BY IndicatorAssumption DEF Prices, Bar, ExtremeType
  <2> QED BY <2>1, ScaledDifference
<1>7. c.price = PriceOf(s, bs[c.bar]) /\ far = (ReversalPercent * atr[c.bar]) \div 100
  BY <1>2 DEF Holds
<1>8. TurnsOf(bs, atr, S, s, K, n) <=> c.bar < n /\ (IF s = "HIGH" THEN back <= -far ELSE back >= far)
  BY <1>4, <1>7 DEF TurnsOf
<1>9. s \in Confirming(sw, bar, n)
        <=> c.bar < n /\ (IF s = "HIGH" THEN close <= price - far ELSE close >= price + far)
  BY <1>2 DEF Confirming
<1> HIDE DEF back, price, close, far, from
<1>10. s \in Confirming(sw, bar, n) <=> TurnsOf(bs, atr, S, s, K, n)
  BY <1>6, <1>8, <1>9
<1> QED BY <1>4, <1>5, <1>10 DEF from

\* The searches for the swings confirmed so far are not touched by another one.
LEMMA SearchesStand ==
    ASSUME NEW S, S \in Seq(SwingType), NEW p, NEW k \in 0..Len(S)
    PROVE  /\ FromOf(Append(S, p), k) = FromOf(S, k)
           /\ AfterOf(Append(S, p), k) = AfterOf(S, k)
           /\ SearchedOf(Append(S, p), k) = SearchedOf(S, k)
<1> DEFINE T == Append(S, p)
<1>1. Len(S) \in Nat /\ DOMAIN S = 1..Len(S)
  OBVIOUS
<1>2. /\ DOMAIN T = 1..(Len(S) + 1)
      /\ \A x \in 1..Len(S) : T[x] = S[x]
  BY <1>1
<1> HIDE DEF T
<1>3. CASE k = 0
  BY <1>3 DEF FromOf, AfterOf, SearchedOf, T
<1>4. CASE k # 0
  <2>1. k \in 1..Len(S) /\ T[k] = S[k]
    BY <1>1, <1>2, <1>4
  <2>2. {k - 1} \cap DOMAIN T = {k - 1} \cap DOMAIN S
    BY <1>1, <1>2, <2>1
  <2>3. \A i \in {k - 1} \cap DOMAIN S : T[i] = S[i]
    BY <1>1, <1>2
  <2>4. {T[i].detection : i \in {k - 1} \cap DOMAIN T} = {S[i].detection : i \in {k - 1} \cap DOMAIN S}
    BY <2>2, <2>3
  <2>5. FromOf(T, k) = FromOf(S, k)
    BY <1>4, <2>1, <2>4 DEF FromOf
  <2>6. AfterOf(T, k) = AfterOf(S, k) /\ SearchedOf(T, k) = SearchedOf(S, k)
    BY <1>4, <2>1 DEF AfterOf, SearchedOf
  <2> QED BY <2>5, <2>6 DEF T
<1> QED BY <1>3, <1>4

\* A swing stays what the definition says of it.
LEMMA TurnStands ==
    ASSUME NEW n \in Nat \ {0}, NEW bs, NEW atr, NEW S, Confirmed(S, n - 1),
           NEW T, T = S \/ \E p : T = Append(S, p),
           NEW k \in 0..(Len(S) - 1), IsTurn(bs, atr, S, k, n - 1)
    PROVE  IsTurn(bs, atr, T, k, n)
<1> DEFINE K == Len(S)
           at == S[k + 1].detection
<1>1. K \in Nat /\ S \in Seq(SwingType) /\ DOMAIN S = 1..K /\ k \in 0..K /\ k + 1 \in 1..K
  BY DEF Confirmed
<1>2. at \in Nat /\ at <= n
  BY <1>1, ConfirmedDates
<1>3. FromOf(T, k) = FromOf(S, k) /\ AfterOf(T, k) = AfterOf(S, k) /\ SearchedOf(T, k) = SearchedOf(S, k)
  BY <1>1, SearchesStand
<1>4. T[k + 1] = S[k + 1]
  BY <1>1
<1>5. \A s, j : TurnsOf(bs, atr, T, s, k, j) <=> TurnsOf(bs, atr, S, s, k, j)
  BY <1>3 DEF TurnsOf
<1>6. AfterOf(S, k) \in Nat
  BY <1>1, FromBeforeAfter
<1>7. /\ TurnedOf(bs, atr, S, k, n - 1) \subseteq TurnedOf(bs, atr, T, k, n)
      /\ \A j \in TurnedOf(bs, atr, T, k, n) : j = n \/ j \in TurnedOf(bs, atr, S, k, n - 1)
  <2>1. \A j \in AfterOf(S, k)..n : j = n \/ j \in AfterOf(S, k)..(n - 1)
    BY <1>6
  <2>2. AfterOf(S, k)..(n - 1) \subseteq AfterOf(S, k)..n
    BY <1>6
  <2> QED BY <1>3, <1>5, <2>1, <2>2 DEF TurnedOf
<1>8. \A j \in TurnedOf(bs, atr, T, k, n) : at <= j
  BY <1>2, <1>7 DEF IsTurn
<1> QED BY <1>3, <1>4, <1>5, <1>7, <1>8 DEF IsTurn

\* A bar that turns no searched side confirms nothing.
LEMMA StillSearching ==
    ASSUME NEW n \in Nat \ {0}, NEW bs, NEW atr, NEW S, Confirmed(S, n - 1), SwingsOf(bs, atr, S, n - 1),
           AfterOf(S, Len(S)) <= n
             => \A s \in SearchedOf(S, Len(S)) : ~TurnsOf(bs, atr, S, s, Len(S), n)
    PROVE  SwingsOf(bs, atr, S, n)
<1> DEFINE K == Len(S)
<1>1. K \in Nat /\ S \in Seq(SwingType) /\ K \in 0..K
  BY DEF Confirmed
<1>2. AfterOf(S, K) \in Nat
  BY <1>1, FromBeforeAfter
<1>3. TurnedOf(bs, atr, S, K, n) = {}
  <2> SUFFICES ASSUME NEW j \in TurnedOf(bs, atr, S, K, n) PROVE FALSE
    OBVIOUS
  <2>1. j \in AfterOf(S, K)..n /\ \E s \in SearchedOf(S, K) : TurnsOf(bs, atr, S, s, K, j)
    BY DEF TurnedOf
  <2>2. CASE j = n
    BY <1>2, <2>1, <2>2
  <2>3. CASE j # n
    <3>1. j \in AfterOf(S, K)..(n - 1)
      BY <1>2, <2>1, <2>3
    <3>2. j \in TurnedOf(bs, atr, S, K, n - 1)
      BY <2>1, <3>1 DEF TurnedOf
    <3> QED BY <3>2 DEF SwingsOf
  <2> QED BY <2>2, <2>3
<1>4. \A k \in 0..(K - 1) : IsTurn(bs, atr, S, k, n)
  BY TurnStands DEF SwingsOf
<1> QED BY <1>3, <1>4 DEF SwingsOf

\* The bar that turns one is its detection, and the search begins anew.
LEMMA TurnConfirmed ==
    ASSUME NEW n \in Nat \ {0}, NEW bs, NEW atr, NEW S, Confirmed(S, n - 1), SwingsOf(bs, atr, S, n - 1),
           AfterOf(S, Len(S)) <= n,
           NEW p, p.detection = n, p.side \in SearchedOf(S, Len(S)),
           TurnsOf(bs, atr, S, p.side, Len(S), n),
           p.event = RunningOf(bs, p.side, FromOf(S, Len(S)), n)
    PROVE  SwingsOf(bs, atr, Append(S, p), n)
<1> DEFINE K == Len(S)
           T == Append(S, p)
<1>1. K \in Nat /\ S \in Seq(SwingType) /\ K \in 0..K
  BY DEF Confirmed
<1>2. Len(T) = K + 1 /\ T[K + 1] = p
  BY <1>1
<1>3. FromOf(T, K) = FromOf(S, K) /\ AfterOf(T, K) = AfterOf(S, K) /\ SearchedOf(T, K) = SearchedOf(S, K)
  BY <1>1, SearchesStand
<1>4. \A s, j : TurnsOf(bs, atr, T, s, K, j) <=> TurnsOf(bs, atr, S, s, K, j)
  BY <1>3 DEF TurnsOf
<1>5. AfterOf(S, K) \in Nat
  BY <1>1, FromBeforeAfter
<1>6. TurnedOf(bs, atr, T, K + 1, n) = {}
  <2>1. AfterOf(T, K + 1) = n + 1
    BY <1>1, <1>2 DEF AfterOf
  <2>2. (n + 1)..n = {}
    OBVIOUS
  <2> QED BY <2>1, <2>2 DEF TurnedOf
<1>7. IsTurn(bs, atr, T, K, n)
  <2>1. n \in TurnedOf(bs, atr, T, K, n)
    <3>1. n \in AfterOf(T, K)..n
      BY <1>3, <1>5
    <3>2. p.side \in SearchedOf(T, K) /\ TurnsOf(bs, atr, T, p.side, K, n)
      BY <1>3, <1>4
    <3> HIDE DEF T
    <3> QED BY <3>1, <3>2 DEF TurnedOf
  <2>2. ASSUME NEW j \in TurnedOf(bs, atr, T, K, n) PROVE n <= j
    <3>1. j \in AfterOf(S, K)..n /\ \E s \in SearchedOf(S, K) : TurnsOf(bs, atr, S, s, K, j)
      BY <1>3, <1>4 DEF TurnedOf
    <3>2. CASE j < n
      <4>1. j \in AfterOf(S, K)..(n - 1)
        BY <1>5, <3>1, <3>2
      <4>2. j \in TurnedOf(bs, atr, S, K, n - 1)
        BY <3>1, <4>1 DEF TurnedOf
      <4> QED BY <4>2 DEF SwingsOf
    <3> QED BY <1>5, <3>1, <3>2
  <2> HIDE DEF T
  <2> QED BY <1>2, <1>3, <1>4, <2>1, <2>2 DEF IsTurn
<1>8. \A k \in 0..(K - 1) : IsTurn(bs, atr, T, k, n)
  BY TurnStands DEF SwingsOf
<1>9. \A k \in 0..K : k = K \/ k \in 0..(K - 1)
  BY <1>1
<1> HIDE DEF T
<1>10. SwingsOf(bs, atr, T, n)
  BY <1>1, <1>2, <1>6, <1>7, <1>8, <1>9 DEF SwingsOf
<1> QED BY <1>10 DEF T

\* What the swing component keeps after bar n.
SwingState(sw, bs, atr, n) ==
    IF n < AtrWarmup THEN sw = FreshSwings ELSE Tracks(sw, bs, atr, n)

\* A bar keeps the definition.
LEMMA SwingsStep ==
    ASSUME NEW n \in Nat \ {0}, NEW bs, Prices(bs, n), NEW atr, AtrIs(atr, n),
           NEW sw, SwingTypes(sw, n - 1), SwingState(sw, bs, atr, n - 1),
           SwingsOf(bs, atr, sw.confirmed, n - 1)
    PROVE  /\ SwingState(SwingUpdate(sw, bs[n], n, atr[n]), bs, atr, n)
           /\ SwingsOf(bs, atr, SwingUpdate(sw, bs[n], n, atr[n]).confirmed, n)
<1> DEFINE bar == bs[n]
           new == SwingUpdate(sw, bar, n, atr[n])
           moved == Extremes(sw, bar, n, atr[n])
           sides == Confirming(moved, bar, n)
           S == sw.confirmed
           K == Len(S)
<1>1. bar \in Bar /\ atr[n] \in Nat /\ AtrWarmup \in Nat \ {0}
  BY WarmupIsNat DEF Prices, AtrIs
<1>2. Confirmed(S, n - 1) /\ K \in Nat /\ S \in Seq(SwingType) /\ K \in 0..K /\ n - 1 \in Nat
  BY DEF SwingTypes, Confirmed
<1>3. CASE n < AtrWarmup
  <2>1. new = sw
    BY <1>3 DEF SwingUpdate
  <2>2. sw = FreshSwings
    BY <1>1, <1>3 DEF SwingState
  <2>3. K = 0 /\ AfterOf(S, K) = AtrWarmup
    BY <2>2 DEF FreshSwings, AfterOf
  <2>4. SwingsOf(bs, atr, S, n)
    BY <1>1, <1>2, <1>3, <2>3, StillSearching
  <2> QED BY <1>3, <2>1, <2>2, <2>4 DEF SwingState
<1>4. CASE ~(n < AtrWarmup)
  <2>1. /\ SwingTypes(moved, n) /\ moved.confirmed = S /\ moved.search = sw.search
    BY <1>1, ExtremesTyped
  <2>2. Tracks(moved, bs, atr, n)
    <3>1. CASE n = AtrWarmup
      <4>1. sw = FreshSwings
        BY <1>1, <3>1 DEF SwingState
      <4> QED BY <3>1, <4>1, ExtremesBegin
    <3>2. CASE n # AtrWarmup
      <4>1. AtrWarmup < n /\ ~(n - 1 < AtrWarmup)
        BY <1>1, <1>4, <3>2
      <4>2. Tracks(sw, bs, atr, n - 1)
        BY <4>1 DEF SwingState
      <4> QED BY <4>1, <4>2, ExtremesTrack
    <3> QED BY <3>1, <3>2
  <2>3. moved.search = SearchedOf(S, K)
    BY <2>1, <2>2 DEF Tracks
  <2>4. AtrWarmup <= n
    BY <1>1, <1>4
  <2>5. \A s \in SearchedOf(S, K) :
          /\ RunningOf(bs, s, FromOf(S, K), n) = The(moved.candidate[s]).bar
          /\ s \in sides <=> TurnsOf(bs, atr, S, s, K, n)
    <3> HIDE DEF moved
    <3> QED BY <2>1, <2>2, <2>3, <2>4, ConfirmingTurns
  <2>6. sides \subseteq SearchedOf(S, K) /\ sides \subseteq Sides
    BY <2>1, <2>3 DEF Confirming, SwingTypes
  <2>7. AfterOf(S, K) <= n
    <3>1. CASE K = 0
      BY <2>4, <3>1 DEF AfterOf
    <3>2. CASE K # 0
      <4>1. K \in DOMAIN S
        BY <1>2, <3>2
      <4>2. S[K].detection \in 1..(n - 1)
        BY <1>2, <4>1, ConfirmedDates
      <4> QED BY <3>2, <4>2 DEF AfterOf
    <3> QED BY <3>1, <3>2
  <2>8. CASE sides = {}
    <3>1. new = moved
      BY <1>4, <2>8 DEF SwingUpdate
    <3>2. SwingsOf(bs, atr, S, n)
      BY <1>2, <2>5, <2>8, StillSearching
    <3> HIDE DEF new, moved
    <3> QED BY <1>4, <2>1, <2>2, <3>1, <3>2 DEF SwingState, new
  <2>9. CASE sides # {}
    <3> DEFINE side == IF "HIGH" \in sides THEN "HIGH" ELSE "LOW"
    <3>1. side \in sides
      BY <2>6, <2>9 DEF Sides
    <3>2. new = Confirm(moved, side, bar, n, atr[n])
      BY <1>4, <2>9 DEF SwingUpdate
    <3> HIDE DEF side, sides, moved, new
    <3>3. side \in SearchedOf(S, K) /\ side \in Sides /\ side \in moved.search
      BY <2>3, <2>6, <3>1
    <3>4. Tracks(new, bs, atr, n)
      BY <2>1, <2>2, <2>4, <3>2, <3>3, ConfirmTracks
    <3> DEFINE p == SwingOf(moved, side, n)
    <3>5. new.confirmed = Append(S, p)
      <4>1. ConfirmMakes(moved, new, side, bar, n, atr[n])
        BY <3>2, <3>3, ConfirmMade
      <4> QED BY <2>1, <4>1 DEF ConfirmMakes
    <3>6. p.detection = n /\ p.side = side /\ p.event = The(moved.candidate[side]).bar
      BY DEF SwingOf
    <3> HIDE DEF p
    <3>7. SwingsOf(bs, atr, Append(S, p), n)
      BY <1>2, <2>5, <2>7, <3>1, <3>3, <3>6, TurnConfirmed
    <3> QED BY <1>4, <3>4, <3>5, <3>7 DEF SwingState, new
  <2> QED BY <2>8, <2>9
<1> QED BY <1>3, <1>4

\* What was kept of n bars is kept when more are consumed.
LEMMA SwingsByBars ==
    ASSUME NEW n \in Nat, NEW bs, Prices(bs, n), NEW cs, NEW atr, NEW atr2,
           \A j \in 1..n : cs[j] = bs[j] /\ atr2[j] = atr[j],
           NEW sw, SwingTypes(sw, n), SwingState(sw, bs, atr, n), SwingsOf(bs, atr, sw.confirmed, n)
    PROVE  SwingState(sw, cs, atr2, n) /\ SwingsOf(cs, atr2, sw.confirmed, n)
<1> DEFINE S == sw.confirmed
           K == Len(S)
<1>1. Confirmed(S, n) /\ K \in Nat /\ DOMAIN S = 1..K /\ AtrWarmup \in Nat \ {0}
  BY WarmupIsNat DEF SwingTypes, Confirmed
<1>2. SwingState(sw, cs, atr2, n)
  <2>1. CASE n < AtrWarmup
    BY <2>1 DEF SwingState
  <2>2. CASE ~(n < AtrWarmup)
    <3>1. Tracks(sw, bs, atr, n) /\ AtrWarmup <= n
      BY <1>1, <2>2 DEF SwingState
    <3>2. FromOf(S, K) \in 1..n /\ \A bar \in 1..n : SinceOf(S, K, bar) \in 1..n
      BY <1>1, <3>1, FromIsBar
    <3>3. ASSUME NEW s \in sw.search
          PROVE  \E c, e \in ExtremeType :
                   /\ sw.candidate[s] = {c} /\ sw.opposite[Other(s)] = {e}
                   /\ Holds(cs, atr2, c, s, FromOf(S, K), n)
                   /\ Holds(cs, atr2, e, Other(s), SinceOf(S, K, c.bar), n)
      <4>1. s \in Sides /\ Other(s) \in Sides
        BY OtherSide DEF SwingTypes
      <4>2. PICK c, e \in ExtremeType :
               /\ sw.candidate[s] = {c} /\ sw.opposite[Other(s)] = {e}
               /\ Holds(bs, atr, c, s, FromOf(S, K), n)
               /\ Holds(bs, atr, e, Other(s), SinceOf(S, K, c.bar), n)
        BY <3>1 DEF Tracks
      <4>3. c.bar \in 1..n
        <5>1. c.bar \in FromOf(S, K)..n
          BY <4>2 DEF Holds
        <5> QED BY <3>2, <5>1
      <4>4. FromOf(S, K) \in Nat \ {0} /\ SinceOf(S, K, c.bar) \in Nat \ {0}
        BY <3>2, <4>3
      <4>5. Holds(cs, atr2, c, s, FromOf(S, K), n)
        <5> DEFINE from == FromOf(S, K)
        <5>1. from \in Nat \ {0} /\ Holds(bs, atr, c, s, from, n)
          BY <4>2, <4>4
        <5> HIDE DEF from
        <5>2. Holds(cs, atr2, c, s, from, n)
          BY <4>1, <5>1, HeldByBars
        <5> QED BY <5>2 DEF from
      <4>6. Holds(cs, atr2, e, Other(s), SinceOf(S, K, c.bar), n)
        BY <4>1, <4>2, <4>4, HeldByBars
      <4> QED BY <4>2, <4>5, <4>6
    <3>4. Tracks(sw, cs, atr2, n)
      BY <3>1, <3>3 DEF Tracks
    <3> QED BY <2>2, <3>4 DEF SwingState
  <2> QED BY <2>1, <2>2
<1>3. ASSUME NEW k \in 0..K
      PROVE  /\ TurnedOf(cs, atr2, S, k, n) = TurnedOf(bs, atr, S, k, n)
             /\ \A s \in SearchedOf(S, k), j \in AfterOf(S, k)..n :
                  /\ RunningOf(cs, s, FromOf(S, k), j) = RunningOf(bs, s, FromOf(S, k), j)
                  /\ TurnsOf(cs, atr2, S, s, k, j) <=> TurnsOf(bs, atr, S, s, k, j)
  <2>1. SearchedOf(S, k) \subseteq Sides
    BY <1>1, FromBeforeAfter
  <2>2. \A s \in SearchedOf(S, k), j \in AfterOf(S, k)..n :
          /\ RunningOf(cs, s, FromOf(S, k), j) = RunningOf(bs, s, FromOf(S, k), j)
          /\ TurnsOf(cs, atr2, S, s, k, j) <=> TurnsOf(bs, atr, S, s, k, j)
    BY <1>1, <2>1, TurnsByBars
  <2>3. TurnedOf(cs, atr2, S, k, n) = TurnedOf(bs, atr, S, k, n)
    BY <2>2 DEF TurnedOf
  <2> QED BY <2>2, <2>3
<1>4. SwingsOf(cs, atr2, S, n)
  <2>1. TurnedOf(cs, atr2, S, K, n) = {}
    BY <1>1, <1>3 DEF SwingsOf
  <2>2. ASSUME NEW k \in 0..(K - 1) PROVE IsTurn(cs, atr2, S, k, n)
    <3>1. k \in 0..K /\ IsTurn(bs, atr, S, k, n)
      BY <1>1 DEF SwingsOf
    <3>2. S[k + 1].detection \in AfterOf(S, k)..n
      BY <3>1 DEF IsTurn, TurnedOf
    <3> QED BY <1>3, <3>1, <3>2 DEF IsTurn
  <2> QED BY <2>1, <2>2 DEF SwingsOf
<1> QED BY <1>2, <1>4

-------------------------------------------------------------------------------
(* The ATR of every bar.                                                   *)

AtrWalk(bs, n, f) == f = [j \in 0..n |-> IF j = 0 THEN FreshAtr ELSE AtrUpdate(f[j - 1], bs[j])]
AtrValue(a) == IF a.value = {} THEN 0 ELSE The(a.value)

\* Two walks over the same bars are the same.
LEMMA AtrWalksAgree ==
    ASSUME NEW n \in Nat, NEW m \in n..(n + 1), NEW bs, NEW cs, \A j \in 1..n : cs[j] = bs[j],
           NEW f, AtrWalk(bs, n, f), NEW g, AtrWalk(cs, m, g)
    PROVE  \A j \in 0..n : f[j] = g[j]
<1> DEFINE Differ == {j \in 0..n : f[j] # g[j]}
<1>1. /\ f[0] = FreshAtr /\ \A j \in 1..n : f[j] = AtrUpdate(f[j - 1], bs[j])
      /\ g[0] = FreshAtr /\ \A j \in 1..m : g[j] = AtrUpdate(g[j - 1], cs[j])
  BY DEF AtrWalk
<1> SUFFICES ASSUME Differ # {} PROVE FALSE
  OBVIOUS
<1>2. PICK x \in Differ : \A y \in Differ : x <= y
  <2>1. Differ \subseteq Nat
    OBVIOUS
  <2> HIDE DEF Differ
  <2> QED BY <2>1, LeastExists
<1>3. x \in 0..n /\ f[x] # g[x] /\ \A y \in Differ : x <= y
  BY <1>2
<1>4. x # 0
  BY <1>1, <1>3
<1>5. x \in 1..n /\ x \in 1..m /\ x - 1 \in 0..n
  BY <1>3, <1>4
<1>6. x - 1 \notin Differ
  <2> HIDE DEF Differ
  <2> QED BY <1>3, <1>5
<1>7. f[x - 1] = g[x - 1]
  BY <1>5, <1>6
<1> QED BY <1>1, <1>3, <1>5, <1>7

AtrsOf(bs, n) ==
    LET atr[j \in 0 .. n] == IF j = 0 THEN FreshAtr ELSE AtrUpdate(atr[j - 1], bs[j])
    IN [j \in 1 .. n |-> IF atr[j].value = {} THEN 0 ELSE The(atr[j].value)]

LEMMA AtrsAreWalk ==
    ASSUME NEW n \in Nat, NEW bs, NEW f, AtrWalk(bs, n, f)
    PROVE  AtrsOf(bs, n) = [j \in 1..n |-> AtrValue(f[j])]
<1> DEFINE Follows(g) == g = [j \in 0..n |-> IF j = 0 THEN FreshAtr ELSE AtrUpdate(g[j - 1], bs[j])]
           walk == CHOOSE g : Follows(g)
<1>1. AtrsOf(bs, n) = [j \in 1..n |-> IF walk[j].value = {} THEN 0 ELSE The(walk[j].value)]
  BY DEF AtrsOf
<1>2. Follows(f)
  BY DEF AtrWalk
<1>3. Follows(walk)
  <2> HIDE DEF Follows
  <2> QED BY <1>2
<1> HIDE DEF walk
<1>4. AtrWalk(bs, n, walk)
  BY <1>3 DEF AtrWalk
<1>5. \A j \in 1..n : walk[j] = f[j]
  <2>1. \A j \in 0..n : walk[j] = f[j]
    BY <1>4, AtrWalksAgree
  <2> QED BY <2>1
<1> QED BY <1>1, <1>5 DEF AtrValue

AtrGoesOn(cs, n, f) ==
    \E g : /\ AtrWalk(cs, n, g) /\ g[n] = AtrUpdate(f[n - 1], cs[n])
           /\ \A j \in 0..(n - 1) : g[j] = f[j]

LEMMA AtrGrows ==
    ASSUME NEW n \in Nat \ {0}, NEW bs, NEW cs, \A j \in 1..(n - 1) : cs[j] = bs[j],
           NEW f, AtrWalk(bs, n - 1, f)
    PROVE  AtrGoesOn(cs, n, f)
<1> DEFINE g == [j \in 0..n |-> IF j = n THEN AtrUpdate(f[n - 1], cs[n]) ELSE f[j]]
<1>1. /\ f[0] = FreshAtr /\ \A j \in 1..(n - 1) : f[j] = AtrUpdate(f[j - 1], bs[j])
  BY DEF AtrWalk
<1>2. /\ g[n] = AtrUpdate(f[n - 1], cs[n]) /\ \A j \in 0..(n - 1) : g[j] = f[j]
  OBVIOUS
<1>3. ASSUME NEW j \in 0..n PROVE g[j] = IF j = 0 THEN FreshAtr ELSE AtrUpdate(g[j - 1], cs[j])
  <2> HIDE DEF g
  <2>1. CASE j = 0
    BY <1>1, <1>2, <2>1
  <2>2. CASE j = n /\ j # 0
    BY <1>2, <2>2
  <2>3. CASE j # 0 /\ j # n
    <3>1. j \in 1..(n - 1) /\ j - 1 \in 0..(n - 1) /\ j \in 0..(n - 1)
      BY <2>3
    <3> QED BY <1>1, <1>2, <2>3, <3>1
  <2> QED BY <2>1, <2>2, <2>3
<1>4. g = [j \in 0..n |-> g[j]]
  OBVIOUS
<1> HIDE DEF g
<1>5. AtrWalk(cs, n, g)
  <2>1. g = [j \in 0..n |-> IF j = 0 THEN FreshAtr ELSE AtrUpdate(g[j - 1], cs[j])]
    BY <1>3, <1>4
  <2> QED BY <2>1 DEF AtrWalk
<1> QED BY <1>2, <1>5 DEF AtrGoesOn

\* The property, said of the bars, the ATR and the swings.
LEMMA ReferenceIs == SwingsAreReference <=> SwingsOf(bars, AtrAt, market.swings.confirmed, Len(bars))
BY DEF SwingsAreReference, SwingsOf, IsTurn, TurnedOf, TurnsOf, RunningOf, Running, FromOf, AfterOf,
       SearchedOf, Now

LEMMA AtrAtIs == AtrAt = AtrsOf(bars, Len(bars))
BY DEF AtrAt, AtrsOf, Now

-----------------------------------------------------------------------------
\* The market state tracks the swings of the bars bs.
SwingsHold(bs, n, m) ==
    /\ \E f : AtrWalk(bs, n, f) /\ f[n] = m.atr
    /\ AtrIs(AtrsOf(bs, n), n)
    /\ SwingState(m.swings, bs, AtrsOf(bs, n), n)
    /\ SwingsOf(bs, AtrsOf(bs, n), m.swings.confirmed, n)

SwingInv == MarketInv /\ SwingsHold(bars, Len(bars), market)

LEMMA SwingsBegin == SwingsHold(<<>>, 0, FreshMarket)
<1> DEFINE f == [j \in 0..0 |-> FreshAtr]
           m == FreshMarket
           atr == AtrsOf(<<>>, 0)
<1>1. m.atr = FreshAtr /\ m.swings = FreshSwings /\ FreshSwings.confirmed = <<>>
  BY DEF FreshMarket, FreshSwings
<1>2. AtrWalk(<<>>, 0, f) /\ f[0] = FreshAtr
  BY DEF AtrWalk
<1>3. AtrIs(atr, 0)
  BY DEF AtrIs
<1>4. SwingState(FreshSwings, <<>>, atr, 0)
  BY WarmupIsNat DEF SwingState
<1>5. SwingsOf(<<>>, atr, <<>>, 0)
  <2>1. AfterOf(<<>>, 0) = AtrWarmup /\ AtrWarmup..0 = {}
    BY WarmupIsNat DEF AfterOf
  <2>2. TurnedOf(<<>>, atr, <<>>, 0, 0) = {}
    BY <2>1 DEF TurnedOf
  <2> QED BY <2>2 DEF SwingsOf
<1> HIDE DEF f, m, atr
<1>6. SwingsHold(<<>>, 0, m)
  BY <1>1, <1>2, <1>3, <1>4, <1>5 DEF SwingsHold, atr
<1> QED BY <1>6 DEF m

LEMMA SwingsContinue ==
    ASSUME NEW bs \in Seq(Bar), NEW bar \in Bar, NEW m, MarketTypes(m), m.bars = Len(bs),
           SwingsHold(bs, Len(bs), m), NEW new, MarketTypes(new), Advanced(m, new, bar)
    PROVE  SwingsHold(Append(bs, bar), Len(bs) + 1, new)
<1> DEFINE n == Len(bs) + 1
           cs == Append(bs, bar)
           old == AtrsOf(bs, n - 1)
           atr == AtrsOf(cs, n)
           sw == m.swings
<1>1. n \in Nat \ {0} /\ n - 1 \in Nat /\ Len(bs) = n - 1
  OBVIOUS
<1>2. cs[n] = bar /\ (\A j \in 1..n : cs[j] \in Bar) /\ \A j \in 1..(n - 1) : cs[j] = bs[j] /\ bs[j] \in Bar
  OBVIOUS
<1> HIDE DEF n, cs
<1>3. PICK f : AtrWalk(bs, n - 1, f) /\ f[n - 1] = m.atr
  BY <1>1 DEF SwingsHold
<1>4. PICK g : /\ AtrWalk(cs, n, g) /\ g[n] = AtrUpdate(f[n - 1], cs[n])
               /\ \A j \in 0..(n - 1) : g[j] = f[j]
  <2>1. \A j \in 1..(n - 1) : cs[j] = bs[j]
    BY <1>2
  <2>2. AtrGoesOn(cs, n, f)
    BY <1>1, <1>3, <2>1, AtrGrows
  <2> QED BY <2>2 DEF AtrGoesOn
<1>5. old = [j \in 1..(n - 1) |-> AtrValue(f[j])] /\ atr = [j \in 1..n |-> AtrValue(g[j])]
  BY <1>1, <1>3, <1>4, AtrsAreWalk
<1>6. g[n] = new.atr /\ new.atr = NextAtr(m, bar)
  BY <1>2, <1>3, <1>4 DEF Advanced, NextAtr
<1>7. atr[n] = AtrValue(new.atr) /\ \A j \in 1..(n - 1) : atr[j] = old[j]
  BY <1>1, <1>4, <1>5, <1>6
<1> HIDE DEF atr, old
<1>8. AtrIs(old, n - 1) /\ SwingState(sw, bs, old, n - 1) /\ SwingsOf(bs, old, sw.confirmed, n - 1)
  BY <1>1 DEF SwingsHold, old
<1>9. AtrIs(atr, n)
  <2>1. AtrTypes(new.atr)
    BY DEF MarketTypes
  <2>2. AtrValue(new.atr) \in Nat
    <3>1. CASE new.atr.value = {}
      BY <3>1 DEF AtrValue
    <3>2. ASSUME NEW v \in Nat, new.atr.value = {v} PROVE AtrValue(new.atr) \in Nat
      BY <3>2, TheOne DEF AtrValue
    <3> QED BY <2>1, <3>1, <3>2 DEF AtrTypes, Optional
  <2>3. \A j \in 1..n : j = n \/ j \in 1..(n - 1)
    BY <1>1
  <2> QED BY <1>7, <1>8, <2>2, <2>3 DEF AtrIs
<1>10. SwingTypes(sw, n - 1)
  BY <1>1 DEF MarketTypes
<1>11. SwingState(sw, cs, atr, n - 1) /\ SwingsOf(cs, atr, sw.confirmed, n - 1)
  <2>1. Prices(bs, n - 1) /\ \A j \in 1..(n - 1) : cs[j] = bs[j] /\ atr[j] = old[j]
    BY <1>2, <1>7 DEF Prices
  <2> QED BY <1>1, <1>8, <1>10, <2>1, SwingsByBars
<1>12. new.swings = SwingUpdate(sw, cs[n], n, atr[n])
  <2>1. m.bars + 1 = n
    BY DEF n
  <2> QED BY <1>2, <1>6, <1>7, <2>1 DEF Advanced, NextSwings, AtrValue
<1>13. SwingState(new.swings, cs, atr, n) /\ SwingsOf(cs, atr, new.swings.confirmed, n)
  <2>1. Prices(cs, n)
    BY <1>2 DEF Prices
  <2> QED BY <1>1, <1>9, <1>10, <1>11, <1>12, <2>1, SwingsStep
<1>14. SwingsHold(cs, n, new)
  BY <1>4, <1>6, <1>9, <1>13 DEF SwingsHold, atr
<1> QED BY <1>14 DEF cs, n

LEMMA SwingInvKeeps == ThresholdsDescend /\ SwingInv /\ [Next]_vars => SwingInv'
<1> SUFFICES ASSUME ThresholdsDescend, SwingInv, [Next]_vars PROVE SwingInv'
  OBVIOUS
<1>1. MarketInv /\ MarketInv'
  BY NextKeeps DEF SwingInv
<1>2. CASE UNCHANGED vars
  BY <1>1, <1>2 DEF vars, SwingInv
<1>3. CASE Next
  <2>1. PICK bar \in Bar : Consumes(bar)
    BY <1>1, <1>3, NextConsumes
  <2>2. bars' = Append(bars, bar) /\ Len(bars') = Len(bars) + 1 /\ bars \in Seq(Bar)
    BY <1>1, <2>1 DEF Consumes, MarketInv
  <2>3. /\ MarketTypes(market) /\ market.bars = Len(bars) /\ MarketTypes(market')
        /\ Advanced(market, market', bar)
    BY <1>1, <2>1 DEF Consumes, MarketInv
  <2>4. SwingsHold(bars', Len(bars'), market')
    BY <2>2, <2>3, SwingsContinue DEF SwingInv
  <2> QED BY <1>1, <2>4 DEF SwingInv
<1> QED BY <1>2, <1>3

\* The confirmed swings are those of the directional-change definition over all
\* the bars, for any bars and any reversal distance: they alternate, each is the
\* earliest most extreme bar since the search for it began, and its detection is
\* the first later close that retraces the ATR distance frozen at that bar
\* (swing_point.py:117-163).
THEOREM SwingsFollowDefinition == ThresholdsDescend => (Spec => []SwingsAreReference)
<1> SUFFICES ASSUME ThresholdsDescend PROVE Spec => []SwingsAreReference
  OBVIOUS
<1>1. Init => SwingInv
  <2> SUFFICES ASSUME Init PROVE SwingInv
    OBVIOUS
  <2>1. bars = <<>> /\ Len(bars) = 0 /\ market = FreshMarket
    BY DEF Init
  <2> QED BY <2>1, InitHolds, SwingsBegin DEF SwingInv
<1>2. SwingInv /\ [Next]_vars => SwingInv'
  BY SwingInvKeeps
<1>3. SwingInv => SwingsAreReference
  BY ReferenceIs, AtrAtIs DEF SwingInv, SwingsHold
<1> QED BY <1>1, <1>2, <1>3, PTL DEF Spec

-------------------------------------------------------------------------------
(* The windows of the range state.                                         *)

LEMMA SliceProperties ==
    ASSUME NEW T, NEW s, NEW m \in Int, NEW n \in Int, m <= n, \A i \in m..n : s[i] \in T
    PROVE  /\ SubSeq(s, m, n) \in Seq(T)
           /\ Len(SubSeq(s, m, n)) = n - m + 1
           /\ \A i \in 1..(n - m + 1) : SubSeq(s, m, n)[i] = s[m + i - 1]
OBVIOUS

\* A window that keeps the last `size` elements, one more pushed.
Pushes(w, size, x, new) ==
    /\ Len(new) = IF Len(w) < size THEN Len(w) + 1 ELSE size
    /\ DOMAIN new = 1..Len(new)
    /\ new[Len(new)] = x
    /\ \A i \in 1..(Len(new) - 1) : new[i] = w[i + (Len(w) + 1 - Len(new))]

LEMMA WindowPushes ==
    ASSUME NEW T, NEW w \in Seq(T), NEW size \in Nat \ {0}, Len(w) <= size, NEW x \in T
    PROVE  Pushed(w, size, x) \in Seq(T) /\ Pushes(w, size, x, Pushed(w, size, x))
<1> DEFINE all == Append(w, x)
           from == Max({1, Len(all) - size + 1})
           new == Pushed(w, size, x)
<1>1. all \in Seq(T) /\ Len(all) = Len(w) + 1 /\ all[Len(w) + 1] = x
      /\ \A i \in 1..Len(w) : all[i] = w[i]
  OBVIOUS
<1>2. Len(w) \in Nat
  OBVIOUS
<1>3. from = IF Len(w) < size THEN 1 ELSE 2
  <2>1. from = IF 1 >= Len(all) - size + 1 THEN 1 ELSE Len(all) - size + 1
    BY <1>1, <1>2, MaxOfTwo
  <2> QED BY <1>1, <1>2, <2>1
<1>4. new = SubSeq(all, from, Len(all))
  BY DEF Pushed
<1> HIDE DEF all, from
<1>5. /\ new \in Seq(T) /\ Len(new) = Len(all) - from + 1
      /\ \A i \in 1..Len(new) : new[i] = all[from + i - 1]
  <2>1. from \in 1..2 /\ from <= Len(all)
    BY <1>1, <1>2, <1>3
  <2>2. \A i \in from..Len(all) : all[i] \in T
    BY <1>1, <1>2, <2>1
  <2> QED BY <1>1, <1>4, <2>1, <2>2, SliceProperties
<1> HIDE DEF new
<1>6. Len(new) = (IF Len(w) < size THEN Len(w) + 1 ELSE size) /\ Len(new) >= 1
  BY <1>1, <1>2, <1>3, <1>5
<1>7. new[Len(new)] = x
  <2>1. from + Len(new) - 1 = Len(w) + 1 /\ Len(new) \in 1..Len(new)
    BY <1>1, <1>2, <1>3, <1>5, <1>6
  <2> QED BY <1>1, <1>5, <2>1
<1>8. ASSUME NEW i \in 1..(Len(new) - 1) PROVE new[i] = w[i + (Len(w) + 1 - Len(new))]
  <2>1. i \in 1..Len(new) /\ from + i - 1 = i + (Len(w) + 1 - Len(new)) /\ from + i - 1 \in 1..Len(w)
    BY <1>1, <1>2, <1>3, <1>5, <1>6
  <2> QED BY <1>1, <1>5, <2>1
<1>9. DOMAIN new = 1..Len(new)
  BY <1>5
<1>10. new \in Seq(T) /\ Pushes(w, size, x, new)
  BY <1>5, <1>6, <1>7, <1>8, <1>9 DEF Pushes
<1> QED BY <1>10 DEF new

\* The window w holds the last elements of f[1], ..., f[n].
LastAre(w, size, f, n) ==
    /\ Len(w) = IF n < size THEN n ELSE size
    /\ \A i \in 1..Len(w) : w[i] = f[n - Len(w) + i]

LEMMA LastGoOn ==
    ASSUME NEW T, NEW w \in Seq(T), NEW size \in Nat \ {0}, NEW n \in Nat \ {0}, NEW f,
           LastAre(w, size, f, n - 1), NEW g, \A j \in 1..(n - 1) : g[j] = f[j], g[n] \in T
    PROVE  /\ Pushed(w, size, g[n]) \in Seq(T)
           /\ LastAre(Pushed(w, size, g[n]), size, g, n)
<1> DEFINE new == Pushed(w, size, g[n])
<1>1. Len(w) \in Nat /\ Len(w) <= size /\ Len(w) <= n - 1
  BY DEF LastAre
<1>2. new \in Seq(T) /\ Pushes(w, size, g[n], new)
  BY <1>1, WindowPushes
<1> HIDE DEF new
<1>3. Len(new) \in Nat /\ Len(new) = IF n < size THEN n ELSE size
  BY <1>1, <1>2 DEF LastAre, Pushes
<1>4. ASSUME NEW i \in 1..Len(new) PROVE new[i] = g[n - Len(new) + i]
  <2>1. CASE i = Len(new)
    <3>1. n - Len(new) + i = n
      BY <1>3, <2>1
    <3> QED BY <1>2, <2>1, <3>1 DEF Pushes
  <2>2. CASE i # Len(new)
    <3> DEFINE k == i + (Len(w) + 1 - Len(new))
    <3>1. i \in 1..(Len(new) - 1) /\ k \in 1..Len(w)
      BY <1>1, <1>2, <1>3, <2>2 DEF Pushes
    <3>2. new[i] = w[k]
      BY <1>2, <3>1 DEF Pushes
    <3>3. w[k] = f[n - 1 - Len(w) + k]
      BY <3>1 DEF LastAre
    <3>4. n - 1 - Len(w) + k = n - Len(new) + i /\ n - Len(new) + i \in 1..(n - 1)
      BY <1>1, <1>3, <3>1
    <3> QED BY <3>2, <3>3, <3>4
  <2> QED BY <2>1, <2>2
<1>5. LastAre(new, size, g, n)
  BY <1>3, <1>4 DEF LastAre
<1> QED BY <1>2, <1>5 DEF new

-------------------------------------------------------------------------------
(* The sum of the true ranges of a window is a number.                     *)

Picked(s) == CHOOSE y \in s : TRUE
SumFrom(w, g, s) == IF s = {} THEN 0 ELSE w[Picked(s)].range + g[s \ {Picked(s)}]
Summing(S, w, g) == g = [s \in SUBSET S |-> SumFrom(w, g, s)]

LEMMA ScoreSumIs ==
    ASSUME NEW w
    PROVE  ChopScore(w).sum = (CHOOSE g : Summing(DOMAIN w, w, g))[DOMAIN w]
BY DEF ChopScore, MapThenSumSet, MapThenFoldSet, Summing, SumFrom, Picked

\* A set without its picked element has one element less.
LEMMA PickedLess ==
    ASSUME NEW S, IsFiniteSet(S), NEW s \in SUBSET S, s # {}
    PROVE  /\ Picked(s) \in s /\ s \ {Picked(s)} \in SUBSET S
           /\ Cardinality(s) \in Nat \ {0}
           /\ Cardinality(s \ {Picked(s)}) = Cardinality(s) - 1
<1>1. Picked(s) \in s
  BY DEF Picked
<1>2. IsFiniteSet(s)
  BY FS_Subset
<1> QED BY <1>1, <1>2, FS_RemoveElement, FS_EmptySet, FS_CardinalityType

SumsTo(S, w, g, k) == \A s \in SUBSET S : Cardinality(s) <= k => g[s] = SumFrom(w, g, s)

LEMMA SummingGrows ==
    ASSUME NEW S, IsFiniteSet(S), NEW w, NEW k \in Nat \ {0}, NEW g, SumsTo(S, w, g, k - 1)
    PROVE  \E h : SumsTo(S, w, h, k)
<1> DEFINE h == [s \in SUBSET S |-> IF Cardinality(s) <= k - 1 THEN g[s] ELSE SumFrom(w, g, s)]
<1>1. ASSUME NEW s \in SUBSET S, Cardinality(s) <= k PROVE h[s] = SumFrom(w, h, s)
  <2>1. CASE s = {}
    <3>1. h[s] = 0
      <4>1. Cardinality(s) = 0
        BY <2>1, FS_EmptySet
      <4> QED BY <2>1, <4>1 DEF SumsTo, SumFrom
    <3> QED BY <2>1, <3>1 DEF SumFrom
  <2>2. CASE s # {}
    <3> DEFINE t == s \ {Picked(s)}
    <3>1. t \in SUBSET S /\ Cardinality(s) \in Nat \ {0} /\ Cardinality(t) = Cardinality(s) - 1
      BY <2>2, PickedLess
    <3>2. Cardinality(t) <= k - 1
      BY <1>1, <3>1
    <3>3. h[t] = g[t]
      BY <3>1, <3>2
    <3>4. h[s] = SumFrom(w, g, s)
      <4>1. CASE Cardinality(s) <= k - 1
        BY <4>1 DEF SumsTo
      <4>2. CASE ~(Cardinality(s) <= k - 1)
        BY <4>2
      <4> QED BY <4>1, <4>2
    <3> HIDE DEF h
    <3> QED BY <2>2, <3>3, <3>4 DEF SumFrom
  <2> QED BY <2>1, <2>2
<1> HIDE DEF h
<1> QED BY <1>1 DEF SumsTo

LEMMA SummingExists ==
    ASSUME NEW S, IsFiniteSet(S), NEW w
    PROVE  \E g : Summing(S, w, g)
<1> DEFINE Failing == {k \in Nat : ~ \E g : SumsTo(S, w, g, k)}
<1>1. Failing = {}
  <2> SUFFICES ASSUME Failing # {} PROVE FALSE
    OBVIOUS
  <2>1. PICK k \in Failing : \A j \in Failing : k <= j
    <3>1. Failing \subseteq Nat
      OBVIOUS
    <3> HIDE DEF Failing
    <3> QED BY <3>1, LeastExists
  <2>2. k \in Nat /\ ~ \E g : SumsTo(S, w, g, k)
    OBVIOUS
  <2>3. CASE k = 0
    <3> DEFINE g == [s \in SUBSET S |-> 0]
    <3>1. ASSUME NEW s \in SUBSET S, Cardinality(s) <= 0 PROVE s = {}
      <4>1. IsFiniteSet(s)
        BY FS_Subset
      <4> QED BY <3>1, <4>1, FS_EmptySet, FS_CardinalityType
    <3>2. \A s \in SUBSET S : g[s] = 0
      OBVIOUS
    <3> HIDE DEF g
    <3>3. SumsTo(S, w, g, 0)
      BY <3>1, <3>2 DEF SumsTo, SumFrom
    <3> QED BY <2>2, <2>3, <3>3
  <2>4. CASE k # 0
    <3>1. k \in Nat \ {0} /\ k - 1 \in Nat /\ k - 1 \notin Failing
      <4> HIDE DEF Failing
      <4> QED BY <2>1, <2>2, <2>4
    <3>2. PICK g : SumsTo(S, w, g, k - 1)
      BY <3>1
    <3> QED BY <2>2, <3>1, <3>2, SummingGrows
  <2> QED BY <2>3, <2>4
<1>2. Cardinality(S) \in Nat
  BY FS_CardinalityType
<1>3. PICK g : SumsTo(S, w, g, Cardinality(S))
  BY <1>1, <1>2
<1> DEFINE h == [s \in SUBSET S |-> g[s]]
<1>4. ASSUME NEW s \in SUBSET S PROVE h[s] = SumFrom(w, h, s)
  <2>1. Cardinality(s) <= Cardinality(S)
    BY FS_Subset
  <2>2. g[s] = SumFrom(w, g, s)
    BY <1>3, <2>1 DEF SumsTo
  <2>3. s \ {Picked(s)} \in SUBSET S
    OBVIOUS
  <2> QED BY <2>2, <2>3 DEF SumFrom
<1>5. h = [s \in SUBSET S |-> h[s]]
  OBVIOUS
<1> HIDE DEF h
<1>6. Summing(S, w, h)
  BY <1>4, <1>5 DEF Summing
<1> QED BY <1>6

LEMMA ScoreSumIsInt ==
    ASSUME NEW w, IsFiniteSet(DOMAIN w), \A i \in DOMAIN w : w[i].range \in Int
    PROVE  ChopScore(w).sum \in Int
<1> DEFINE S == DOMAIN w
           g == CHOOSE x : Summing(S, w, x)
<1>1. Summing(S, w, g)
  BY SummingExists
<1> HIDE DEF g
<1>2. \A s \in SUBSET S : g[s] = SumFrom(w, g, s)
  BY <1>1 DEF Summing
<1> DEFINE Failing == {k \in Nat : \E s \in SUBSET S : Cardinality(s) = k /\ g[s] \notin Int}
<1>3. Failing = {}
  <2> SUFFICES ASSUME Failing # {} PROVE FALSE
    OBVIOUS
  <2>1. PICK k \in Failing : \A j \in Failing : k <= j
    <3>1. Failing \subseteq Nat
      OBVIOUS
    <3> HIDE DEF Failing
    <3> QED BY <3>1, LeastExists
  <2>2. PICK s \in SUBSET S : Cardinality(s) = k /\ g[s] \notin Int
    OBVIOUS
  <2>3. s # {}
    <3>1. g[s] = SumFrom(w, g, s)
      BY <1>2
    <3>2. s = {} => SumFrom(w, g, s) = 0
      BY DEF SumFrom
    <3> HIDE DEF Failing
    <3> QED BY <2>2, <3>1, <3>2
  <2> DEFINE t == s \ {Picked(s)}
  <2>4. Picked(s) \in s /\ t \in SUBSET S /\ k \in Nat \ {0} /\ Cardinality(t) = k - 1
    BY <2>2, <2>3, PickedLess
  <2>5. k - 1 \in Nat /\ k - 1 \notin Failing
    <3> HIDE DEF Failing, t
    <3> QED BY <2>1, <2>4
  <2>6. g[t] \in Int
    BY <2>4, <2>5
  <2>7. g[s] = w[Picked(s)].range + g[t]
    BY <1>2, <2>3 DEF SumFrom
  <2> HIDE DEF t
  <2> QED BY <2>2, <2>4, <2>6, <2>7
<1>4. Cardinality(S) \in Nat
  BY FS_CardinalityType
<1>5. g[S] \in Int
  BY <1>3, <1>4
<1> QED BY <1>5, ScoreSumIs DEF g

-------------------------------------------------------------------------------
(* The definition of a compression, over the first n of the bars b.        *)

ClosesOf(b, j) == [i \in 1 .. BandwidthPeriod |-> b[j - BandwidthPeriod + i].close]
WideOf(b, n) == {j \in BandwidthPeriod .. n : SumOf(ClosesOf(b, j)) # 0}
WidthsOf(b, n) == [j \in WideOf(b, n) |-> Bandwidth(ClosesOf(b, j))]
RankedIn(W, j) == {i \in W : i < j /\ Cardinality(W \cap i .. j - 1) < ReferenceBars}
RecordOf(b, x) ==
    [range |-> TrueRange({b[y].close : y \in {x - 1} \cap DOMAIN b}, b[x]),
     high |-> b[x].high, low |-> b[x].low]
ChopOf(b, j) == [i \in 1 .. ChopPeriod |-> RecordOf(b, j - ChopPeriod + i)]
ScoredOf(b, n) ==
    {j \in WideOf(b, n) : /\ j >= ChopPeriod /\ ChopScore(ChopOf(b, j)).envelope > 0
                          /\ Cardinality(WideOf(b, n) \cap 1 .. j) >= ReferenceBars}
LowerOf(b, n, j) ==
    Cardinality({i \in RankedIn(WideOf(b, n), j) : Narrower(WidthsOf(b, n)[i], WidthsOf(b, n)[j])})
ScoringOf(b, n, j) ==
    [status |-> "AVAILABLE", score |-> ChopScore(ChopOf(b, j)), lower |-> LowerOf(b, n, j)]
ObservedOf(b, n) == [j \in ScoredOf(b, n) |-> ScoringOf(b, n, j)]
QualifyingOf(b, n) == {j \in ScoredOf(b, n) : Qualifies(ObservedOf(b, n)[j])}
ReleasedOf(b, n) == {j \in ScoredOf(b, n) : Releases(ObservedOf(b, n)[j]) # {}}

ActiveIn(Q, R, n) ==
    \E t \in Q : t - ConfirmationBars + 1 .. t \subseteq Q /\ t + 1 .. n \cap R = {}

Streaks(Q, R, n, state) ==
    /\ state = "ACTIVE" <=> ActiveIn(Q, R, n)
    /\ state = "CANDIDATE" <=> n \in Q /\ ~ActiveIn(Q, R, n)

Dated(log) ==
    \A i \in DOMAIN log :
      log[i].slot = Compression /\ log[i].edge.to = "ACTIVE"
      => log[i].event = log[i].detection - ConfirmationBars + 1

LEMMA StreakIs ==
    CompressionIsStreak <=>
      /\ Streaks(QualifyingOf(bars, Len(bars)), ReleasedOf(bars, Len(bars)), Len(bars),
                 runtime.slots[Compression].state)
      /\ Dated(runtime.log)
BY DEF CompressionIsStreak, Streaks, Dated, ActiveIn, ReleasedOf, QualifyingOf, ObservedOf, ScoringOf,
       LowerOf, ScoredOf, ChopOf, RecordOf, RankedIn, WidthsOf, WideOf, ClosesOf, Now

\* The bars c are b and one more.
Extending1(b, c, n) ==
    /\ DOMAIN b = 1..(n - 1) /\ DOMAIN c = 1..n
    /\ \A j \in 1..(n - 1) : c[j] = b[j]

LEMMA PeriodsAreNat ==
    /\ BandwidthPeriod \in Nat \ {0, 1} /\ ChopPeriod \in Nat \ {0, 1}
    /\ ReferenceBars \in Nat \ {0, 1} /\ ConfirmationBars \in Nat \ {0, 1}
BY IndicatorAssumption, CompressionAssumption

LEMMA WidthsByBars ==
    ASSUME NEW n \in Nat \ {0}, NEW b, NEW c, Extending1(b, c, n)
    PROVE  /\ \A j \in BandwidthPeriod..(n - 1) : ClosesOf(c, j) = ClosesOf(b, j)
           /\ \A j \in WideOf(b, n - 1) : j \in WideOf(c, n) /\ WidthsOf(c, n)[j] = WidthsOf(b, n - 1)[j]
           /\ WideOf(c, n) = WideOf(b, n - 1) \cup (WideOf(c, n) \cap {n})
           /\ WideOf(b, n - 1) \subseteq 1..(n - 1)
<1>1. ASSUME NEW j \in BandwidthPeriod..(n - 1) PROVE ClosesOf(c, j) = ClosesOf(b, j)
  <2>1. \A i \in 1..BandwidthPeriod : j - BandwidthPeriod + i \in 1..(n - 1)
    BY PeriodsAreNat
  <2>2. \A i \in 1..BandwidthPeriod : c[j - BandwidthPeriod + i] = b[j - BandwidthPeriod + i]
    BY <2>1 DEF Extending1
  <2> QED BY <2>2 DEF ClosesOf
<1>2. \A j : j \in WideOf(b, n - 1) <=> j \in BandwidthPeriod..(n - 1) /\ SumOf(ClosesOf(b, j)) # 0
  BY DEF WideOf
<1>3. \A j : j \in WideOf(c, n) <=> j \in BandwidthPeriod..n /\ SumOf(ClosesOf(c, j)) # 0
  BY DEF WideOf
<1>4. \A j \in BandwidthPeriod..n : j \in BandwidthPeriod..(n - 1) \/ j = n
  BY PeriodsAreNat
<1>5. BandwidthPeriod..(n - 1) \subseteq BandwidthPeriod..n /\ BandwidthPeriod..(n - 1) \subseteq 1..(n - 1)
  BY PeriodsAreNat
<1>6. \A j \in WideOf(b, n - 1) : j \in WideOf(c, n)
  BY <1>1, <1>2, <1>3, <1>5
<1>7. \A j \in WideOf(b, n - 1) : WidthsOf(c, n)[j] = WidthsOf(b, n - 1)[j]
  BY <1>1, <1>2, <1>6 DEF WidthsOf
<1>8. WideOf(c, n) \subseteq WideOf(b, n - 1) \cup (WideOf(c, n) \cap {n})
  BY <1>1, <1>2, <1>3, <1>4
<1>9. WideOf(b, n - 1) \subseteq 1..(n - 1)
  BY <1>2, <1>5
<1> QED BY <1>1, <1>6, <1>7, <1>8, <1>9

LEMMA RecordsByBars ==
    ASSUME NEW n \in Nat \ {0}, NEW b, NEW c, Extending1(b, c, n)
    PROVE  /\ \A x \in 1..(n - 1) : RecordOf(c, x) = RecordOf(b, x)
           /\ \A j \in ChopPeriod..(n - 1) : ChopOf(c, j) = ChopOf(b, j)
<1>1. ASSUME NEW x \in 1..(n - 1) PROVE RecordOf(c, x) = RecordOf(b, x)
  <2>1. {x - 1} \cap DOMAIN c = {x - 1} \cap DOMAIN b
    BY DEF Extending1
  <2>2. \A y \in {x - 1} \cap DOMAIN b : c[y] = b[y]
    BY DEF Extending1
  <2>3. {c[y].close : y \in {x - 1} \cap DOMAIN c} = {b[y].close : y \in {x - 1} \cap DOMAIN b}
    BY <2>1, <2>2
  <2>4. c[x] = b[x]
    BY DEF Extending1
  <2> QED BY <2>3, <2>4 DEF RecordOf
<1>2. ASSUME NEW j \in ChopPeriod..(n - 1) PROVE ChopOf(c, j) = ChopOf(b, j)
  <2>1. \A i \in 1..ChopPeriod : j - ChopPeriod + i \in 1..(n - 1)
    BY PeriodsAreNat
  <2> QED BY <1>1, <2>1 DEF ChopOf
<1> QED BY <1>1, <1>2

\* What was said of a bar is said when more are consumed.
LEMMA ScoresByBars ==
    ASSUME NEW n \in Nat \ {0}, NEW b, NEW c, Extending1(b, c, n)
    PROVE  \A j \in 1..(n - 1) : /\ j \in ScoredOf(c, n) <=> j \in ScoredOf(b, n - 1)
                                 /\ j \in ScoredOf(b, n - 1) => ScoringOf(c, n, j) = ScoringOf(b, n - 1, j)
<1> DEFINE V == WideOf(b, n - 1)
           W == WideOf(c, n)
<1>1. W = V \cup (W \cap {n}) /\ V \subseteq 1..(n - 1)
      /\ \A j \in V : WidthsOf(c, n)[j] = WidthsOf(b, n - 1)[j]
  BY WidthsByBars
<1> SUFFICES ASSUME NEW j \in 1..(n - 1)
             PROVE  /\ j \in ScoredOf(c, n) <=> j \in ScoredOf(b, n - 1)
                    /\ j \in ScoredOf(b, n - 1) => ScoringOf(c, n, j) = ScoringOf(b, n - 1, j)
  OBVIOUS
<1>0. j \in Nat /\ n \notin 1..j /\ n \notin 1..(n - 1)
  OBVIOUS
<1>2. W \cap 1..j = V \cap 1..j /\ (j \in W <=> j \in V)
  <2> HIDE DEF V, W
  <2> QED BY <1>0, <1>1
<1>3. j >= ChopPeriod => ChopOf(c, j) = ChopOf(b, j)
  <2>1. j >= ChopPeriod => j \in ChopPeriod..(n - 1)
    BY PeriodsAreNat
  <2> QED BY <2>1, RecordsByBars
<1>4. j \in ScoredOf(c, n) <=> j \in ScoredOf(b, n - 1)
  BY <1>2, <1>3 DEF ScoredOf
<1>5. ASSUME j \in ScoredOf(b, n - 1) PROVE ScoringOf(c, n, j) = ScoringOf(b, n - 1, j)
  <2>1. j \in V /\ j >= ChopPeriod
    BY <1>5 DEF ScoredOf
  <2>2. RankedIn(W, j) = RankedIn(V, j)
    <3>1. ASSUME NEW i, i < j, i \in V \/ i \in W PROVE W \cap i..(j - 1) = V \cap i..(j - 1)
      <4>1. n \notin i..(j - 1)
        BY <1>1, <3>1
      <4> HIDE DEF V, W
      <4> QED BY <1>1, <4>1
    <3>2. \A i : i < j => (i \in W <=> i \in V)
      <4>1. ASSUME NEW i, i < j, i \in W PROVE i \in V
        <5>1. i # n
          BY <4>1
        <5> HIDE DEF V, W
        <5> QED BY <1>1, <4>1, <5>1
      <4> HIDE DEF V, W
      <4> QED BY <1>1, <4>1
    <3> HIDE DEF V, W
    <3> QED BY <3>1, <3>2 DEF RankedIn
  <2>3. RankedIn(V, j) \subseteq V
    BY DEF RankedIn
  <2>4. \A i \in RankedIn(V, j) : WidthsOf(c, n)[i] = WidthsOf(b, n - 1)[i]
    BY <1>1, <2>3
  <2>5. WidthsOf(c, n)[j] = WidthsOf(b, n - 1)[j]
    BY <1>1, <2>1
  <2>6. {i \in RankedIn(W, j) : Narrower(WidthsOf(c, n)[i], WidthsOf(c, n)[j])}
        = {i \in RankedIn(V, j) : Narrower(WidthsOf(b, n - 1)[i], WidthsOf(b, n - 1)[j])}
    <3> HIDE DEF V, W
    <3> QED BY <2>2, <2>4, <2>5
  <2>7. LowerOf(c, n, j) = LowerOf(b, n - 1, j)
    BY <2>6 DEF LowerOf
  <2> QED BY <1>3, <2>1, <2>7 DEF ScoringOf
<1> QED BY <1>4, <1>5

LEMMA StreaksByBars ==
    ASSUME NEW n \in Nat \ {0}, NEW b, NEW c, Extending1(b, c, n)
    PROVE  /\ QualifyingOf(c, n) = QualifyingOf(b, n - 1) \cup (QualifyingOf(c, n) \cap {n})
           /\ ReleasedOf(c, n) = ReleasedOf(b, n - 1) \cup (ReleasedOf(c, n) \cap {n})
           /\ QualifyingOf(b, n - 1) \subseteq 1..(n - 1) /\ ReleasedOf(b, n - 1) \subseteq 1..(n - 1)
<1>1. ScoredOf(b, n - 1) \subseteq 1..(n - 1)
  BY WidthsByBars DEF ScoredOf
<1>2. ScoredOf(c, n) \subseteq 1..(n - 1) \cup {n}
  <2>1. WideOf(c, n) \subseteq 1..(n - 1) \cup {n}
    BY WidthsByBars
  <2> QED BY <2>1 DEF ScoredOf
<1>3. \A j \in 1..(n - 1) : /\ j \in ScoredOf(c, n) <=> j \in ScoredOf(b, n - 1)
                            /\ j \in ScoredOf(b, n - 1) => ObservedOf(c, n)[j] = ObservedOf(b, n - 1)[j]
  BY ScoresByBars DEF ObservedOf
<1>4. \A j \in 1..(n - 1) : /\ j \in QualifyingOf(c, n) <=> j \in QualifyingOf(b, n - 1)
                            /\ j \in ReleasedOf(c, n) <=> j \in ReleasedOf(b, n - 1)
  BY <1>3 DEF QualifyingOf, ReleasedOf
<1>5. /\ QualifyingOf(b, n - 1) \subseteq 1..(n - 1) /\ ReleasedOf(b, n - 1) \subseteq 1..(n - 1)
      /\ QualifyingOf(c, n) \subseteq 1..(n - 1) \cup {n} /\ ReleasedOf(c, n) \subseteq 1..(n - 1) \cup {n}
  BY <1>1, <1>2 DEF QualifyingOf, ReleasedOf
<1> QED BY <1>4, <1>5

-------------------------------------------------------------------------------
(* The bandwidths that are ranked are the last of the bars that have one.  *)

\* The place of bar j among the bars W.
PlaceIn(W, j) == Cardinality(W \cap 1..j)

LEMMA PlacesAscend ==
    ASSUME NEW n \in Nat, NEW W, W \subseteq 1..n, NEW j \in W
    PROVE  /\ IsFiniteSet(W) /\ Cardinality(W) \in Nat
           /\ PlaceIn(W, j) \in 1..Cardinality(W)
           /\ \A k \in W : k < j => PlaceIn(W, k) < PlaceIn(W, j)
           /\ j = n => PlaceIn(W, j) = Cardinality(W)
<1>1. IsFiniteSet(W) /\ Cardinality(W) \in Nat
  <2>1. IsFiniteSet(1..n)
    <3>1. 1 \in Int /\ n \in Int
      OBVIOUS
    <3> QED BY <3>1, FS_Interval
  <2>2. W \in SUBSET (1..n)
    OBVIOUS
  <2>3. IsFiniteSet(W)
    BY <2>1, <2>2, FS_Subset
  <2> QED BY <2>3, FS_CardinalityType
<1>2. \A k : IsFiniteSet(W \cap 1..k) /\ Cardinality(W \cap 1..k) \in Nat
             /\ Cardinality(W \cap 1..k) <= Cardinality(W)
  <2>1. ASSUME NEW k
        PROVE  IsFiniteSet(W \cap 1..k) /\ Cardinality(W \cap 1..k) \in Nat
               /\ Cardinality(W \cap 1..k) <= Cardinality(W)
    <3> DEFINE T == W \cap 1..k
    <3>1. T \in SUBSET W
      OBVIOUS
    <3> HIDE DEF T
    <3>2. IsFiniteSet(T) /\ Cardinality(T) \in Nat /\ Cardinality(T) <= Cardinality(W)
      BY <1>1, <3>1, FS_Subset, FS_CardinalityType
    <3> QED BY <3>2 DEF T
  <2> QED BY <2>1
<1>3. j \in W \cap 1..j
  OBVIOUS
<1>4. Cardinality(W \cap 1..j) # 0
  BY <1>2, <1>3, FS_EmptySet
<1>5. ASSUME NEW k \in W, k < j PROVE PlaceIn(W, k) < PlaceIn(W, j)
  <2> DEFINE S == W \cap 1..j
             T == W \cap 1..k
  <2>1. T \in SUBSET S /\ j \in S /\ j \notin T
    BY <1>5
  <2>2. IsFiniteSet(S) /\ Cardinality(S) \in Nat /\ Cardinality(T) \in Nat
    BY <1>2
  <2> HIDE DEF S, T
  <2>3. Cardinality(T) <= Cardinality(S) /\ Cardinality(T) # Cardinality(S)
    BY <2>1, <2>2, FS_Subset
  <2> QED BY <2>2, <2>3 DEF PlaceIn, S, T
<1>6. j = n => W \cap 1..j = W
  OBVIOUS
<1> QED BY <1>1, <1>2, <1>4, <1>5, <1>6 DEF PlaceIn

\* Bars at the same place are the same.
LEMMA PlacesDiffer ==
    ASSUME NEW n \in Nat, NEW W, W \subseteq 1..n, NEW j \in W, NEW k \in W, PlaceIn(W, j) = PlaceIn(W, k)
    PROVE  j = k
<1>1. j < k => PlaceIn(W, j) < PlaceIn(W, k)
  BY PlacesAscend
<1>2. k < j => PlaceIn(W, k) < PlaceIn(W, j)
  BY PlacesAscend
<1>3. PlaceIn(W, j) \in Int /\ PlaceIn(W, k) \in Int
  <2>1. PlaceIn(W, j) \in 1..Cardinality(W)
    BY PlacesAscend
  <2>2. PlaceIn(W, k) \in 1..Cardinality(W)
    BY PlacesAscend
  <2> QED BY <2>1, <2>2
<1>4. j \in Int /\ k \in Int
  OBVIOUS
<1> QED BY <1>1, <1>2, <1>3, <1>4

\* As many bars of W lie between j and the last one as places do.
LEMMA PlacesBetween ==
    ASSUME NEW n \in Nat \ {0}, NEW W, W \subseteq 1..n, n \in W, NEW j \in W, j < n
    PROVE  Cardinality(W \cap j..(n - 1)) = Cardinality(W) - PlaceIn(W, j)
<1> DEFINE A == W \cap 1..j
           B == W \cap j..(n - 1)
           M == W \ {n}
<1>1. IsFiniteSet(W) /\ Cardinality(W) \in Nat
  BY PlacesAscend
<1>2. IsFiniteSet(M) /\ Cardinality(M) = Cardinality(W) - 1
  BY <1>1, FS_RemoveElement
<1>3. A \in SUBSET M /\ B \in SUBSET M /\ A \cup B = M /\ A \cap B = {j}
  <2>1. \A x \in W : x \in Int /\ 1 <= x /\ x <= n
    OBVIOUS
  <2>2. j \in Int /\ j <= n - 1 /\ j \in W
    BY <2>1
  <2>3. \A x \in W : x \in A <=> x <= j
    BY <2>1, <2>2
  <2>4. \A x \in W : x \in B <=> j <= x /\ x <= n - 1
    BY <2>1, <2>2
  <2>5. \A x \in W : x \in M <=> x <= n - 1
    BY <2>1
  <2>6. A \subseteq W /\ B \subseteq W /\ M \subseteq W
    OBVIOUS
  <2> HIDE DEF A, B, M
  <2>7. A \subseteq M /\ B \subseteq M
    BY <2>6, <2>1, <2>3, <2>4, <2>5, <2>2
  <2>8. M \subseteq A \cup B
    BY <2>6, <2>1, <2>3, <2>4, <2>5, <2>2
  <2>9. A \cap B \subseteq {j} /\ j \in A /\ j \in B
    BY <2>6, <2>1, <2>3, <2>4, <2>2
  <2> QED BY <2>7, <2>8, <2>9
<1> HIDE DEF A, B, M
<1>4. IsFiniteSet(A) /\ IsFiniteSet(B) /\ Cardinality(A) \in Nat /\ Cardinality(B) \in Nat
  BY <1>2, <1>3, FS_Subset, FS_CardinalityType
<1>5. Cardinality(M) = Cardinality(A) + Cardinality(B) - 1
  <2>1. Cardinality(A \cup B) = Cardinality(A) + Cardinality(B) - Cardinality(A \cap B)
    BY <1>4, FS_Union
  <2>2. Cardinality({j}) = 1
    BY FS_Singleton
  <2> QED BY <1>3, <2>1, <2>2
<1>6. Cardinality(B) = Cardinality(W) - Cardinality(A)
  BY <1>1, <1>2, <1>4, <1>5
<1> QED BY <1>6 DEF PlaceIn, A, B

\* The window w holds what f says of the last bars of W.
KeptAt(W, f, w, i) ==
    \E j \in W : PlaceIn(W, j) = Cardinality(W) - Len(w) + i /\ w[i] = f[j]
WidthsKept(W, f, w) ==
    /\ w \in Seq({f[j] : j \in W})
    /\ Len(w) = IF Cardinality(W) < ReferenceBars THEN Cardinality(W) ELSE ReferenceBars
    /\ \A i \in 1..Len(w) : KeptAt(W, f, w, i)

LEMMA WidthsStay ==
    ASSUME NEW W, NEW f, NEW g, \A j \in W : g[j] = f[j], NEW w, WidthsKept(W, f, w)
    PROVE  WidthsKept(W, g, w)
<1>1. {f[j] : j \in W} = {g[j] : j \in W}
  OBVIOUS
<1> QED BY <1>1 DEF WidthsKept, KeptAt

LEMMA WidthsGoOn ==
    ASSUME NEW n \in Nat \ {0}, NEW V, V \subseteq 1..(n - 1), NEW f, NEW g, \A j \in V : g[j] = f[j],
           NEW w, WidthsKept(V, f, w)
    PROVE  WidthsKept(V \cup {n}, g, Pushed(w, ReferenceBars, g[n]))
<1> DEFINE W == V \cup {n}
           T == {g[j] : j \in W}
           new == Pushed(w, ReferenceBars, g[n])
           x == g[n]
<1>1. ReferenceBars \in Nat \ {0}
  BY PeriodsAreNat
<1>2. IsFiniteSet(V) /\ Cardinality(V) \in Nat /\ Cardinality(W) = Cardinality(V) + 1 /\ n \notin V
  <2>1. IsFiniteSet(1..(n - 1)) /\ n \notin 1..(n - 1)
    BY FS_Interval
  <2>2. IsFiniteSet(V) /\ n \notin V
    BY <2>1, FS_Subset
  <2> QED BY <2>2, FS_AddElement, FS_CardinalityType
<1>3. W \subseteq 1..n /\ n \in W
  OBVIOUS
<1>4. w \in Seq(T) /\ x \in T
  <2> DEFINE S == {f[j] : j \in V}
  <2>1. S \subseteq T
    OBVIOUS
  <2>2. w \in Seq(S)
    BY DEF WidthsKept
  <2>3. x \in T
    OBVIOUS
  <2> HIDE DEF S, T, x
  <2> QED BY <2>1, <2>2, <2>3
<1>5. Len(w) = (IF Cardinality(V) < ReferenceBars THEN Cardinality(V) ELSE ReferenceBars) /\ Len(w) \in Nat
  BY <1>1, <1>2 DEF WidthsKept
<1> HIDE DEF T, x
<1>6. new \in Seq(T) /\ Pushes(w, ReferenceBars, x, new)
  BY <1>1, <1>2, <1>4, <1>5, WindowPushes DEF x
<1> HIDE DEF new
<1>7. Len(new) = (IF Cardinality(W) < ReferenceBars THEN Cardinality(W) ELSE ReferenceBars)
      /\ Len(new) \in Nat \ {0}
  BY <1>1, <1>2, <1>5, <1>6 DEF Pushes
<1>8. ASSUME NEW i \in 1..Len(new) PROVE KeptAt(W, g, new, i)
  <2>1. CASE i = Len(new)
    <3>1. PlaceIn(W, n) = Cardinality(W)
      BY <1>3, PlacesAscend
    <3>2. Cardinality(W) - Len(new) + i = Cardinality(W)
      BY <1>2, <1>7, <2>1
    <3>3. new[i] = g[n]
      BY <1>6, <2>1 DEF Pushes, x
    <3> HIDE DEF W
    <3> QED BY <1>3, <3>1, <3>2, <3>3 DEF KeptAt
  <2>2. CASE i # Len(new)
    <3> DEFINE k == i + (Len(w) + 1 - Len(new))
    <3>1. k \in 1..Len(w) /\ i \in 1..(Len(new) - 1)
      BY <1>1, <1>2, <1>5, <1>7, <2>2
    <3>2. new[i] = w[k]
      BY <1>6, <3>1 DEF Pushes
    <3>3. PICK j \in V : PlaceIn(V, j) = Cardinality(V) - Len(w) + k /\ w[k] = f[j]
      BY <3>1 DEF WidthsKept, KeptAt
    <3>4. W \cap 1..j = V \cap 1..j
      OBVIOUS
    <3>5. PlaceIn(W, j) = Cardinality(W) - Len(new) + i
      <4>1. PlaceIn(W, j) = PlaceIn(V, j)
        BY <3>4 DEF PlaceIn
      <4>2. PlaceIn(W, j) = Cardinality(V) - Len(w) + (i + (Len(w) + 1 - Len(new)))
        BY <3>3, <4>1
      <4>3. i \in Int /\ Len(w) \in Int /\ Len(new) \in Int /\ Cardinality(V) \in Int
        BY <1>2, <1>5, <1>7
      <4> DEFINE c == Cardinality(W)
      <4>4. c = Cardinality(V) + 1
        BY <1>2
      <4>5. PlaceIn(W, j) = c - Len(new) + i
        <5> HIDE DEF W, c
        <5> QED BY <4>2, <4>3, <4>4
      <4> QED BY <4>5
    <3>6. j \in W /\ g[j] = f[j]
      OBVIOUS
    <3> HIDE DEF W
    <3> QED BY <3>2, <3>3, <3>5, <3>6 DEF KeptAt
  <2> QED BY <2>1, <2>2
<1>9. WidthsKept(W, g, new)
  <2> HIDE DEF W
  <2> QED BY <1>6, <1>7, <1>8 DEF WidthsKept, T
<1> QED BY <1>9 DEF W, new, x

LowerIn(w) == Cardinality({i \in 1..(Len(w) - 1) : Narrower(w[i], w[Len(w)])})
LowerAmong(W, f, n) == Cardinality({j \in RankedIn(W, n) : Narrower(f[j], f[n])})

\* The bandwidths of the window that are narrower are those of the ranked bars.
LEMMA LowerIsCounted ==
    ASSUME NEW n \in Nat \ {0}, NEW W, W \subseteq 1..n, n \in W, NEW f, NEW w, WidthsKept(W, f, w),
           ReferenceBars <= Cardinality(W)
    PROVE  LowerIn(w) = LowerAmong(W, f, n)
<1> DEFINE A == {i \in 1..(Len(w) - 1) : Narrower(w[i], w[Len(w)])}
           B == {j \in RankedIn(W, n) : Narrower(f[j], f[n])}
           c == Cardinality(W)
           off == c - ReferenceBars
           h == [j \in B |-> PlaceIn(W, j) - off]
<1>1. c \in Nat /\ ReferenceBars \in Nat \ {0} /\ off \in Nat /\ Len(w) = ReferenceBars
  <2>1. c \in Nat
    BY PlacesAscend
  <2> QED BY <2>1, PeriodsAreNat DEF WidthsKept
<1>2. \A j \in W : PlaceIn(W, j) \in 1..c /\ j \in 1..n
  BY PlacesAscend
<1>3. PlaceIn(W, n) = c
  BY PlacesAscend
<1>4. \A i \in 1..Len(w) : \E j \in W : PlaceIn(W, j) = off + i /\ w[i] = f[j]
  BY <1>1 DEF WidthsKept, KeptAt
<1>5. \A j, k \in W : PlaceIn(W, j) = PlaceIn(W, k) => j = k
  BY PlacesDiffer
<1>6. w[Len(w)] = f[n]
  <2>1. PICK j \in W : PlaceIn(W, j) = off + Len(w) /\ w[Len(w)] = f[j]
    <3>1. Len(w) \in 1..Len(w)
      BY <1>1
    <3> HIDE DEF off
    <3> QED BY <1>4, <3>1
  <2>2. off + Len(w) = c
    BY <1>1
  <2> QED BY <1>3, <1>5, <2>1, <2>2
<1>7. \A j : j \in RankedIn(W, n) <=> j \in W /\ j # n /\ PlaceIn(W, j) > off
  <2>1. ASSUME NEW j \in W, j < n
        PROVE  Cardinality(W \cap j..(n - 1)) < ReferenceBars <=> PlaceIn(W, j) > off
    <3>1. Cardinality(W \cap j..(n - 1)) = c - PlaceIn(W, j)
      BY <2>1, PlacesBetween
    <3>2. PlaceIn(W, j) \in Int
      BY <1>2
    <3> HIDE DEF c
    <3> QED BY <1>1, <3>1, <3>2
  <2>2. \A j \in W : j < n <=> j # n
    BY <1>2
  <2> QED BY <2>1, <2>2 DEF RankedIn
<1>8. IsFiniteSet(B)
  <2>1. B \in SUBSET W
    BY <1>7
  <2> HIDE DEF B
  <2> QED BY <2>1, PlacesAscend, FS_Subset
<1> HIDE DEF c, off
<1>9. ASSUME NEW j \in B
      PROVE  j \in W /\ h[j] = PlaceIn(W, j) - off /\ h[j] \in A
  <2>1. j \in W /\ j # n /\ PlaceIn(W, j) > off /\ Narrower(f[j], f[n])
    BY <1>7
  <2>2. h[j] = PlaceIn(W, j) - off
    OBVIOUS
  <2>3. PlaceIn(W, j) # c
    BY <1>3, <1>5, <2>1
  <2>4. PlaceIn(W, j) \in 1..c
    BY <1>2, <2>1
  <2> HIDE DEF h
  <2>5. h[j] \in 1..(Len(w) - 1) /\ h[j] \in 1..Len(w) /\ off + h[j] = PlaceIn(W, j)
    BY <1>1, <2>1, <2>2, <2>3, <2>4 DEF off
  <2>6. PICK k \in W : PlaceIn(W, k) = off + h[j] /\ w[h[j]] = f[k]
    BY <1>4, <2>5
  <2>7. k = j
    BY <1>5, <2>1, <2>5, <2>6
  <2> QED BY <1>6, <2>1, <2>2, <2>5, <2>6, <2>7
<1>10. ASSUME NEW i \in A PROVE \E j \in B : h[j] = i
  <2>1. i \in 1..(Len(w) - 1) /\ i \in 1..Len(w) /\ Narrower(w[i], w[Len(w)])
    BY <1>1
  <2>2. PICK j \in W : PlaceIn(W, j) = off + i /\ w[i] = f[j]
    BY <1>4, <2>1
  <2>3. PlaceIn(W, j) > off /\ PlaceIn(W, j) # c /\ PlaceIn(W, j) - off = i
    BY <1>1, <2>1, <2>2 DEF off
  <2>4. j # n
    BY <1>3, <2>3
  <2>5. j \in RankedIn(W, n)
    BY <1>7, <2>3, <2>4
  <2>6. j \in B
    BY <1>6, <2>1, <2>2, <2>5
  <2>7. h[j] = PlaceIn(W, j) - off
    BY <2>6
  <2> QED BY <2>3, <2>6, <2>7
<1>11. \A j, k \in B : h[j] = h[k] => j = k
  <2> SUFFICES ASSUME NEW j \in B, NEW k \in B, h[j] = h[k] PROVE j = k
    OBVIOUS
  <2>1. h[j] = PlaceIn(W, j) - off /\ h[k] = PlaceIn(W, k) - off /\ j \in W /\ k \in W
    BY <1>9
  <2>2. PlaceIn(W, j) \in Int /\ PlaceIn(W, k) \in Int
    BY <1>2, <2>1
  <2>3. PlaceIn(W, j) - off = PlaceIn(W, k) - off
    <3> HIDE DEF h, B
    <3> QED BY <2>1
  <2>4. PlaceIn(W, j) = PlaceIn(W, k)
    <3> HIDE DEF h, B
    <3> QED BY <1>1, <2>2, <2>3
  <2> QED BY <1>5, <2>1, <2>4
<1>12. h = [j \in B |-> h[j]]
  OBVIOUS
<1> HIDE DEF h, A, B
<1>13. h \in [B -> A]
  BY <1>9, <1>12
<1>14. h \in Bijection(B, A)
  BY <1>10, <1>11, <1>13 DEF Bijection, Injection, Surjection, IsInjective
<1>15. Cardinality(A) = Cardinality(B)
  BY <1>8, <1>14, FS_Bijection DEF ExistsBijection
<1> QED BY <1>15 DEF A, B, LowerIn, LowerAmong

-------------------------------------------------------------------------------
(* The envelope of a window.                                               *)

LEMMA HighestExists ==
    ASSUME NEW k \in Nat \ {0}, NEW g, \A i \in 1..k : g[i] \in Int
    PROVE  \E m \in 1..k : \A i \in 1..k : g[i] <= g[m]
<1> DEFINE Tops(j) == \E m \in 1..j : \A i \in 1..j : g[i] <= g[m]
           Failing == {j \in Nat : j \in 1..k /\ ~Tops(j)}
<1>1. Failing = {}
  <2> SUFFICES ASSUME Failing # {} PROVE FALSE
    OBVIOUS
  <2>1. PICK j \in Failing : \A i \in Failing : j <= i
    <3>1. Failing \subseteq Nat
      OBVIOUS
    <3> HIDE DEF Failing
    <3> QED BY <3>1, LeastExists
  <2>2. j \in 1..k /\ ~Tops(j)
    OBVIOUS
  <2>3. j # 1
    <3>1. \A i \in 1..1 : i = 1
      OBVIOUS
    <3>2. g[1] <= g[1] /\ 1 \in 1..1
      OBVIOUS
    <3>3. Tops(1)
      BY <3>1, <3>2
    <3> QED BY <2>2, <3>3
  <2>4. j - 1 \in Nat /\ j - 1 \in 1..k /\ j - 1 \notin Failing
    <3> HIDE DEF Failing
    <3> QED BY <2>1, <2>2, <2>3
  <2>5. Tops(j - 1)
    BY <2>4
  <2>6. PICK m \in 1..(j - 1) : \A i \in 1..(j - 1) : g[i] <= g[m]
    BY <2>5
  <2>7. \A i \in 1..j : i = j \/ i \in 1..(j - 1)
    BY <2>2
  <2>8. m \in 1..j /\ j \in 1..j /\ g[m] \in Int /\ g[j] \in Int /\ \A i \in 1..j : g[i] \in Int
    BY <2>2
  <2>9. CASE g[j] <= g[m]
    <3>1. \A i \in 1..j : g[i] <= g[m]
      BY <2>6, <2>7, <2>9
    <3> QED BY <2>2, <2>8, <3>1
  <2>10. CASE ~(g[j] <= g[m])
    <3>1. \A i \in 1..j : g[i] <= g[j]
      BY <2>6, <2>7, <2>8, <2>10
    <3> QED BY <2>2, <2>8, <3>1
  <2> QED BY <2>9, <2>10
<1>2. k \in 1..k /\ k \notin Failing
  BY <1>1
<1>3. Tops(k)
  BY <1>2
<1> QED BY <1>3

LEMMA LowestExists ==
    ASSUME NEW k \in Nat \ {0}, NEW g, \A i \in 1..k : g[i] \in Int
    PROVE  \E m \in 1..k : \A i \in 1..k : g[m] <= g[i]
<1> DEFINE h == [i \in 1..k |-> -g[i]]
<1>1. \A i \in 1..k : h[i] \in Int /\ h[i] = -g[i]
  OBVIOUS
<1> HIDE DEF h
<1>2. PICK m \in 1..k : \A i \in 1..k : h[i] <= h[m]
  BY <1>1, HighestExists
<1>3. \A i \in 1..k : g[m] <= g[i]
  BY <1>1, <1>2
<1> QED BY <1>3

ChopRecord == [range : Int, high : Int, low : Int]

HighsOf(w) == {w[i].high : i \in DOMAIN w}
LowsOf(w) == {w[i].low : i \in DOMAIN w}

\* The highest is not below the lowest.
LEMMA EnvelopeIs ==
    ASSUME NEW k \in Nat \ {0}, NEW w, DOMAIN w = 1..k,
           \A i \in 1..k : w[i] \in ChopRecord /\ w[i].low <= w[i].high
    PROVE  /\ Max(HighsOf(w)) \in Int /\ Min(LowsOf(w)) \in Int
           /\ Min(LowsOf(w)) <= Max(HighsOf(w))
<1> DEFINE H == HighsOf(w)
           L == LowsOf(w)
           g == [i \in 1..k |-> w[i].high]
           h == [i \in 1..k |-> w[i].low]
<1>1. \A i \in 1..k : g[i] \in Int /\ h[i] \in Int /\ h[i] <= g[i]
  BY DEF ChopRecord
<1>2. H = {g[i] : i \in 1..k} /\ L = {h[i] : i \in 1..k}
  BY DEF HighsOf, LowsOf
<1> HIDE DEF g, h, H, L
<1>3. PICK m \in 1..k : \A i \in 1..k : g[i] <= g[m]
  BY <1>1, HighestExists
<1>4. PICK l \in 1..k : \A i \in 1..k : h[l] <= h[i]
  BY <1>1, LowestExists
<1>5. \E x \in H : \A y \in H : x >= y
  <2>1. g[m] \in H /\ \A y \in H : g[m] >= y
    BY <1>1, <1>2, <1>3
  <2> QED BY <2>1
<1>6. \E x \in L : \A y \in L : x <= y
  <2>1. h[l] \in L /\ \A y \in L : h[l] <= y
    BY <1>1, <1>2, <1>4
  <2> QED BY <2>1
<1>7. Max(H) \in H /\ \A y \in H : Max(H) >= y
  BY <1>5 DEF Max
<1>8. Min(L) \in L /\ \A y \in L : Min(L) <= y
  BY <1>6 DEF Min
<1>9. Max(H) \in Int /\ Min(L) \in Int
  BY <1>1, <1>2, <1>7, <1>8
<1>10. g[1] \in H /\ h[1] \in L /\ h[1] \in Int /\ g[1] \in Int /\ h[1] <= g[1]
  BY <1>1, <1>2
<1>11. Min(L) <= h[1] /\ g[1] <= Max(H)
  BY <1>7, <1>8, <1>10, <1>9
<1> QED BY <1>9, <1>10, <1>11 DEF H, L

\* A full window is available when it moved.
LEMMA ChopStatusIs ==
    ASSUME NEW w, DOMAIN w = 1..ChopPeriod, Len(w) = ChopPeriod,
           \A i \in 1..ChopPeriod : w[i] \in ChopRecord /\ w[i].low <= w[i].high
    PROVE  /\ ChopScore(w).envelope \in Nat
           /\ ChopStatus(w) = IF ChopScore(w).envelope > 0 THEN "AVAILABLE" ELSE "DEGENERATE"
<1>1. ChopPeriod \in Nat \ {0}
  BY PeriodsAreNat
<1>2. /\ Max(HighsOf(w)) \in Int /\ Min(LowsOf(w)) \in Int
      /\ Min(LowsOf(w)) <= Max(HighsOf(w))
  BY <1>1, EnvelopeIs
<1>3. ChopScore(w).envelope = Max(HighsOf(w)) - Min(LowsOf(w))
  BY DEF ChopScore, HighsOf, LowsOf
<1>4. /\ {b.high : b \in {w[i] : i \in DOMAIN w}} = HighsOf(w)
      /\ {b.low : b \in {w[i] : i \in DOMAIN w}} = LowsOf(w)
  BY DEF HighsOf, LowsOf
<1>5. ChopStatus(w) = IF Max(HighsOf(w)) = Min(LowsOf(w)) THEN "DEGENERATE" ELSE "AVAILABLE"
  <2> DEFINE high == Max({b.high : b \in {w[i] : i \in DOMAIN w}})
             low == Min({b.low : b \in {w[i] : i \in DOMAIN w}})
  <2>1. ChopStatus(w) = IF Len(w) < ChopPeriod THEN "WARMING_UP"
                        ELSE IF high = low THEN "DEGENERATE" ELSE "AVAILABLE"
    BY DEF ChopStatus
  <2>2. high = Max(HighsOf(w)) /\ low = Min(LowsOf(w))
    BY <1>4
  <2> HIDE DEF high, low
  <2>3. ~(Len(w) < ChopPeriod)
    BY <1>1
  <2> QED BY <2>1, <2>2, <2>3
<1> QED BY <1>2, <1>3, <1>5

-------------------------------------------------------------------------------
(* The range state keeps the windows of the bars it has seen.              *)

RecordsOf(b, n) == [x \in 1..n |-> RecordOf(b, x)]
ClosesTo(b, n) == [x \in 1..n |-> b[x].close]

RangeKeeps(b, n, r) ==
    /\ r.chop \in Seq(ChopRecord) /\ LastAre(r.chop, ChopPeriod, RecordsOf(b, n), n)
    /\ r.closes \in Seq(Int) /\ LastAre(r.closes, BandwidthPeriod, ClosesTo(b, n), n)
    /\ WidthsKept(WideOf(b, n), WidthsOf(b, n), r.widths)

\* What it says of the last one.
RangeTells(b, n, r) ==
    /\ r.status = "AVAILABLE" <=> n \in ScoredOf(b, n)
    /\ n \in ScoredOf(b, n) => r.score = ChopScore(ChopOf(b, n)) /\ r.lower = LowerOf(b, n, n)

Barred(b, n) == DOMAIN b = 1..n /\ \A x \in 1..n : b[x] \in Bar

LEMMA RecordTyped ==
    ASSUME NEW n \in Nat, NEW b, Barred(b, n), NEW x \in 1..n
    PROVE  RecordOf(b, x) \in ChopRecord /\ RecordOf(b, x).low <= RecordOf(b, x).high
<1> DEFINE prior == {b[y].close : y \in {x - 1} \cap DOMAIN b}
<1>1. prior \in Optional(Int)
  <2>1. CASE x - 1 \in DOMAIN b
    <3>1. {x - 1} \cap DOMAIN b = {x - 1} /\ b[x - 1].close \in Int
      BY <2>1 DEF Barred, Bar
    <3>2. prior = {b[x - 1].close}
      BY <3>1
    <3> QED BY <3>1, <3>2 DEF Optional
  <2>2. CASE x - 1 \notin DOMAIN b
    BY <2>2 DEF Optional
  <2> QED BY <2>1, <2>2
<1>2. b[x] \in Bar
  BY DEF Barred
<1>3. TrueRange(prior, b[x]) \in Nat
  BY <1>1, <1>2, TrueRangeIsNat
<1>4. RecordOf(b, x) = [range |-> TrueRange(prior, b[x]), high |-> b[x].high, low |-> b[x].low]
  BY DEF RecordOf
<1> HIDE DEF prior
<1> QED BY <1>2, <1>3, <1>4 DEF ChopRecord, Bar

LEMMA FullWindow ==
    ASSUME NEW n \in Nat, NEW T, NEW w \in Seq(T), NEW size \in Nat \ {0}, NEW f, LastAre(w, size, f, n),
           ~(n < size)
    PROVE  /\ Len(w) = size /\ DOMAIN w = 1..size
           /\ w = [i \in 1..size |-> f[n - size + i]]
<1>1. Len(w) = size /\ DOMAIN w = 1..size
  BY DEF LastAre
<1>2. \A i \in 1..size : w[i] = f[n - size + i]
  BY <1>1 DEF LastAre
<1>3. w = [i \in 1..size |-> w[i]]
  BY <1>1
<1> QED BY <1>1, <1>2, <1>3

\* The window of the ranges, once full, is the definition's.
LEMMA ChopWindow ==
    ASSUME NEW n \in Nat, NEW b, Barred(b, n), NEW w \in Seq(ChopRecord),
           LastAre(w, ChopPeriod, RecordsOf(b, n), n)
    PROVE  /\ n < ChopPeriod => ChopStatus(w) = "WARMING_UP"
           /\ ~(n < ChopPeriod) =>
                /\ w = ChopOf(b, n)
                /\ ChopStatus(w) = IF ChopScore(w).envelope > 0 THEN "AVAILABLE" ELSE "DEGENERATE"
<1>1. CASE n < ChopPeriod
  BY <1>1 DEF LastAre, ChopStatus
<1>2. CASE ~(n < ChopPeriod)
  <2>1. ChopPeriod \in Nat \ {0}
    BY PeriodsAreNat
  <2>2. /\ Len(w) = ChopPeriod /\ DOMAIN w = 1..ChopPeriod
        /\ w = [i \in 1..ChopPeriod |-> RecordsOf(b, n)[n - ChopPeriod + i]]
    BY <1>2, <2>1, FullWindow
  <2>3. ASSUME NEW i \in 1..ChopPeriod
        PROVE  /\ w[i] = RecordOf(b, n - ChopPeriod + i)
               /\ w[i] \in ChopRecord /\ w[i].low <= w[i].high
    <3>1. n - ChopPeriod + i \in 1..n
      BY <1>2, <2>1
    <3>2. RecordsOf(b, n)[n - ChopPeriod + i] = RecordOf(b, n - ChopPeriod + i)
      BY <3>1 DEF RecordsOf
    <3>3. w[i] = RecordOf(b, n - ChopPeriod + i)
      BY <2>2, <3>2
    <3> QED BY <3>1, <3>3, RecordTyped
  <2>4. w = ChopOf(b, n)
    BY <2>2, <2>3 DEF ChopOf
  <2>5. ChopStatus(w) = IF ChopScore(w).envelope > 0 THEN "AVAILABLE" ELSE "DEGENERATE"
    BY <2>2, <2>3, ChopStatusIs
  <2> QED BY <1>2, <2>4, <2>5
<1> QED BY <1>1, <1>2

\* A bar has a bandwidth when its closes, once there are enough, do not sum to
\* zero.
LEMMA CloseWindow ==
    ASSUME NEW n \in Nat, NEW b, NEW w \in Seq(Int), LastAre(w, BandwidthPeriod, ClosesTo(b, n), n)
    PROVE  /\ n < BandwidthPeriod => BandwidthStatus(w) = "WARMING_UP" /\ n \notin WideOf(b, n)
           /\ ~(n < BandwidthPeriod) =>
                /\ w = ClosesOf(b, n)
                /\ BandwidthStatus(w) = IF n \in WideOf(b, n) THEN "AVAILABLE" ELSE "DEGENERATE"
<1>0. BandwidthPeriod \in Nat \ {0}
  BY PeriodsAreNat
<1>1. CASE n < BandwidthPeriod
  <2>1. n \notin BandwidthPeriod..n
    BY <1>0, <1>1
  <2> QED BY <1>1, <2>1 DEF LastAre, BandwidthStatus, WideOf
<1>2. CASE ~(n < BandwidthPeriod)
  <2>1. /\ Len(w) = BandwidthPeriod
        /\ w = [i \in 1..BandwidthPeriod |-> ClosesTo(b, n)[n - BandwidthPeriod + i]]
    BY <1>0, <1>2, FullWindow
  <2>2. \A i \in 1..BandwidthPeriod : n - BandwidthPeriod + i \in 1..n
    BY <1>0, <1>2
  <2>3. w = ClosesOf(b, n)
    BY <2>1, <2>2 DEF ClosesOf, ClosesTo
  <2>4. n \in BandwidthPeriod..n
    BY <1>0, <1>2
  <2>5. n \in WideOf(b, n) <=> SumOf(w) # 0
    BY <2>3, <2>4 DEF WideOf
  <2>6. BandwidthStatus(w) = IF SumOf(w) = 0 THEN "DEGENERATE" ELSE "AVAILABLE"
    BY <1>0, <2>1 DEF BandwidthStatus
  <2> QED BY <1>2, <2>3, <2>5, <2>6
<1> QED BY <1>1, <1>2

LEMMA AvailableWhen ==
    ASSUME NEW S, S \subseteq {"WARMING_UP", "DEGENERATE", "AVAILABLE"}
    PROVE  Availability(S) = "AVAILABLE" <=> S \subseteq {"AVAILABLE"}
BY DEF Availability

CompressionStatus(new) ==
    IF BandwidthStatus(new.closes) = "AVAILABLE" /\ Len(new.widths) < ReferenceBars
    THEN "WARMING_UP" ELSE BandwidthStatus(new.closes)

\* What a bar makes of the range state.
RangeMakes(r, new, bar, range) ==
    /\ new.chop = Pushed(r.chop, ChopPeriod, [range |-> range, high |-> bar.high, low |-> bar.low])
    /\ new.closes = Pushed(r.closes, BandwidthPeriod, bar.close)
    /\ new.widths = IF BandwidthStatus(new.closes) = "AVAILABLE"
                    THEN Pushed(r.widths, ReferenceBars, Bandwidth(new.closes)) ELSE r.widths
    /\ new.status = Availability({ChopStatus(new.chop), BandwidthStatus(new.closes), CompressionStatus(new)})
    /\ new.score = ChopScore(new.chop)
    /\ new.lower = Cardinality({i \in 1 .. Len(new.widths) - 1 :
                                  Narrower(new.widths[i], new.widths[Len(new.widths)])})

LEMMA RangeMade ==
    ASSUME NEW r, NEW bar, NEW range
    PROVE  RangeMakes(r, RangeUpdate(r, bar, range), bar, range)
<1> DEFINE chop == Pushed(r.chop, ChopPeriod, [range |-> range, high |-> bar.high, low |-> bar.low])
           closes == Pushed(r.closes, BandwidthPeriod, bar.close)
           bandwidth == BandwidthStatus(closes)
           widths == IF bandwidth = "AVAILABLE" THEN Pushed(r.widths, ReferenceBars, Bandwidth(closes))
                     ELSE r.widths
           compression == IF bandwidth = "AVAILABLE" /\ Len(widths) < ReferenceBars
                          THEN "WARMING_UP" ELSE bandwidth
           status == Availability({ChopStatus(chop), bandwidth, compression})
           lower == Cardinality({i \in 1 .. Len(widths) - 1 : Narrower(widths[i], widths[Len(widths)])})
           new == RangeUpdate(r, bar, range)
<1>1. new = [chop |-> chop, closes |-> closes, widths |-> widths, status |-> status,
             score |-> ChopScore(chop), lower |-> lower]
  BY DEF RangeUpdate
<1> HIDE DEF chop, closes, widths, status, lower, new
<1>2. /\ new.chop = chop /\ new.closes = closes /\ new.widths = widths /\ new.status = status
      /\ new.score = ChopScore(chop) /\ new.lower = lower
  BY <1>1
<1>3. CompressionStatus(new) = compression
  BY <1>2 DEF CompressionStatus
<1>4. RangeMakes(r, new, bar, range)
  BY <1>2, <1>3 DEF RangeMakes, chop, closes, widths, status, lower
<1> QED BY <1>4 DEF new

LEMMA RangeGoesOn ==
    ASSUME NEW n \in Nat \ {0}, NEW b, NEW c, Extending1(b, c, n), Barred(c, n),
           NEW r, RangeKeeps(b, n - 1, r), NEW new, RangeMakes(r, new, c[n], RecordOf(c, n).range)
    PROVE  RangeKeeps(c, n, new) /\ RangeTells(c, n, new)
<1> DEFINE W == WideOf(c, n)
           V == WideOf(b, n - 1)
           f == WidthsOf(c, n)
<1>1. n \in 1..n /\ n - 1 \in Nat
  OBVIOUS
<1>2. new.chop \in Seq(ChopRecord) /\ LastAre(new.chop, ChopPeriod, RecordsOf(c, n), n)
  <2>1. RecordsOf(c, n)[n] = RecordOf(c, n) /\ RecordOf(c, n) \in ChopRecord
    BY <1>1, RecordTyped DEF RecordsOf
  <2>2. RecordOf(c, n) = [range |-> RecordOf(c, n).range, high |-> c[n].high, low |-> c[n].low]
    BY DEF RecordOf
  <2>3. \A x \in 1..(n - 1) : RecordsOf(c, n)[x] = RecordsOf(b, n - 1)[x]
    BY RecordsByBars DEF RecordsOf
  <2>4. ChopPeriod \in Nat \ {0}
    BY PeriodsAreNat
  <2>5. new.chop = Pushed(r.chop, ChopPeriod, RecordsOf(c, n)[n])
    BY <2>1, <2>2 DEF RangeMakes
  <2> QED BY <2>1, <2>3, <2>4, <2>5, LastGoOn DEF RangeKeeps
<1>3. new.closes \in Seq(Int) /\ LastAre(new.closes, BandwidthPeriod, ClosesTo(c, n), n)
  <2>1. ClosesTo(c, n)[n] = c[n].close /\ c[n].close \in Int
    BY <1>1 DEF ClosesTo, Barred, Bar
  <2>2. \A x \in 1..(n - 1) : ClosesTo(c, n)[x] = ClosesTo(b, n - 1)[x]
    BY DEF ClosesTo, Extending1
  <2>3. BandwidthPeriod \in Nat \ {0}
    BY PeriodsAreNat
  <2>4. new.closes = Pushed(r.closes, BandwidthPeriod, ClosesTo(c, n)[n])
    BY <2>1 DEF RangeMakes
  <2> QED BY <2>1, <2>2, <2>3, <2>4, LastGoOn DEF RangeKeeps
<1>4. /\ W = V \cup (W \cap {n}) /\ V \subseteq 1..(n - 1)
      /\ \A j \in V : f[j] = WidthsOf(b, n - 1)[j]
  BY WidthsByBars
<1>5. WidthsKept(V, WidthsOf(b, n - 1), r.widths)
  BY DEF RangeKeeps
<1>6. /\ n < BandwidthPeriod => BandwidthStatus(new.closes) = "WARMING_UP" /\ n \notin W
      /\ ~(n < BandwidthPeriod) =>
           /\ new.closes = ClosesOf(c, n)
           /\ BandwidthStatus(new.closes) = IF n \in W THEN "AVAILABLE" ELSE "DEGENERATE"
  BY <1>3, CloseWindow
<1>7. n \in W => Bandwidth(new.closes) = f[n]
  BY <1>6 DEF WidthsOf
<1>8. n \in W <=> BandwidthStatus(new.closes) = "AVAILABLE"
  BY <1>6
<1> HIDE DEF W, V, f
<1>9. WidthsKept(W, f, new.widths)
  <2>1. CASE n \in W
    <3>1. W = V \cup {n}
      BY <1>4, <2>1
    <3>2. new.widths = Pushed(r.widths, ReferenceBars, f[n])
      BY <1>7, <1>8, <2>1 DEF RangeMakes
    <3>3. WidthsKept(V \cup {n}, f, Pushed(r.widths, ReferenceBars, f[n]))
      BY <1>4, <1>5, WidthsGoOn
    <3> QED BY <3>1, <3>2, <3>3
  <2>2. CASE n \notin W
    <3>1. W = V
      BY <1>4, <2>2
    <3>2. new.widths = r.widths
      BY <1>8, <2>2 DEF RangeMakes
    <3>3. WidthsKept(V, f, r.widths)
      BY <1>4, <1>5, WidthsStay
    <3> QED BY <3>1, <3>2, <3>3
  <2> QED BY <2>1, <2>2
<1>10. W \subseteq 1..n
  <2>1. V \subseteq 1..n
    BY <1>4
  <2> QED BY <1>1, <1>4, <2>1
<1>11. RangeKeeps(c, n, new)
  BY <1>2, <1>3, <1>9 DEF RangeKeeps, W, f
<1>12. /\ n < ChopPeriod => ChopStatus(new.chop) = "WARMING_UP"
       /\ ~(n < ChopPeriod) =>
            /\ new.chop = ChopOf(c, n)
            /\ ChopStatus(new.chop) = IF ChopScore(new.chop).envelope > 0 THEN "AVAILABLE" ELSE "DEGENERATE"
  BY <1>2, ChopWindow
<1>13. /\ Cardinality(W \cap 1..n) = Cardinality(W) /\ Cardinality(W) \in Nat
       /\ n \in W => (Len(new.widths) < ReferenceBars <=> ~(Cardinality(W) >= ReferenceBars))
  <2>1. W \cap 1..n = W
    BY <1>10
  <2>2. Cardinality(W) \in Nat
    <3>1. IsFiniteSet(1..n)
      <4>1. 1 \in Int /\ n \in Int
        OBVIOUS
      <4> QED BY <4>1, FS_Interval
    <3> QED BY <1>10, <3>1, FS_Subset, FS_CardinalityType
  <2>3. Len(new.widths) = IF Cardinality(W) < ReferenceBars THEN Cardinality(W) ELSE ReferenceBars
    BY <1>9 DEF WidthsKept
  <2>4. Len(new.widths) < ReferenceBars <=> ~(Cardinality(W) >= ReferenceBars)
    BY <2>2, <2>3, PeriodsAreNat
  <2> QED BY <2>1, <2>2, <2>4
<1>14. n \in ScoredOf(c, n) <=>
         /\ n \in W /\ ~(n < ChopPeriod) /\ ChopScore(ChopOf(c, n)).envelope > 0
         /\ Cardinality(W) >= ReferenceBars
  <2>1. ChopPeriod \in Nat
    BY PeriodsAreNat
  <2> QED BY <1>13, <2>1 DEF ScoredOf, W
<1>15. new.status = "AVAILABLE" <=>
         /\ ChopStatus(new.chop) = "AVAILABLE" /\ BandwidthStatus(new.closes) = "AVAILABLE"
         /\ CompressionStatus(new) = "AVAILABLE"
  <2> DEFINE S == {ChopStatus(new.chop), BandwidthStatus(new.closes), CompressionStatus(new)}
  <2>1. S \subseteq {"WARMING_UP", "DEGENERATE", "AVAILABLE"}
    BY DEF ChopStatus, BandwidthStatus, CompressionStatus
  <2>2. new.status = Availability(S)
    BY DEF RangeMakes
  <2>3. S \subseteq {"AVAILABLE"} <=>
         /\ ChopStatus(new.chop) = "AVAILABLE" /\ BandwidthStatus(new.closes) = "AVAILABLE"
         /\ CompressionStatus(new) = "AVAILABLE"
    OBVIOUS
  <2> HIDE DEF S
  <2> QED BY <2>1, <2>2, <2>3, AvailableWhen
<1>16. CompressionStatus(new) = "AVAILABLE" <=> n \in W /\ Cardinality(W) >= ReferenceBars
  BY <1>8, <1>13 DEF CompressionStatus
<1>17. ChopStatus(new.chop) = "AVAILABLE" <=> ~(n < ChopPeriod) /\ ChopScore(ChopOf(c, n)).envelope > 0
  BY <1>12
<1>18. new.status = "AVAILABLE" <=> n \in ScoredOf(c, n)
  BY <1>8, <1>14, <1>15, <1>16, <1>17
<1>19. ASSUME n \in ScoredOf(c, n)
       PROVE  new.score = ChopScore(ChopOf(c, n)) /\ new.lower = LowerOf(c, n, n)
  <2>1. new.score = ChopScore(ChopOf(c, n))
    BY <1>12, <1>14, <1>19 DEF RangeMakes
  <2>2. new.lower = Cardinality({j \in RankedIn(W, n) : Narrower(f[j], f[n])})
    <3>1. n \in W /\ ReferenceBars <= Cardinality(W)
      BY <1>13, <1>14, <1>19, PeriodsAreNat
    <3>2. LowerIn(new.widths) = LowerAmong(W, f, n)
      BY <1>9, <1>10, <3>1, LowerIsCounted
    <3> QED BY <3>2 DEF RangeMakes, LowerIn, LowerAmong
  <2> QED BY <2>1, <2>2 DEF LowerOf, W, f
<1>20. RangeTells(c, n, new)
  BY <1>18, <1>19 DEF RangeTells
<1> QED BY <1>11, <1>20

-------------------------------------------------------------------------------
(* A bar that releases a compression does not qualify for one.             *)

LEMMA ScaledOrder ==
    ASSUME NEW a \in Int, NEW b \in Int, NEW k \in Nat \ {0}, a < b PROVE a * k < b * k
OBVIOUS

LEMMA ScaledWeakly ==
    ASSUME NEW a \in Int, NEW b \in Int, NEW k \in Nat, a < b PROVE a * k <= b * k
OBVIOUS

LEMMA AxesExclude ==
    ASSUME ThresholdsDescend, NEW r, r.score.sum \in Int, r.score.envelope \in Nat, r.lower \in Nat
    PROVE  /\ CompressionBelow(r, CompressionRelease) => CompressionBelow(r, CompressionEntry)
           /\ ChopBelow(r, ChopRelease) => ~ChopAbove(r, ChopEntry)
<1> DEFINE ranked == ReferenceBars - 1
           x == 100 * (ReferenceBars - 1 - r.lower)
           s == r.score.sum
           e == r.score.envelope
           e1 == ChopEntry[1]
           e2 == ChopEntry[2]
           r1 == ChopRelease[1]
           r2 == ChopRelease[2]
<1>1. /\ ranked \in Nat \ {0} /\ x \in Int /\ CompressionEntry \in Int /\ CompressionRelease \in Int
      /\ CompressionRelease < CompressionEntry
  BY PeriodsAreNat, CompressionAssumption DEF ThresholdsDescend
<1>2. /\ e1 \in Nat /\ e2 \in Nat \ {0} /\ r1 \in Nat /\ r2 \in Nat \ {0} /\ s \in Int /\ e \in Nat
      /\ r1 * e2 < e1 * r2
  BY CompressionAssumption DEF ThresholdsDescend
<1>3. CompressionBelow(r, CompressionRelease) => CompressionBelow(r, CompressionEntry)
  <2>1. /\ CompressionBelow(r, CompressionRelease) <=> x < CompressionRelease * ranked
        /\ CompressionBelow(r, CompressionEntry) <=> x < CompressionEntry * ranked
    BY DEF CompressionBelow
  <2> HIDE DEF x, ranked
  <2>2. CompressionRelease * ranked < CompressionEntry * ranked
    BY <1>1, ScaledOrder
  <2>3. CompressionRelease * ranked \in Int /\ CompressionEntry * ranked \in Int
    BY <1>1
  <2> QED BY <1>1, <2>1, <2>2, <2>3
<1>4. ChopBelow(r, ChopRelease) => ~ChopAbove(r, ChopEntry)
  <2>1. /\ ChopBelow(r, ChopRelease) <=> s * r2 < r1 * e
        /\ ChopAbove(r, ChopEntry) <=> s * e2 > e1 * e
    BY DEF ChopBelow, ChopAbove
  <2> HIDE DEF s, e, e1, e2, r1, r2
  <2> SUFFICES ASSUME s * r2 < r1 * e, e1 * e < s * e2 PROVE FALSE
    <3>1. s * e2 \in Int /\ e1 * e \in Int
      BY <1>2
    <3> QED BY <2>1, <3>1
  <2>2. (s * r2) * e2 < (r1 * e) * e2
    <3>1. s * r2 \in Int /\ r1 * e \in Int
      BY <1>2
    <3> QED BY <1>2, <3>1, ScaledOrder
  <2>3. (e1 * e) * r2 < (s * e2) * r2
    <3>1. s * e2 \in Int /\ e1 * e \in Int
      BY <1>2
    <3> QED BY <1>2, <3>1, ScaledOrder
  <2>4. (r1 * e2) * e <= (e1 * r2) * e
    <3>1. r1 * e2 \in Int /\ e1 * r2 \in Int
      BY <1>2
    <3> QED BY <1>2, <3>1, ScaledWeakly
  <2>5. /\ (s * r2) * e2 = (s * e2) * r2 /\ (r1 * e) * e2 = (r1 * e2) * e
        /\ (e1 * e) * r2 = (e1 * r2) * e
    BY <1>2
  <2>6. /\ (s * r2) * e2 \in Int /\ (r1 * e) * e2 \in Int /\ (e1 * e) * r2 \in Int
    BY <1>2
  <2> QED BY <2>2, <2>3, <2>4, <2>5, <2>6
<1> QED BY <1>3, <1>4

LEMMA ReleaseExcludes ==
    ASSUME ThresholdsDescend, NEW r, r.score.sum \in Int, r.score.envelope \in Nat, r.lower \in Nat,
           Qualifies(r)
    PROVE  Releases(r) = {}
BY AxesExclude DEF Qualifies, Releases

\* A scored bar has numbers for its scores.
LEMMA ScoredNumbers ==
    ASSUME NEW n \in Nat \ {0}, NEW b, Barred(b, n), n \in ScoredOf(b, n)
    PROVE  /\ ChopScore(ChopOf(b, n)).sum \in Int /\ ChopScore(ChopOf(b, n)).envelope \in Nat
           /\ LowerOf(b, n, n) \in Nat
<1> DEFINE w == ChopOf(b, n)
<1>1. ChopPeriod \in Nat \ {0} /\ ~(n < ChopPeriod)
  <2>1. n >= ChopPeriod
    BY DEF ScoredOf
  <2> QED BY <2>1, PeriodsAreNat
<1>2. /\ DOMAIN w = 1..ChopPeriod
      /\ \A i \in 1..ChopPeriod : w[i] = RecordOf(b, n - ChopPeriod + i)
  BY DEF ChopOf
<1>3. Len(w) = ChopPeriod
  BY <1>1, <1>2 DEF ChopOf
<1>4. ASSUME NEW i \in 1..ChopPeriod PROVE w[i] \in ChopRecord /\ w[i].low <= w[i].high
  <2>1. n - ChopPeriod + i \in 1..n
    BY <1>1
  <2> HIDE DEF w
  <2> QED BY <1>2, <2>1, RecordTyped
<1> HIDE DEF w
<1>5. ChopScore(w).envelope \in Nat
  BY <1>2, <1>3, <1>4, ChopStatusIs
<1>6. ChopScore(w).sum \in Int
  <2>1. IsFiniteSet(DOMAIN w)
    <3>1. 1 \in Int /\ ChopPeriod \in Int
      BY <1>1
    <3> QED BY <1>2, <3>1, FS_Interval
  <2>2. \A i \in DOMAIN w : w[i].range \in Int
    BY <1>2, <1>4 DEF ChopRecord
  <2> QED BY <2>1, <2>2, ScoreSumIsInt
<1>7. LowerOf(b, n, n) \in Nat
  <2> DEFINE below == {i \in RankedIn(WideOf(b, n), n) : Narrower(WidthsOf(b, n)[i], WidthsOf(b, n)[n])}
  <2>1. below \subseteq BandwidthPeriod..n
    BY DEF RankedIn, WideOf
  <2>2. IsFiniteSet(BandwidthPeriod..n)
    <3>1. BandwidthPeriod \in Int /\ n \in Int
      BY PeriodsAreNat
    <3> QED BY <3>1, FS_Interval
  <2> HIDE DEF below
  <2>3. Cardinality(below) \in Nat
    BY <2>1, <2>2, FS_Subset, FS_CardinalityType
  <2> QED BY <2>3 DEF LowerOf, below
<1> QED BY <1>5, <1>6, <1>7 DEF w

\* What the detector asks of the range state is what the bars say.
LEMMA RangeSays ==
    ASSUME ThresholdsDescend, NEW n \in Nat \ {0}, NEW b, Barred(b, n), NEW r, RangeTells(b, n, r)
    PROVE  /\ Qualifies(r) <=> n \in QualifyingOf(b, n)
           /\ r.status = "AVAILABLE" /\ Releases(r) # {} <=> n \in ReleasedOf(b, n)
           /\ ~(n \in QualifyingOf(b, n) /\ n \in ReleasedOf(b, n))
<1> DEFINE o == ScoringOf(b, n, n)
<1>1. r.status = "AVAILABLE" <=> n \in ScoredOf(b, n)
  BY DEF RangeTells
<1>2. CASE n \notin ScoredOf(b, n)
  BY <1>1, <1>2 DEF QualifyingOf, ReleasedOf, Qualifies
<1>3. CASE n \in ScoredOf(b, n)
  <2>1. ObservedOf(b, n)[n] = o
    BY <1>3 DEF ObservedOf
  <2>2. o.status = "AVAILABLE" /\ o.score = ChopScore(ChopOf(b, n)) /\ o.lower = LowerOf(b, n, n)
    BY DEF ScoringOf
  <2>3. r.score = o.score /\ r.lower = o.lower /\ r.status = o.status
    BY <1>1, <1>3, <2>2 DEF RangeTells
  <2> HIDE DEF o
  <2>4. /\ Qualifies(r) <=> Qualifies(o)
        /\ Releases(r) = Releases(o)
    BY <2>3 DEF Qualifies, Releases, CompressionBelow, ChopBelow, ChopAbove
  <2>5. o.score.sum \in Int /\ o.score.envelope \in Nat /\ o.lower \in Nat
    BY <1>3, <2>2, ScoredNumbers
  <2>6. ~(Qualifies(o) /\ Releases(o) # {})
    BY <2>5, ReleaseExcludes
  <2> QED BY <1>1, <1>3, <2>1, <2>4, <2>6 DEF QualifyingOf, ReleasedOf
<1> QED BY <1>2, <1>3

-------------------------------------------------------------------------------
(* The streaks of a set of bars.  Q are the bars of 1..n that qualify, R those *)
(* that release.                                                           *)

\* An open candidate counts the qualifying bars since the one that did not.
Counting(Q, n, context) ==
    /\ {"started", "count"} \subseteq DOMAIN context
    /\ context.count \in Nat \ {0} /\ context.count < ConfirmationBars
    /\ context.started \in 1..n /\ context.started = n - context.count + 1
    /\ context.started .. n \subseteq Q /\ context.started - 1 \notin Q

StreakHeld(Q, R, n, slot) ==
    /\ Streaks(Q, R, n, slot.state)
    /\ slot.state \in {"INACTIVE", "CANDIDATE", "ACTIVE", "INVALIDATED", "COMPLETED"}
    /\ slot.state = "CANDIDATE" => Counting(Q, n, slot.context)

\* The occurrence offered on the next bar.
StreakOffered(Q, R, n, slot) ==
    /\ slot.state \in {"INACTIVE", "CANDIDATE", "ACTIVE"}
    /\ Streaks(Q, R, n, slot.state)
    /\ slot.state = "CANDIDATE" => Counting(Q, n, slot.context)

\* A confirmation is dated at the first bar of the streak it confirms.
IntentsDated(out) ==
    \A i \in DOMAIN out.intents : out.intents[i].edge.to = "ACTIVE" =>
      out.intents[i].event = out.intents[i].detection - ConfirmationBars + 1

\* What the detector makes of a bar.
CompressionMoves(slot, qualifies, releases, n, out) ==
    /\ slot.state = "INACTIVE" =>
         /\ out.state = IF qualifies THEN "CANDIDATE" ELSE "INACTIVE"
         /\ qualifies => out.context = [started |-> n, count |-> 1, observed |-> 0, cause |-> {}]
    /\ slot.state = "CANDIDATE" =>
         /\ out.state = IF ~qualifies THEN "INVALIDATED"
                        ELSE IF slot.context.count + 1 < ConfirmationBars THEN "CANDIDATE" ELSE "ACTIVE"
         /\ out.state = "CANDIDATE" => out.context = [slot.context EXCEPT !.count = slot.context.count + 1]
    /\ slot.state = "ACTIVE" => out.state = IF releases THEN "COMPLETED" ELSE "ACTIVE"
    /\ \A i \in DOMAIN out.intents :
         out.intents[i].edge.to = "ACTIVE" =>
           /\ slot.state = "CANDIDATE" /\ qualifies /\ ~(slot.context.count + 1 < ConfirmationBars)
           /\ out.intents[i].event = slot.context.started /\ out.intents[i].detection = n

\* ... when the bars of Q qualify and those of R release.
StreakMoves(slot, Q, R, n, out) == CompressionMoves(slot, n \in Q, n \in R, n, out)

Whole(Q, n) == n - ConfirmationBars + 1 .. n \subseteq Q

LEMMA ActiveSteps ==
    ASSUME NEW n \in Nat \ {0}, NEW Q, NEW P, NEW R, NEW S, Q = P \cup (Q \cap {n}), P \subseteq 1..(n - 1),
           R = S \cup (R \cap {n}), S \subseteq 1..(n - 1)
    PROVE  ActiveIn(Q, R, n) <=> (ActiveIn(P, S, n - 1) /\ n \notin R) \/ Whole(Q, n)
<1>0. ConfirmationBars \in Nat \ {0, 1}
  BY PeriodsAreNat
<1>1. \A j \in 1..(n - 1) : (j \in Q <=> j \in P) /\ (j \in R <=> j \in S)
  OBVIOUS
<1>2. \A j \in Q : j \in 1..n
  <2>1. ASSUME NEW j \in Q PROVE j \in 1..n
    <3>1. j \in 1..(n - 1) \/ j = n
      OBVIOUS
    <3> QED BY <3>1
  <2> QED BY <2>1
<1>3. ASSUME ActiveIn(Q, R, n) PROVE (ActiveIn(P, S, n - 1) /\ n \notin R) \/ Whole(Q, n)
  <2>1. PICK t \in Q : t - ConfirmationBars + 1 .. t \subseteq Q /\ t + 1 .. n \cap R = {}
    BY <1>3 DEF ActiveIn
  <2>2. CASE t = n
    BY <2>1, <2>2 DEF Whole
  <2>3. CASE t # n
    <3>1. t \in 1..(n - 1)
      BY <1>2, <2>3
    <3>2. ASSUME NEW j \in t - ConfirmationBars + 1 .. t PROVE j \in P
      <4>1. j \in Q /\ j \in 1..n /\ j <= t
        BY <1>0, <1>2, <2>1, <3>1
      <4>2. j \in 1..(n - 1)
        BY <3>1, <4>1
      <4> QED BY <1>1, <4>1, <4>2
    <3>3. n \notin R
      BY <2>1, <3>1
    <3>4. t + 1 .. n - 1 \cap S = {}
      <4>1. \A j \in t + 1 .. n - 1 : j \in t + 1 .. n
        BY <3>1
      <4> QED BY <2>1, <4>1
    <3>5. t \in P
      BY <1>1, <3>1
    <3> QED BY <3>2, <3>3, <3>4, <3>5 DEF ActiveIn
  <2> QED BY <2>2, <2>3
<1>4. ASSUME ActiveIn(P, S, n - 1), n \notin R PROVE ActiveIn(Q, R, n)
  <2>1. PICK t \in P : t - ConfirmationBars + 1 .. t \subseteq P /\ t + 1 .. n - 1 \cap S = {}
    BY <1>4 DEF ActiveIn
  <2>2. t \in 1..(n - 1) /\ t \in Q
    OBVIOUS
  <2>3. t + 1 .. n \cap R = {}
    <3>1. \A j \in t + 1 .. n : j = n \/ (j \in t + 1 .. n - 1 /\ j \in 1..(n - 1))
      BY <2>2
    <3> QED BY <1>1, <1>4, <2>1, <3>1
  <2>4. t - ConfirmationBars + 1 .. t \subseteq Q
    BY <2>1
  <2> QED BY <2>2, <2>3, <2>4 DEF ActiveIn
<1>5. ASSUME Whole(Q, n) PROVE ActiveIn(Q, R, n)
  <2>1. n \in n - ConfirmationBars + 1 .. n
    BY <1>0
  <2>2. n \in Q
    BY <1>5, <2>1 DEF Whole
  <2>3. n + 1 .. n = {}
    OBVIOUS
  <2> QED BY <1>5, <2>2, <2>3 DEF ActiveIn, Whole
<1> QED BY <1>3, <1>4, <1>5

LEMMA StreakSteps ==
    ASSUME NEW n \in Nat \ {0}, NEW Q, NEW P, NEW R, NEW S, Q = P \cup (Q \cap {n}), P \subseteq 1..(n - 1),
           R = S \cup (R \cap {n}), S \subseteq 1..(n - 1), ~(n \in Q /\ n \in R),
           NEW slot, StreakOffered(P, S, n - 1, slot), NEW out, StreakMoves(slot, Q, R, n, out)
    PROVE  StreakHeld(Q, R, n, out) /\ IntentsDated(out)
<1> SUFFICES /\ Streaks(Q, R, n, out.state)
             /\ out.state \in {"INACTIVE", "CANDIDATE", "ACTIVE", "INVALIDATED", "COMPLETED"}
             /\ out.state = "CANDIDATE" => Counting(Q, n, out.context)
             /\ \A i \in DOMAIN out.intents : out.intents[i].edge.to = "ACTIVE" =>
                  out.intents[i].event = out.intents[i].detection - ConfirmationBars + 1
  BY DEF StreakHeld, IntentsDated
<1>9. /\ slot.state \in {"INACTIVE", "CANDIDATE", "ACTIVE"}
      /\ Streaks(P, S, n - 1, slot.state)
      /\ slot.state = "CANDIDATE" => Counting(P, n - 1, slot.context)
  BY DEF StreakOffered
<1>0. ConfirmationBars \in Nat \ {0, 1}
  BY PeriodsAreNat
<1>1. ActiveIn(Q, R, n) <=> (ActiveIn(P, S, n - 1) /\ n \notin R) \/ Whole(Q, n)
  BY ActiveSteps
<1>2. \A j \in 1..(n - 1) : j \in Q <=> j \in P
  OBVIOUS
<1>3. Whole(Q, n) => n \in Q
  <2>1. n \in n - ConfirmationBars + 1 .. n
    BY <1>0
  <2> QED BY <2>1 DEF Whole
<1>4. CASE slot.state = "INACTIVE"
  <2>1. ~ActiveIn(P, S, n - 1) /\ n - 1 \notin P
    BY <1>4, <1>9 DEF Streaks
  <2>2. ~Whole(Q, n)
    <3>1. n - 1 \in n - ConfirmationBars + 1 .. n
      BY <1>0
    <3>2. n - 1 \notin Q
      BY <2>1
    <3> QED BY <3>1, <3>2 DEF Whole
  <2>3. ~ActiveIn(Q, R, n)
    BY <1>1, <2>1, <2>2
  <2>4. /\ out.state = IF n \in Q THEN "CANDIDATE" ELSE "INACTIVE"
        /\ n \in Q => out.context = [started |-> n, count |-> 1, observed |-> 0, cause |-> {}]
        /\ \A i \in DOMAIN out.intents : out.intents[i].edge.to # "ACTIVE"
    BY <1>4 DEF StreakMoves, CompressionMoves
  <2>5. n \in Q => Counting(Q, n, out.context)
    <3> SUFFICES ASSUME n \in Q PROVE Counting(Q, n, out.context)
      OBVIOUS
    <3>1. {"started", "count"} \subseteq DOMAIN out.context /\ out.context.started = n /\ out.context.count = 1
      BY <2>4
    <3>2. n .. n = {n} /\ n - 1 \notin Q
      BY <2>1
    <3> QED BY <1>0, <3>1, <3>2 DEF Counting
  <2>6. Streaks(Q, R, n, out.state)
    BY <2>3, <2>4 DEF Streaks
  <2> QED BY <2>4, <2>5, <2>6
<1>5. CASE slot.state = "CANDIDATE"
  <2> DEFINE count == slot.context.count
             started == slot.context.started
  <2>1. ~ActiveIn(P, S, n - 1) /\ n - 1 \in P
    BY <1>5, <1>9 DEF Streaks
  <2>2. /\ count \in Nat \ {0} /\ count < ConfirmationBars /\ started \in 1..(n - 1)
        /\ started = n - count /\ started .. n - 1 \subseteq P /\ started - 1 \notin P
        /\ {"started", "count"} \subseteq DOMAIN slot.context
    BY <1>5, <1>9 DEF Counting
  <2>3. /\ out.state = IF ~(n \in Q) THEN "INVALIDATED"
                       ELSE IF count + 1 < ConfirmationBars THEN "CANDIDATE" ELSE "ACTIVE"
        /\ out.state = "CANDIDATE" => out.context = [slot.context EXCEPT !.count = count + 1]
        /\ \A i \in DOMAIN out.intents :
             out.intents[i].edge.to = "ACTIVE" =>
               /\ n \in Q /\ ~(count + 1 < ConfirmationBars)
               /\ out.intents[i].event = started /\ out.intents[i].detection = n
    BY <1>5 DEF StreakMoves, CompressionMoves
  <2>4. ActiveIn(Q, R, n) <=> Whole(Q, n)
    BY <1>1, <2>1
  <2> HIDE DEF count, started
  <2>5. n \in Q => started .. n \subseteq Q
    <3>1. \A j \in started .. n : j = n \/ j \in started .. n - 1
      BY <2>2
    <3> QED BY <2>2, <3>1
  <2>6. count + 1 < ConfirmationBars => ~Whole(Q, n)
    <3> SUFFICES ASSUME count + 1 < ConfirmationBars PROVE ~Whole(Q, n)
      OBVIOUS
    <3>1. started - 1 \in n - ConfirmationBars + 1 .. n
      BY <1>0, <2>2
    <3>2. started - 1 \notin Q
      <4>1. started - 1 # n
        BY <2>2
      <4> QED BY <2>2, <4>1
    <3> QED BY <3>1, <3>2 DEF Whole
  <2>7. ~(count + 1 < ConfirmationBars) => started = n - ConfirmationBars + 1
    BY <1>0, <2>2
  <2>8. n \in Q /\ ~(count + 1 < ConfirmationBars) => Whole(Q, n)
    BY <2>5, <2>7 DEF Whole
  <2>9. Streaks(Q, R, n, out.state)
    BY <1>3, <2>3, <2>4, <2>6, <2>8 DEF Streaks
  <2>10. ASSUME out.state = "CANDIDATE" PROVE Counting(Q, n, out.context)
    <3>1. n \in Q /\ count + 1 < ConfirmationBars
      BY <2>3, <2>10
    <3> DEFINE context == [slot.context EXCEPT !.count = count + 1]
    <3>2. {"started", "count"} \subseteq DOMAIN context /\ context.started = started /\ context.count = count + 1
      BY <2>2 DEF started
    <3>3. out.context = context
      BY <2>3, <2>10
    <3> HIDE DEF context
    <3>4. started - 1 \notin Q
      BY <2>2, <2>6, <3>1
    <3> QED BY <1>0, <2>2, <2>5, <3>1, <3>2, <3>3, <3>4 DEF Counting
  <2>11. \A i \in DOMAIN out.intents : out.intents[i].edge.to = "ACTIVE" =>
           out.intents[i].event = out.intents[i].detection - ConfirmationBars + 1
    BY <2>3, <2>7
  <2> QED BY <2>3, <2>9, <2>10, <2>11
<1>6. CASE slot.state = "ACTIVE"
  <2>1. ActiveIn(P, S, n - 1)
    BY <1>6, <1>9 DEF Streaks
  <2>2. /\ out.state = IF n \in R THEN "COMPLETED" ELSE "ACTIVE"
        /\ \A i \in DOMAIN out.intents : out.intents[i].edge.to # "ACTIVE"
    BY <1>6 DEF StreakMoves, CompressionMoves
  <2>3. ActiveIn(Q, R, n) <=> n \notin R
    BY <1>1, <1>3, <2>1
  <2> QED BY <2>2, <2>3 DEF Streaks
<1> QED BY <1>4, <1>5, <1>6, <1>9

-------------------------------------------------------------------------------
(* The detector's output, and what the runtime logs of it.                 *)

\* An intent to an edge is the only one of its output.
LEMMA MovedAlong ==
    ASSUME NEW slot, NEW edge, NEW event, NEW n, NEW context
    PROVE  LET out == Moved(slot, <<Intent(slot, edge, event, n, {})>>, context) IN
           /\ out.state = edge.to /\ out.context = context
           /\ \A i \in DOMAIN out.intents : /\ out.intents[i].edge = edge
                                            /\ out.intents[i].event = event
                                            /\ out.intents[i].detection = n
<1> DEFINE intent == Intent(slot, edge, event, n, {})
           one == <<intent>>
           out == Moved(slot, one, context)
<1>1. intent.edge = edge /\ intent.event = event /\ intent.detection = n
  BY DEF Intent
<1> HIDE DEF intent
<1>2. out = [raised |-> FALSE, ordinal |-> slot.ordinal, intents |-> one,
             state |-> intent.edge.to, context |-> context]
  BY MovedOne
<1>3. DOMAIN one = {1} /\ one[1] = intent
  OBVIOUS
<1> HIDE DEF one, out
<1>4. out.state = edge.to /\ out.context = context /\ out.intents = one
  BY <1>1, <1>2
<1>5. \A i \in DOMAIN out.intents : /\ out.intents[i].edge = edge
                                    /\ out.intents[i].event = event
                                    /\ out.intents[i].detection = n
  BY <1>1, <1>3, <1>4
<1> QED BY <1>4, <1>5 DEF out, one, intent

\* What the compression detector makes of a bar.
CompressionMade(slot, m, out) ==
    CompressionMoves(slot, Qualifies(m.range), m.range.status = "AVAILABLE" /\ Releases(m.range) # {},
                     m.bars, out)

LEMMA CompressionDoes ==
    ASSUME ThresholdsDescend, NEW slot, slot.state \in {"INACTIVE", "CANDIDATE", "ACTIVE"}, NEW m,
           slot.state = "CANDIDATE" => {"started", "count"} \subseteq DOMAIN slot.context
    PROVE  CompressionMade(slot, m, CompressionOutput(slot, m))
<1> DEFINE out == CompressionOutput(slot, m)
           r == m.range
           n == m.bars
           d == CompressionPattern
           Along(edge, event, context) == Moved(slot, <<Intent(slot, edge, event, n, {})>>, context)
<1>1. out = CASE slot.state = "INACTIVE" -> CompressionOpens(slot, r, n)
              [] slot.state = "CANDIDATE" -> CompressionPersists(slot, r, n)
              [] slot.state = "ACTIVE" -> CompressionReleases(slot, r, n)
              [] OTHER -> Unmoved(slot, slot.context)
  BY DEF CompressionOutput, ThresholdsDescend
<1>2. /\ d.edges[1].to = "CANDIDATE" /\ d.edges[2].to = "ACTIVE"
      /\ d.edges[3].to = "INVALIDATED" /\ d.edges[4].to = "COMPLETED"
  BY DEF CompressionPattern, Edge
<1>3. ASSUME NEW context
      PROVE  /\ Unmoved(slot, context).state = slot.state /\ Unmoved(slot, context).context = context
             /\ DOMAIN Unmoved(slot, context).intents = {}
  BY DEF Unmoved
<1>4. ASSUME NEW edge, NEW event, NEW context
      PROVE  /\ Along(edge, event, context).state = edge.to
             /\ Along(edge, event, context).context = context
             /\ \A i \in DOMAIN Along(edge, event, context).intents :
                  /\ Along(edge, event, context).intents[i].edge = edge
                  /\ Along(edge, event, context).intents[i].event = event
                  /\ Along(edge, event, context).intents[i].detection = n
  BY MovedAlong
<1> SUFFICES CompressionMoves(slot, Qualifies(r), r.status = "AVAILABLE" /\ Releases(r) # {}, n, out)
  BY DEF CompressionMade
<1>5. /\ CompressionOpens(slot, r, n) =
           IF ~Qualifies(r) THEN Unmoved(slot, slot.context)
           ELSE Along(d.edges[1], n, [started |-> n, count |-> 1, observed |-> 0, cause |-> {}])
      /\ CompressionReleases(slot, r, n) =
           IF r.status = "AVAILABLE" /\ Releases(r) # {}
           THEN Along(d.edges[4], n, [slot.context EXCEPT !.cause = Releases(r)])
           ELSE IF r.status # "AVAILABLE" THEN Unmoved(slot, slot.context)
           ELSE Unmoved(slot, [slot.context EXCEPT !.observed = @ + 1])
  BY DEF CompressionOpens, CompressionReleases
<1> DEFINE count == slot.context.count + 1
           context == [slot.context EXCEPT !.count = count]
<1>6. CompressionPersists(slot, r, n) =
        IF ~Qualifies(r) THEN Along(d.edges[3], n, [slot.context EXCEPT !.cause = {Interruption(r)}])
        ELSE IF count < ConfirmationBars THEN Unmoved(slot, context)
        ELSE Along(d.edges[2], context.started, [context EXCEPT !.observed = 1])
  BY DEF CompressionPersists
<1>7. slot.state = "CANDIDATE" => context.started = slot.context.started
  OBVIOUS
<1> HIDE DEF out, r, n, d, Along, context
<1>8. CASE slot.state = "INACTIVE"
  <2>1. out = CompressionOpens(slot, r, n)
    BY <1>1, <1>8
  <2>2. CASE Qualifies(r)
    <3> DEFINE begun == [started |-> n, count |-> 1, observed |-> 0, cause |-> {}]
    <3>1. out = Along(d.edges[1], n, begun)
      BY <1>5, <2>1, <2>2
    <3> HIDE DEF begun
    <3>2. /\ out.state = "CANDIDATE" /\ out.context = begun
          /\ \A i \in DOMAIN out.intents : out.intents[i].edge.to = "CANDIDATE"
      BY <1>2, <1>4, <3>1
    <3> QED BY <1>8, <2>2, <3>2 DEF CompressionMoves, begun
  <2>3. CASE ~Qualifies(r)
    <3>1. out = Unmoved(slot, slot.context)
      BY <1>5, <2>1, <2>3
    <3>2. out.state = "INACTIVE" /\ DOMAIN out.intents = {}
      BY <1>3, <1>8, <3>1
    <3> QED BY <1>8, <2>3, <3>2 DEF CompressionMoves
  <2> QED BY <2>2, <2>3
<1>9. CASE slot.state = "CANDIDATE"
  <2>1. out = CompressionPersists(slot, r, n)
    BY <1>1, <1>9
  <2>2. CASE ~Qualifies(r)
    <3> DEFINE left == [slot.context EXCEPT !.cause = {Interruption(r)}]
    <3>1. out = Along(d.edges[3], n, left)
      BY <1>6, <2>1, <2>2
    <3> HIDE DEF left
    <3>2. /\ out.state = "INVALIDATED"
          /\ \A i \in DOMAIN out.intents : out.intents[i].edge.to = "INVALIDATED"
      BY <1>2, <1>4, <3>1
    <3> QED BY <1>9, <2>2, <3>2 DEF CompressionMoves
  <2>3. CASE Qualifies(r) /\ count < ConfirmationBars
    <3>1. out = Unmoved(slot, context)
      BY <1>6, <2>1, <2>3
    <3>2. out.state = "CANDIDATE" /\ DOMAIN out.intents = {} /\ out.context = context
      BY <1>3, <1>9, <3>1
    <3> QED BY <1>9, <2>3, <3>2 DEF CompressionMoves, context
  <2>4. CASE Qualifies(r) /\ ~(count < ConfirmationBars)
    <3> DEFINE left == [context EXCEPT !.observed = 1]
    <3>1. out = Along(d.edges[2], context.started, left)
      BY <1>6, <2>1, <2>4
    <3> HIDE DEF left
    <3>2. /\ out.state = "ACTIVE"
          /\ \A i \in DOMAIN out.intents : /\ out.intents[i].event = slot.context.started
                                           /\ out.intents[i].detection = n
      BY <1>2, <1>4, <1>7, <1>9, <3>1
    <3> QED BY <1>9, <2>4, <3>2 DEF CompressionMoves
  <2> QED BY <2>2, <2>3, <2>4
<1>10. CASE slot.state = "ACTIVE"
  <2>1. out = CompressionReleases(slot, r, n)
    BY <1>1, <1>10
  <2>2. CASE r.status = "AVAILABLE" /\ Releases(r) # {}
    <3> DEFINE left == [slot.context EXCEPT !.cause = Releases(r)]
    <3>1. out = Along(d.edges[4], n, left)
      BY <1>5, <2>1, <2>2
    <3> HIDE DEF left
    <3>2. /\ out.state = "COMPLETED"
          /\ \A i \in DOMAIN out.intents : out.intents[i].edge.to = "COMPLETED"
      BY <1>2, <1>4, <3>1
    <3> QED BY <1>10, <2>2, <3>2 DEF CompressionMoves
  <2>3. CASE ~(r.status = "AVAILABLE" /\ Releases(r) # {})
    <3> DEFINE left == IF r.status # "AVAILABLE" THEN slot.context ELSE [slot.context EXCEPT !.observed = @ + 1]
    <3>1. out = Unmoved(slot, left)
      BY <1>5, <2>1, <2>3
    <3> HIDE DEF left
    <3>2. out.state = "ACTIVE" /\ DOMAIN out.intents = {}
      BY <1>3, <1>10, <3>1
    <3> QED BY <1>10, <2>3, <3>2 DEF CompressionMoves
  <2> QED BY <2>2, <2>3
<1> QED BY <1>8, <1>9, <1>10

-------------------------------------------------------------------------------
\* An event of a log, dated as the property asks.
DatedEvent(x) ==
    x.slot = Compression /\ x.edge.to = "ACTIVE" => x.event = x.detection - ConfirmationBars + 1

LEMMA DatedValues ==
    ASSUME NEW log PROVE Dated(log) <=> \A x \in ValuesOf(log) : DatedEvent(x)
BY DEF Dated, DatedEvent, ValuesOf

LEMMA ToldDated ==
    ASSUME NEW slot, NEW s, NEW out,
           s = Compression => IntentsDated(out)
    PROVE  Dated(Committed(slot, s, out))
<1> DEFINE told == Committed(slot, s, out)
<1>1. DOMAIN told = DOMAIN out.intents
  BY DEF Committed
<1>2. ASSUME NEW i \in DOMAIN out.intents
      PROVE  /\ told[i].slot = s /\ told[i].edge = out.intents[i].edge
             /\ told[i].event = out.intents[i].event /\ told[i].detection = out.intents[i].detection
  BY DEF Committed
<1> HIDE DEF told
<1> QED BY <1>1, <1>2 DEF Dated, IntentsDated, told

\* Two dated logs joined are dated.
LEMMA DatedJoined ==
    ASSUME NEW a, a \in Seq(ValuesOf(a)), NEW b, b \in Seq(ValuesOf(b)), Dated(a), Dated(b)
    PROVE  Dated(a \o b)
<1> DEFINE A == ValuesOf(a)
           B == ValuesOf(b)
           c == a \o b
<1>1. a \in Seq(A) /\ b \in Seq(B)
  OBVIOUS
<1>2. /\ DOMAIN a = 1..Len(a) /\ DOMAIN b = 1..Len(b) /\ Len(a) \in Nat /\ Len(b) \in Nat
      /\ DOMAIN c = 1..(Len(a) + Len(b))
      /\ \A i \in 1..Len(a) : c[i] = a[i]
      /\ \A i \in 1..Len(b) : c[Len(a) + i] = b[i]
  <2> HIDE DEF A, B
  <2> QED BY <1>1
<1> HIDE DEF c, A, B
<1>3. ASSUME NEW i \in DOMAIN c PROVE DatedEvent(c[i])
  <2>1. CASE i \in 1..Len(a)
    BY <1>2, <2>1 DEF Dated, DatedEvent
  <2>2. CASE i \notin 1..Len(a)
    <3>1. i - Len(a) \in 1..Len(b) /\ c[i] = b[i - Len(a)]
      <4>1. i - Len(a) \in 1..Len(b) /\ Len(a) + (i - Len(a)) = i
        BY <1>2, <2>2
      <4> QED BY <1>2, <4>1
    <3> QED BY <1>2, <3>1 DEF Dated, DatedEvent
  <2> QED BY <2>1, <2>2
<1> QED BY <1>3 DEF Dated, DatedEvent, c

-------------------------------------------------------------------------------
(* The compression invariant.                                              *)

CloseBefore(b, x) == {b[y].close : y \in {x - 1} \cap DOMAIN b}

\* After n bars the range state keeps the windows of the bars, the compression
\* slot is where their streaks say, and what it has logged is dated.
CompressionsHold(b, n, m, rt) ==
    /\ m.atr.prior = CloseBefore(b, n + 1)
    /\ RangeKeeps(b, n, m.range)
    /\ StreakHeld(QualifyingOf(b, n), ReleasedOf(b, n), n, rt.slots[Compression])
    /\ Dated(rt.log)

CompressionInv == MarketInv /\ CompressionsHold(bars, Len(bars), market, runtime)

LEMMA RangeBegins == RangeKeeps(<<>>, 0, FreshRange)
<1> DEFINE r == FreshRange
           W == WideOf(<<>>, 0)
<1>1. r.chop = <<>> /\ r.closes = <<>> /\ r.widths = <<>>
  BY DEF FreshRange
<1>2. \A f, size \in Nat \ {0} : LastAre(<<>>, size, f, 0)
  BY DEF LastAre
<1>3. ChopPeriod \in Nat \ {0} /\ BandwidthPeriod \in Nat \ {0} /\ ReferenceBars \in Nat \ {0}
  BY PeriodsAreNat
<1>4. LastAre(<<>>, ChopPeriod, RecordsOf(<<>>, 0), 0) /\ LastAre(<<>>, BandwidthPeriod, ClosesTo(<<>>, 0), 0)
  BY <1>3 DEF LastAre
<1>5. W = {}
  <2>1. BandwidthPeriod..0 = {}
    BY <1>3
  <2> QED BY <2>1 DEF WideOf
<1> HIDE DEF W, r
<1>6. WidthsKept(W, WidthsOf(<<>>, 0), <<>>)
  <2>1. Cardinality(W) = 0
    BY <1>5, FS_EmptySet
  <2> QED BY <1>3, <2>1 DEF WidthsKept
<1> QED BY <1>1, <1>4, <1>6 DEF RangeKeeps, W, r

LEMMA CompressionsBegin == CompressionsHold(<<>>, 0, FreshMarket, FreshRuntime(Patterns))
<1> DEFINE m == FreshMarket
           rt == FreshRuntime(Patterns)
<1>1. m.atr.prior = {} /\ m.range = FreshRange
  BY DEF FreshMarket, FreshAtr
<1>2. rt.log = <<>> /\ rt.slots[Compression].state = "INACTIVE"
  BY DEF FreshRuntime, Patterns, Compression, FreshSlot, InitialState, CompressionPattern
<1>3. CloseBefore(<<>>, 0 + 1) = {}
  BY DEF CloseBefore
<1>4. QualifyingOf(<<>>, 0) = {}
  <2>1. BandwidthPeriod..0 = {}
    BY PeriodsAreNat
  <2> QED BY <2>1 DEF QualifyingOf, ScoredOf, WideOf
<1> HIDE DEF m, rt
<1>5. StreakHeld(QualifyingOf(<<>>, 0), ReleasedOf(<<>>, 0), 0, rt.slots[Compression])
  BY <1>2, <1>4 DEF StreakHeld, Streaks, ActiveIn
<1>6. Dated(rt.log)
  BY <1>2 DEF Dated
<1>7. CompressionsHold(<<>>, 0, m, rt)
  BY <1>1, <1>3, <1>5, <1>6, RangeBegins DEF CompressionsHold
<1> QED BY <1>7 DEF m, rt

\* The occurrence offered stands where the streaks left it.
LEMMA OfferedStreak ==
    ASSUME NEW P, NEW S, NEW k, NEW rt, StreakHeld(P, S, k, rt.slots[Compression])
    PROVE  StreakOffered(P, S, k, Offer(rt, Compression))
<1> DEFINE slot == rt.slots[Compression]
           slot2 == Offer(rt, Compression)
<1>1. Patterns[Compression] = CompressionPattern /\ CompressionPattern.terminal = {"INVALIDATED", "COMPLETED"}
  BY DEF Patterns, Compression, CompressionPattern
<1>2. \A i : FreshSlot(CompressionPattern, i).state = "INACTIVE"
  BY DEF FreshSlot, InitialState, CompressionPattern
<1>3. IF slot.state \in {"INVALIDATED", "COMPLETED"} THEN slot2.state = "INACTIVE" ELSE slot2 = slot
  BY <1>1, <1>2 DEF Offer, Offered, Restarts
<1> HIDE DEF slot2
<1>4. /\ Streaks(P, S, k, slot.state)
      /\ slot.state \in {"INACTIVE", "CANDIDATE", "ACTIVE", "INVALIDATED", "COMPLETED"}
      /\ slot.state = "CANDIDATE" => Counting(P, k, slot.context)
  BY DEF StreakHeld
<1> HIDE DEF slot
<1>5. CASE slot.state \in {"INVALIDATED", "COMPLETED"}
  BY <1>3, <1>4, <1>5 DEF StreakOffered, Streaks, slot2
<1>6. CASE slot.state \notin {"INVALIDATED", "COMPLETED"}
  BY <1>3, <1>4, <1>6 DEF StreakOffered, slot2
<1> QED BY <1>5, <1>6

LEMMA CompressionsContinue ==
    ASSUME ThresholdsDescend, NEW b \in Seq(Bar), NEW bar \in Bar, NEW m, NEW rt,
           RuntimeTypes(rt, Len(b)), m.bars = Len(b), CompressionsHold(b, Len(b), m, rt),
           NEW new, Advanced(m, new, bar), Publishes(new, bar)
    PROVE  CompressionsHold(Append(b, bar), Len(b) + 1, new, StepOf(rt, new, bar))
<1> DEFINE n == Len(b) + 1
           c == Append(b, bar)
           rt2 == StepOf(rt, new, bar)
           slot == Offer(rt, Compression)
           out == Out(rt, Compression, new, bar)
           Q == QualifyingOf(c, n)
           P == QualifyingOf(b, n - 1)
           R == ReleasedOf(c, n)
           S == ReleasedOf(b, n - 1)
<1>1. n \in Nat \ {0} /\ n - 1 \in Nat /\ Len(b) = n - 1
  OBVIOUS
<1>2. Extending1(b, c, n) /\ Barred(c, n) /\ c[n] = bar
  BY DEF Extending1, Barred
<1>3. new.bars = n
  BY DEF Advanced
<1> HIDE DEF n, c
<1>4. m.atr.prior = CloseBefore(c, n)
  <2>1. m.atr.prior = CloseBefore(b, n)
    BY <1>1 DEF CompressionsHold
  <2>2. {n - 1} \cap DOMAIN b = {n - 1} \cap DOMAIN c
    BY <1>1, <1>2 DEF Extending1
  <2>3. \A y \in {n - 1} \cap DOMAIN b : c[y] = b[y]
    BY <1>2 DEF Extending1
  <2> QED BY <2>1, <2>2, <2>3 DEF CloseBefore
<1>5. new.atr.prior = CloseBefore(c, n + 1)
  <2>1. new.atr.prior = {bar.close}
    BY DEF Advanced, NextAtr, AtrUpdate
  <2>2. {(n + 1) - 1} \cap DOMAIN c = {n}
    BY <1>1, <1>2 DEF Extending1
  <2> QED BY <1>2, <2>1, <2>2 DEF CloseBefore
<1>6. RangeMakes(m.range, new.range, c[n], RecordOf(c, n).range)
  <2>1. new.range = RangeUpdate(m.range, bar, NextAtr(m, bar).range)
    BY DEF Advanced
  <2>2. NextAtr(m, bar).range = TrueRange(m.atr.prior, bar)
    BY DEF NextAtr, AtrUpdate
  <2>3. RecordOf(c, n).range = TrueRange(CloseBefore(c, n), c[n])
    BY DEF RecordOf, CloseBefore
  <2>4. new.range = RangeUpdate(m.range, c[n], RecordOf(c, n).range)
    BY <1>2, <1>4, <2>1, <2>2, <2>3
  <2> QED BY <2>4, RangeMade
<1>7. RangeKeeps(c, n, new.range) /\ RangeTells(c, n, new.range)
  <2>1. RangeKeeps(b, n - 1, m.range)
    BY <1>1 DEF CompressionsHold
  <2> QED BY <1>1, <1>2, <1>6, <2>1, RangeGoesOn
<1>8. /\ Q = P \cup (Q \cap {n}) /\ R = S \cup (R \cap {n}) /\ P \subseteq 1..(n - 1) /\ S \subseteq 1..(n - 1)
  BY <1>1, <1>2, StreaksByBars
<1>9. /\ Qualifies(new.range) <=> n \in Q
      /\ new.range.status = "AVAILABLE" /\ Releases(new.range) # {} <=> n \in R
      /\ ~(n \in Q /\ n \in R)
  BY <1>1, <1>2, <1>7, RangeSays
<1>10. StreakOffered(P, S, n - 1, slot)
  BY <1>1, OfferedStreak DEF CompressionsHold
<1> HIDE DEF slot, out, Q, P, R, S
<1>11. StreakMoves(slot, Q, R, n, out)
  <2>1. out = CompressionOutput(slot, new)
    BY DEF out, slot, Out, Output, Continuation, Reversal, Compression
  <2>2. slot.state = "CANDIDATE" => {"started", "count"} \subseteq DOMAIN slot.context
    BY <1>10 DEF StreakOffered, Counting
  <2>3. slot.state \in {"INACTIVE", "CANDIDATE", "ACTIVE"}
    BY <1>10 DEF StreakOffered
  <2>4. CompressionMade(slot, new, out)
    BY <2>1, <2>2, <2>3, CompressionDoes
  <2> QED BY <1>3, <1>9, <2>4 DEF StreakMoves, CompressionMade, CompressionMoves
<1>12. StreakHeld(Q, R, n, out) /\ IntentsDated(out)
  BY <1>1, <1>8, <1>9, <1>10, <1>11, StreakSteps
<1>13. /\ Steps(rt, rt2, new, bar)
       /\ \A s \in 1..3 : Told3(rt, s, new, bar) \in Seq(ValuesOf(Told3(rt, s, new, bar)))
  BY <1>1, <1>3, RuntimeCommits
<1>14. StreakHeld(Q, R, n, rt2.slots[Compression])
  <2>1. rt2.slots[Compression] = Commit(slot, out)
    BY <1>13 DEF Steps, Compression, slot, out
  <2>2. SlotShape(slot)
    BY OfferedShape DEF RuntimeTypes, slot
  <2> DEFINE next == slot.next + Len(out.intents)
             made == Commit(slot, out)
  <2>3. made = [ordinal |-> slot.ordinal, state |-> out.state, next |-> next, context |-> out.context]
    BY <2>2, CommitIs
  <2> HIDE DEF made, next
  <2>4. made.state = out.state /\ made.context = out.context
    BY <2>3
  <2> QED BY <1>12, <2>1, <2>4 DEF StreakHeld, made
<1>15. Dated(rt2.log)
  <2> DEFINE T(s) == Told3(rt, s, new, bar)
  <2>1. ASSUME NEW s \in 1..3 PROVE Dated(T(s)) /\ T(s) \in Seq(ValuesOf(T(s)))
    <3> DEFINE o == Out(rt, s, new, bar)
    <3>1. s = Compression => IntentsDated(o)
      BY <1>12 DEF out
    <3> HIDE DEF o
    <3>2. Dated(Committed(Offer(rt, s), s, o))
      BY <3>1, ToldDated
    <3> QED BY <1>13, <3>2 DEF Told3, o
  <2>2. rt2.log = rt.log \o ((T(1) \o T(2)) \o T(3))
    BY <1>13 DEF Steps
  <2>3. Dated(rt.log) /\ rt.log \in Seq(ValuesOf(rt.log))
    BY DEF CompressionsHold, RuntimeTypes
  <2> DEFINE t1 == T(1)
             t2 == T(2)
             t3 == T(3)
  <2>4. /\ Dated(t1) /\ Dated(t2) /\ Dated(t3)
        /\ t1 \in Seq(ValuesOf(t1)) /\ t2 \in Seq(ValuesOf(t2)) /\ t3 \in Seq(ValuesOf(t3))
    BY <2>1
  <2>5. rt2.log = rt.log \o ((t1 \o t2) \o t3)
    BY <2>2
  <2> HIDE DEF T, t1, t2, t3, rt2
  <2> DEFINE u == t1 \o t2
             v == u \o t3
             log == rt.log
  <2>6. Dated(u) /\ u \in Seq(ValuesOf(u))
    BY <2>4, DatedJoined, JoinedLogs
  <2> HIDE DEF u
  <2>7. Dated(v) /\ v \in Seq(ValuesOf(v))
    BY <2>4, <2>6, DatedJoined, JoinedLogs
  <2> HIDE DEF v
  <2>8. Dated(log) /\ log \in Seq(ValuesOf(log))
    BY <2>3
  <2>9. rt2.log = log \o v
    BY <2>5 DEF u, v
  <2> HIDE DEF log
  <2> QED BY <2>7, <2>8, <2>9, DatedJoined
<1>16. CompressionsHold(c, n, new, rt2)
  BY <1>5, <1>7, <1>14, <1>15 DEF CompressionsHold, Q, R
<1> QED BY <1>16 DEF c, n

LEMMA CompressionInvKeeps == ThresholdsDescend /\ CompressionInv /\ [Next]_vars => CompressionInv'
<1> SUFFICES ASSUME ThresholdsDescend, CompressionInv, [Next]_vars PROVE CompressionInv'
  OBVIOUS
<1>1. MarketInv /\ MarketInv'
  BY NextKeeps DEF CompressionInv
<1>2. CASE UNCHANGED vars
  BY <1>1, <1>2 DEF vars, CompressionInv
<1>3. CASE Next
  <2>1. PICK bar \in Bar : Consumes(bar)
    BY <1>1, <1>3, NextConsumes
  <2>2. bars' = Append(bars, bar) /\ Len(bars') = Len(bars) + 1 /\ bars \in Seq(Bar)
    BY <1>1, <2>1 DEF Consumes, MarketInv
  <2>3. /\ market.bars = Len(bars) /\ Advanced(market, market', bar) /\ Publishes(market', bar)
        /\ runtime' = StepOf(runtime, market', bar) /\ RuntimeTypes(runtime, Len(bars))
        /\ CompressionsHold(bars, Len(bars), market, runtime)
    BY <1>1, <2>1 DEF Consumes, MarketInv, CompressionInv
  <2>4. CompressionsHold(Append(bars, bar), Len(bars) + 1, market', StepOf(runtime, market', bar))
    BY <2>2, <2>3, CompressionsContinue
  <2>5. CompressionsHold(bars', Len(bars'), market', runtime')
    BY <2>2, <2>3, <2>4
  <2> QED BY <1>1, <2>5 DEF CompressionInv
<1> QED BY <1>2, <1>3

\* Whatever the bars and the parameters, the range state's bounded windows say
\* of every bar what the definition over the whole list of bars says, and a
\* compression is a candidate, active, released and dated exactly as the streaks
\* of the bars that qualify and the bars that release tell
\* (range_state.py:299-365, compression.py:190-304).
THEOREM CompressionsFollowStreaks == ThresholdsDescend => (Spec => []CompressionIsStreak)
<1> SUFFICES ASSUME ThresholdsDescend PROVE Spec => []CompressionIsStreak
  OBVIOUS
<1>1. Init => CompressionInv
  <2> SUFFICES ASSUME Init PROVE CompressionInv
    OBVIOUS
  <2>1. bars = <<>> /\ Len(bars) = 0 /\ market = FreshMarket /\ runtime = FreshRuntime(Patterns)
    BY DEF Init
  <2> QED BY <2>1, InitHolds, CompressionsBegin DEF CompressionInv
<1>2. CompressionInv /\ [Next]_vars => CompressionInv'
  BY CompressionInvKeeps
<1>3. CompressionInv => CompressionIsStreak
  BY StreakIs DEF CompressionInv, CompressionsHold, StreakHeld
<1> QED BY <1>1, <1>2, <1>3, PTL DEF Spec
===============================================================================
