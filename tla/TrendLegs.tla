----------------------------- MODULE TrendLegs ------------------------------
(* Trend legs over the swing structure (indicators/trend_leg.py) and their   *)
(* qualification (trend_leg_qualification.py).  A leg is established by a     *)
(* corrective swing followed by a confirmed extreme beyond the last; it is    *)
(* protected by the corrective swing and ends at the first close that breaks  *)
(* it.  Crosses of the close and the EMA are kept beside the legs.            *)
EXTENDS SwingStructure

CONSTANTS MinDuration,   \* min_duration_bars
          MinMovement    \* min_directional_move_points

ASSUME QualificationAssumption == MinDuration \in Nat \ {0} /\ MinMovement \in Nat

Directions == {"UP", "DOWN"}
Opposed(direction) == IF direction = "UP" THEN "DOWN" ELSE "UP"
(* Side a leg extends on; it is protected on the other one. *)
Forward(direction) == IF direction = "UP" THEN "HIGH" ELSE "LOW"
Backward(direction) == Other(Forward(direction))
Signed(direction, move) == IF direction = "UP" THEN move ELSE -move

FreshLegs == [active |-> {}, pending |-> {}, segment |-> {}, close |-> {}, ema |-> {},
              last |-> 0, legs |-> 0, crosses |-> {}, transitions |-> <<>>]

(* _validate_classifications: the batch continues the swings seen so far and  *)
(* agrees with what the labels are computed from.                             *)
ValidClassification(c, last, n) ==
  /\ ValidSwing(c.swing, last, n)
  /\ c.label = Label(c.swing, c.previous)
  /\ \A p \in c.previous : /\ p.side = c.swing.side
                           /\ p.index < c.swing.index
                           /\ p.detection < c.swing.detection

-----------------------------------------------------------------------------
(* _update_raw: a cross is the close changing sides of the EMA.               *)
Crossing(lg, bar, ema) ==
  {d \in Directions : \E e0 \in lg.ema, c0 \in lg.close, e1 \in ema :
     LET before == Signed(d, c0 * Unit - e0)
         now == Signed(d, bar.close * Unit - e1)
     IN before <= 0 /\ now > 0}

(* The segment a cross starts, unless one of its direction is running. *)
SegmentAfter(lg, crosses, bar, n) ==
  LET running == {[s EXCEPT !.high = Max({@, bar.high}), !.low = Min({@, bar.low}),
                            !.net = bar.close - s.close, !.bars = n - s.start + 1] : s \in lg.segment}
      started == {d \in crosses : \A s \in running : s.direction # d}
  IN IF started = {} THEN running
     ELSE {[direction |-> d, start |-> n, close |-> bar.close, net |-> 0, bars |-> 1,
            high |-> bar.high, low |-> bar.low] : d \in started}

-----------------------------------------------------------------------------
(* _measure: bar n seen from the swing the leg started at. *)
Measured(leg, bar, n) ==
  LET best == IF leg.direction = "UP" THEN Max({leg.extreme, bar.high})
              ELSE Min({leg.extreme, bar.low})
  IN [leg EXCEPT !.now = n,
        !.duration = n - leg.initial.event + 1,
        !.movement = Signed(leg.direction, bar.close - leg.initial.price),
        !.extreme = best,
        !.retracement = Signed(leg.direction, best - bar.close)]

(* A close beyond the level that protects a leg of the direction. *)
ClosesThrough(direction, bar, swing) ==
  Beyond(Backward(direction), bar.close * Unit, BreakLevel(swing))

Ends(leg, bar, n) == leg.protected.detection < n /\ ClosesThrough(leg.direction, bar, leg.protected)

Corrective == [UP |-> "HL", DOWN |-> "LH"]
Extending == [UP |-> "HH", DOWN |-> "LL"]

(* _progress, a corrective swing: it waits for an extreme when it would       *)
(* protect better than the leg's own; one against the leg discards what waits. *)
PendingAfter(lg, c) ==
  LET d == CHOOSE x \in Directions : Corrective[x] = c.label
  IN CASE lg.active = {} -> {c}
       [] \E leg \in lg.active : leg.direction # d -> {}
       [] \E leg \in lg.active : /\ leg.direction = d
                                 /\ Signed(d, c.swing.price - leg.protected.price) > 0 -> {c}
       [] OTHER -> lg.pending

(* _progress, any other swing: the one that extends what waits.               *)
Completes(lg, c, bar, n) ==
  \E p \in lg.pending : \E d \in Directions :
    /\ Corrective[d] = p.label
    /\ c.label = Extending[d]
    /\ c.swing.detection > p.swing.detection
    /\ Signed(d, c.swing.price - p.swing.price) > 0
    /\ ~(p.swing.detection < n /\ ClosesThrough(d, bar, p.swing))

Progress(lg, c, bar, n) ==
  LET p == The(lg.pending).swing
      d == CHOOSE x \in Directions : Corrective[x] = The(lg.pending).label
      leg == The(lg.active)
      advanced == [leg EXCEPT !.protected = p, !.directional = c.swing, !.since = n]
      extreme == IF d = "UP" THEN Max({c.swing.price, bar.high}) ELSE Min({c.swing.price, bar.low})
      founded == Measured([index |-> lg.legs + 1, direction |-> d, initial |-> p, protected |-> p,
                           directional |-> c.swing, established |-> n, since |-> n, now |-> n,
                           extreme |-> extreme, duration |-> 0, movement |-> 0, retracement |-> 0],
                          bar, n)
      new == IF lg.active = {} THEN founded ELSE advanced
      kind == IF lg.active = {} THEN "ESTABLISHED" ELSE "PROTECTION_ADVANCED"
  IN IF c.label \in {"HL", "LH"} THEN [lg EXCEPT !.pending = PendingAfter(lg, c)]
     ELSE IF ~Completes(lg, c, bar, n) THEN [lg EXCEPT !.pending = {}]
     ELSE [lg EXCEPT !.pending = {}, !.active = {new}, !.legs = new.index,
                     !.transitions = Append(@, [type |-> kind, leg |-> new])]

(* _update_completed_bar: the cross first, then the end of the leg, then the  *)
(* structure of the bar; a bar that ends a leg progresses nothing.            *)
LegUpdate(lg, classified, ema, bar, n) ==
  LET crosses == Crossing(lg, bar, ema)
      measured == {Measured(leg, bar, n) : leg \in lg.active}
      ended == {leg \in measured : Ends(leg, bar, n)}
      next == [lg EXCEPT
        !.crosses = crosses, !.segment = SegmentAfter(lg, crosses, bar, n),
        !.close = {bar.close}, !.ema = ema,
        !.last = Max({@} \cup {c.swing.index : c \in classified}),
        !.active = measured \ ended,
        !.pending = IF ended # {} THEN {} ELSE @,
        !.transitions = IF ended # {} THEN <<[type |-> "TERMINATED", leg |-> The(ended)]>>
                        ELSE <<>>]
  IN IF ended # {} \/ classified = {} THEN next
     ELSE Progress(next, The(classified), bar, n)

-----------------------------------------------------------------------------
(* trend_leg_qualification.py: a leg qualifies on the first bar it is both    *)
(* long and far enough, and stays qualified until it ends.                    *)
FreshQualification == [active |-> {}, ended |-> {}, earned |-> {}]

(* The source observations the component refuses. *)
ValidLegs(q, lg, n) ==
  LET terminated == {i \in DOMAIN lg.transitions : lg.transitions[i].type = "TERMINATED"}
      ValidLeg(leg) == leg.now = n /\ leg.duration >= 1 /\ leg.established <= n
  IN /\ Cardinality(terminated) <= 1
     /\ terminated # {} => lg.active = {}
     /\ \A i \in DOMAIN lg.transitions : ValidLeg(lg.transitions[i].leg)
     /\ \A leg \in lg.active : ValidLeg(leg)
     /\ \A i \in terminated : \E a \in q.active : a.leg.index = lg.transitions[i].leg.index

Passes(leg) == leg.duration >= MinDuration /\ leg.movement >= MinMovement

(* The mistake of qualifying a leg only while it passes both gates. *)
QualificationFleeting(q, lg, n) ==
  LET ended == {lg.transitions[i].leg : i \in
                  {j \in DOMAIN lg.transitions : lg.transitions[j].type = "TERMINATED"}}
      fresh == {leg \in lg.active : Passes(leg)}
  IN [ended |-> {[leg |-> leg, qualified |-> Passes(leg)] : leg \in ended},
      earned |-> fresh,
      active |-> {[leg |-> leg, qualified |-> leg \in fresh] : leg \in lg.active}]

QualificationUpdate(q, lg, n) ==
  LET ended == {lg.transitions[i].leg : i \in
                  {j \in DOMAIN lg.transitions : lg.transitions[j].type = "TERMINATED"}}
      Sticky(leg) == \E a \in q.active : a.leg.index = leg.index /\ a.qualified
      earned == {leg \in lg.active : ~Sticky(leg) /\ Passes(leg)}
  IN [ended |-> {[leg |-> leg, qualified |-> Sticky(leg)] : leg \in ended},
      earned |-> earned,
      active |-> {[leg |-> leg, qualified |-> Sticky(leg) \/ leg \in earned] : leg \in lg.active}]
=============================================================================
