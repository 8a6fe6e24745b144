-------------------------- MODULE EventOutcomesProofs ---------------------------
(***************************************************************************)
(* What is captured of an event and what is measured after it, for any      *)
(* stream of bars, any day length, missing minute and definitions.          *)
(***************************************************************************)
EXTENDS EventOutcomes, MarketAnalysisProofs

(***************************************************************************)
(* When what the runtime has been told, and what it committed, was known.  *)
(***************************************************************************)

\* An event of the log: it is dated no later than it was detected, and it was
\* detected on a bar that has been consumed.
KnownEvent(x, n) ==
    x.event \in Nat /\ x.detection \in Nat /\ x.event <= x.detection /\ x.detection <= n

KnownRef(r, n) == r[2].detection \in Nat /\ r[2].detection <= n

KnownBy(rt, n) ==
    /\ rt.seen \subseteq Nat
    /\ \A r \in rt.refs : KnownRef(r, n)
    /\ \A x \in ValuesOf(rt.log) : KnownEvent(x, n)

\* Events detected on bar n.
ToldOn(events, n) == \A x \in ValuesOf(events) : KnownEvent(x, n) /\ x.detection = n

\* What a bar publishes is dated no later than the bar.
LEMMA PublishedKnown ==
    ASSUME NEW m, m.bars \in Nat, NEW bar, Publishes(m, bar)
    PROVE  /\ \A t \in EventsOf(m) : t \in Nat /\ t <= m.bars
           /\ \A r \in RefsIn(m) : KnownRef(r, m.bars)
<1>1. ASSUME NEW i \in DOMAIN m.events
      PROVE  /\ m.events[i].event \in Nat /\ m.events[i].event <= m.bars
             /\ KnownRef(m.events[i].ref, m.bars)
  <2>1. PICK x : m.events[i] = [event |-> x.event, ref |-> <<i, x>>] /\ Told(x, bar, m.bars)
    BY DEF Publishes, AllTold
  <2>2. m.events[i].event = x.event /\ m.events[i].ref = <<i, x>>
    BY <2>1
  <2>3. x.event \in Nat /\ x.event <= m.bars /\ x.detection = m.bars
    BY <2>1 DEF Told
  <2> QED BY <2>2, <2>3 DEF KnownRef
<1> QED BY <1>1 DEF EventsOf, RefsIn

LEMMA AcceptedDates ==
    ASSUME NEW d, NEW rt, NEW s, NEW slot, NEW out, NEW seen, NEW refs, NEW now,
           Accepted(d, rt, s, slot, out, seen, refs, now), NEW i \in DOMAIN out.intents
    PROVE  /\ out.intents[i].detection = now /\ out.intents[i].event <= now
           /\ out.intents[i].event # now =>
                out.intents[i].event \in seen \cup OwnTimes(rt, s, slot.ordinal)
<1>1. out.intents[i].detection = now
  BY DEF Accepted
<1>2. out.intents[i].event <= now
  BY Zenon DEF Accepted
<1>3. out.intents[i].event # now =>
        out.intents[i].event \in seen \cup OwnTimes(rt, s, slot.ordinal)
  BY Zenon DEF Accepted
<1> QED BY <1>1, <1>2, <1>3

\* What a slot commits of a bar was detected on it.
LEMMA CommittedKnown ==
    ASSUME NEW n \in Nat, NEW d, NEW rt, NEW s, NEW slot, NEW out, NEW seen, NEW refs,
           seen \subseteq Nat, OwnTimes(rt, s, slot.ordinal) \subseteq Nat,
           Accepted(d, rt, s, slot, out, seen, refs, n)
    PROVE  ToldOn(Committed(slot, s, out), n)
<1> SUFFICES ASSUME NEW i \in DOMAIN out.intents
             PROVE  KnownEvent(Committed(slot, s, out)[i], n)
                    /\ Committed(slot, s, out)[i].detection = n
  BY DEF ValuesOf, Committed, ToldOn
<1> DEFINE x == Committed(slot, s, out)[i]
           intent == out.intents[i]
<1>1. x.event = intent.event /\ x.detection = intent.detection
  BY DEF Committed
<1>2. /\ intent.detection = n /\ intent.event <= n
      /\ intent.event # n => intent.event \in seen \cup OwnTimes(rt, s, slot.ordinal)
  BY AcceptedDates
<1> HIDE DEF x, intent
<1>3. intent.event \in Nat
  BY <1>2
<1> QED BY <1>1, <1>2, <1>3 DEF KnownEvent, x

\* The values of a joined log.
LEMMA JoinedAre ==
    ASSUME NEW a, a \in Seq(ValuesOf(a)), NEW b, b \in Seq(ValuesOf(b))
    PROVE  ValuesOf(a \o b) \subseteq ValuesOf(a) \cup ValuesOf(b)
<1> DEFINE A == ValuesOf(a)
           B == ValuesOf(b)
<1>1. a \in Seq(A) /\ b \in Seq(B)
  OBVIOUS
<1>2. \A i \in DOMAIN (a \o b) : (a \o b)[i] \in A \cup B
  <2> HIDE DEF A, B
  <2>1. a \in Seq(A \cup B) /\ b \in Seq(A \cup B)
    BY <1>1
  <2> QED BY <2>1
<1> QED BY <1>2 DEF ValuesOf

\* The entries a bar adds to the log.
NewOf(rt, m, bar) == (Told3(rt, 1, m, bar) \o Told3(rt, 2, m, bar)) \o Told3(rt, 3, m, bar)

\* An entry of a slot is one its detector has just made.
SaidBy(told, s, out) == \A x \in ValuesOf(told) : x.slot = s => out.intents # <<>>

LEMMA CommittedSaid ==
    ASSUME NEW slot, NEW out, NEW s, NEW x \in ValuesOf(Committed(slot, s, out))
    PROVE  x.slot = s /\ out.intents # <<>>
<1> DEFINE told == Committed(slot, s, out)
<1>1. PICK i \in DOMAIN told : x = told[i]
  BY DEF ValuesOf
<1>2. DOMAIN told = DOMAIN out.intents
  BY DEF Committed
<1>3. told[i].slot = s
  BY <1>1, <1>2 DEF Committed
<1>4. DOMAIN <<>> = {}
  OBVIOUS
<1> HIDE DEF told
<1>5. out.intents # <<>>
  BY <1>1, <1>2, <1>4
<1> QED BY <1>1, <1>3, <1>5

LEMMA StepKnown ==
    ASSUME NEW n \in Nat \ {0}, NEW rt, RuntimeTypes(rt, n - 1), KnownBy(rt, n - 1),
           NEW m, m.bars = n, NEW bar, Publishes(m, bar), ThresholdsDescend
    PROVE  /\ StepOf(rt, m, bar).log = rt.log \o NewOf(rt, m, bar)
           /\ NewOf(rt, m, bar) \in Seq(ValuesOf(NewOf(rt, m, bar)))
           /\ ToldOn(NewOf(rt, m, bar), n)
           /\ SaidBy(NewOf(rt, m, bar), Continuation, Out(rt, Continuation, m, bar))
           /\ KnownBy(StepOf(rt, m, bar), n)
<1> DEFINE new == StepOf(rt, m, bar)
           T(s) == Told3(rt, s, m, bar)
           told == NewOf(rt, m, bar)
           seen == rt.seen \cup EventsOf(m)
           refs == rt.refs \cup RefsIn(m)
<1>1. /\ Steps(rt, new, m, bar) /\ \A s \in 1..3 : T(s) \in Seq(ValuesOf(T(s)))
      /\ AllAccepted(rt, m, bar)
  BY RuntimeCommits
<1>2. seen \subseteq Nat /\ \A r \in RefsIn(m) : KnownRef(r, n)
  BY PublishedKnown DEF KnownBy
<1>3. \A s, k : OwnTimes(rt, s, k) \subseteq Nat
  BY OwnTimesAre DEF OwnIn, KnownBy, KnownEvent
<1>4. ASSUME NEW s \in 1..3
      PROVE  ToldOn(T(s), n)
  <2>1. Accepted(Patterns[s], rt, s, Offer(rt, s), Out(rt, s, m, bar), seen, refs, n)
    BY <1>1 DEF AllAccepted, Accepts
  <2>2. seen \subseteq Nat /\ OwnTimes(rt, s, Offer(rt, s).ordinal) \subseteq Nat
    BY <1>2, <1>3
  <2>3. T(s) = Committed(Offer(rt, s), s, Out(rt, s, m, bar))
    BY DEF Told3
  <2>4. n \in Nat
    OBVIOUS
  <2> HIDE DEF seen, refs, T
  <2>5. ToldOn(Committed(Offer(rt, s), s, Out(rt, s, m, bar)), n)
    BY <2>1, <2>2, <2>4, CommittedKnown
  <2> QED BY <2>3, <2>5
<1>5. /\ told \in Seq(ValuesOf(told))
      /\ ValuesOf(told) \subseteq ValuesOf(T(1)) \cup ValuesOf(T(2)) \cup ValuesOf(T(3))
  <2> DEFINE t1 == T(1)
             t2 == T(2)
             t3 == T(3)
  <2>1. t1 \in Seq(ValuesOf(t1)) /\ t2 \in Seq(ValuesOf(t2)) /\ t3 \in Seq(ValuesOf(t3))
    BY <1>1
  <2>2. told = (t1 \o t2) \o t3
    BY DEF NewOf
  <2> HIDE DEF t1, t2, t3, told
  <2>3. /\ t1 \o t2 \in Seq(ValuesOf(t1 \o t2))
        /\ ValuesOf(t1 \o t2) \subseteq ValuesOf(t1) \cup ValuesOf(t2)
    BY <2>1, JoinedLogs, JoinedAre
  <2>4. /\ told \in Seq(ValuesOf(told))
        /\ ValuesOf(told) \subseteq ValuesOf(t1 \o t2) \cup ValuesOf(t3)
    BY <2>1, <2>2, <2>3, JoinedLogs, JoinedAre
  <2> QED BY <2>3, <2>4 DEF t1, t2, t3
<1>6. ToldOn(told, n)
  <2> HIDE DEF T, told
  <2> QED BY <1>4, <1>5 DEF ToldOn
<1>7. new.log = rt.log \o told /\ new.seen = seen /\ new.refs = refs
  BY <1>1 DEF Steps, NewOf
<1>11. SaidBy(told, Continuation, Out(rt, Continuation, m, bar))
  <2> DEFINE out == Out(rt, Continuation, m, bar)
  <2>1. \A x \in ValuesOf(T(1)) : out.intents # <<>>
    BY CommittedSaid DEF Told3, Continuation
  <2>2. \A x \in ValuesOf(T(2)) \cup ValuesOf(T(3)) : x.slot # 1
    BY CommittedSaid DEF Told3
  <2> HIDE DEF T, told, out
  <2>3. ASSUME NEW x \in ValuesOf(told), x.slot = 1 PROVE out.intents # <<>>
    BY <1>5, <2>1, <2>2, <2>3
  <2> QED BY <2>3 DEF SaidBy, Continuation, out
<1> HIDE DEF new, told, seen
<1>8. \A x \in ValuesOf(new.log) : KnownEvent(x, n)
  <2>1. ValuesOf(new.log) \subseteq ValuesOf(rt.log) \cup ValuesOf(told)
    BY <1>5, <1>7, JoinedAre DEF RuntimeTypes
  <2>2. \A x \in ValuesOf(rt.log) : KnownEvent(x, n)
    BY DEF KnownBy, KnownEvent
  <2> QED BY <1>6, <2>1, <2>2 DEF ToldOn
<1>9. \A r \in refs : KnownRef(r, n)
  <2>1. \A r \in rt.refs : KnownRef(r, n)
    BY DEF KnownBy, KnownRef
  <2> QED BY <1>2, <2>1
<1>10. KnownBy(new, n)
  BY <1>2, <1>7, <1>8, <1>9 DEF KnownBy
<1> QED BY <1>5, <1>6, <1>7, <1>10, <1>11 DEF new, told

-------------------------------------------------------------------------------
(* The direction a continuation commits to.                                *)

\* A context that has a direction, and the continuation slot: it has one as soon
\* as its candidate is open.
Directed(context) == "direction" \in DOMAIN context /\ context.direction \in Directions

ContinuationDirected(slot) ==
    SlotShape(slot) /\ (slot.state # "INACTIVE" => Directed(slot.context))

LEMMA OfferedDirected ==
    ASSUME NEW rt, ContinuationDirected(rt.slots[Continuation])
    PROVE  ContinuationDirected(Offer(rt, Continuation))
<1> DEFINE slot == rt.slots[Continuation]
           fresh == FreshSlot(ContinuationPattern, slot.ordinal + 1)
<1>1. Offer(rt, Continuation) \in {slot, fresh}
  BY DEF Offer, Offered, Patterns, Continuation
<1>2. fresh.state = "INACTIVE" /\ SlotShape(fresh)
  BY DEF FreshSlot, InitialState, ContinuationPattern, SlotShape
<1> HIDE DEF slot, fresh
<1> QED BY <1>1, <1>2 DEF ContinuationDirected, slot

\* What the detector observes of a bar leaves the direction of its candidate.
LEMMA ObservingDirected ==
    ASSUME NEW context, Directed(context), NEW m, NEW bar
    PROVE  /\ Directed(Observing(context, m, bar))
           /\ \A x : Directed([Observing(context, m, bar) EXCEPT !.reclaimed = x])
<1> DEFINE new == Observing(context, m, bar)
<1>1. DOMAIN new = DOMAIN context /\ new.direction = context.direction
  BY DEF Observing, Directed
<1> HIDE DEF new
<1>2. Directed(new)
  BY <1>1 DEF Directed
<1>3. ASSUME NEW x PROVE Directed([new EXCEPT !.reclaimed = x])
  BY <1>2 DEF Directed
<1> QED BY <1>2, <1>3 DEF new

\* What the detector returns is directed once it has said anything.
LEMMA ContinuationDirects ==
    ASSUME NEW slot, ContinuationDirected(slot), NEW m, m.legs.active \in Optional(LegType), NEW bar,
           \/ ContinuationOutput(slot, m, bar).intents # <<>>
           \/ ContinuationOutput(slot, m, bar).state # "INACTIVE"
    PROVE  Directed(ContinuationOutput(slot, m, bar).context)
<1> DEFINE out == ContinuationOutput(slot, m, bar)
<1>1. out = CASE slot.state = "INACTIVE" -> ContinuationOpens(slot, m, bar)
              [] slot.state \in {"CANDIDATE", "RECLAIMED"} -> ContinuationAdvances(slot, m, bar)
              [] OTHER -> Unmoved(slot, slot.context)
  BY DEF ContinuationOutput
<1>2. out.intents # <<>> \/ out.state # "INACTIVE"
  OBVIOUS
<1>3. \A intents, context : Moved(slot, intents, context).context = context
  BY DEF Moved
<1>4. \A context : /\ Unmoved(slot, context).context = context
                   /\ Unmoved(slot, context).intents = <<>>
                   /\ Unmoved(slot, context).state = slot.state
  BY DEF Unmoved
<1> HIDE DEF out
<1>5. CASE slot.state = "INACTIVE"
  <2> DEFINE leg == The(Eligible(m))
             cross == Crosses(m, Opposed(leg.direction))
             none == \/ Eligible(m) = {}
                     \/ cross = {}
                     \/ \E x \in Sides : m.structure.latest[x] = {}
             intents == <<Observes(slot, ContinuationPattern, "INACTIVE", "opposing_ema_cross",
                                   m.bars, m, cross)>>
             context ==
               [direction |-> leg.direction, leg |-> leg.index, started |-> m.bars,
                best |-> leg.extreme,
                continuation |-> The(m.structure.latest[Forward(leg.direction)]).swing,
                protected |-> The(m.structure.latest[Backward(leg.direction)]).swing,
                depth |-> Depth(leg.direction, leg.extreme, bar), ema |-> m.ema.value,
                prior |-> {}, reclaimed |-> {}, reactions |-> 0]
  <2>1. out = IF none THEN Unmoved(slot, slot.context) ELSE Moved(slot, intents, context)
    BY <1>1, <1>5 DEF ContinuationOpens
  <2>2. DOMAIN context = {"direction", "leg", "started", "best", "continuation", "protected",
                          "depth", "ema", "prior", "reclaimed", "reactions"}
        /\ context.direction = leg.direction
    OBVIOUS
  <2>3. Eligible(m) # {} => leg.direction \in Directions
    <3>1. Eligible(m) \subseteq m.legs.active
      BY DEF Eligible
    <3> SUFFICES ASSUME Eligible(m) # {} PROVE leg.direction \in Directions
      OBVIOUS
    <3>2. PICK x \in LegType : m.legs.active = {x}
      BY <3>1 DEF Optional
    <3>3. Eligible(m) = {x}
      BY <3>1, <3>2
    <3>4. leg = x
      BY <3>3, TheOne
    <3> QED BY <3>4 DEF LegType
  <2> HIDE DEF context, intents, leg, cross
  <2>4. ~none
    <3> HIDE DEF none
    <3>1. CASE none
      <4>1. out.intents = <<>> /\ out.state = "INACTIVE"
        BY <1>4, <1>5, <2>1, <3>1
      <4> QED BY <1>2, <4>1
    <3> QED BY <3>1
  <2>5. out.context = context
    <3> HIDE DEF none
    <3> QED BY <1>3, <2>1, <2>4
  <2>6. Directed(context)
    BY <2>2, <2>3, <2>4 DEF Directed
  <2> QED BY <2>5, <2>6 DEF out
<1>6. CASE slot.state \in {"CANDIDATE", "RECLAIMED"}
  <2> DEFINE context == Observing(slot.context, m, bar)
             refuted == BreakOf(m, context.protected)
             broken == BreakOf(m, context.continuation)
             reclaim == IF slot.state = "CANDIDATE" THEN Crosses(m, context.direction) ELSE {}
             aged == Aged(m, context.started)
             after == IF reclaim = {} THEN context ELSE [context EXCEPT !.reclaimed = {m.bars}]
             reclaiming == IF reclaim = {} THEN <<>>
                           ELSE <<Observes(slot, ContinuationPattern, "CANDIDATE", "ema_reclaim",
                                           m.bars, m, reclaim)>>
             from == IF reclaim = {} THEN slot.state ELSE "RECLAIMED"
             Deciding(trigger, cited) == Observes(slot, ContinuationPattern, from, trigger, m.bars,
                                                  m, cited)
             Ending(trigger, cited) == Moved(slot, Append(reclaiming, Deciding(trigger, cited)), after)
             refuting == <<Observes(slot, ContinuationPattern, slot.state, "protected_swing_break",
                                    m.bars, m, refuted)>>
  <2>1. out = CASE refuted # {} -> Moved(slot, refuting, context)
                [] refuted = {} /\ from = "RECLAIMED" /\ broken # {} ->
                     Ending("continuation_break", broken)
                [] refuted = {} /\ ~(from = "RECLAIMED" /\ broken # {}) /\ aged ->
                     Ending("candidate_age_limit", {})
                [] OTHER -> IF reclaim = {} THEN Unmoved(slot, after)
                            ELSE Moved(slot, reclaiming, after)
    BY <1>1, <1>6 DEF ContinuationAdvances
  <2>2. Directed(context) /\ Directed(after)
    <3>1. Directed(slot.context)
      BY <1>6 DEF ContinuationDirected
    <3>2. Directed(context) /\ \A x : Directed([context EXCEPT !.reclaimed = x])
      BY <3>1, ObservingDirected
    <3> HIDE DEF context, reclaim
    <3> QED BY <3>2
  <2>3. \A trigger, cited : Ending(trigger, cited).context = after
    BY <1>3
  <2> HIDE DEF context, after, refuted, broken, reclaim, reclaiming, aged, from, Ending, refuting
  <2>4. out.context \in {context, after}
    BY <1>3, <1>4, <2>1, <2>3
  <2> QED BY <2>2, <2>4 DEF out
<1>7. CASE slot.state \notin {"INACTIVE", "CANDIDATE", "RECLAIMED"}
  <2>1. out.context = slot.context
    BY <1>1, <1>4, <1>7
  <2> QED BY <1>7, <2>1 DEF ContinuationDirected, out
<1> QED BY <1>5, <1>6, <1>7

LEMMA StepDirects ==
    ASSUME NEW n \in Nat \ {0}, NEW rt, RuntimeTypes(rt, n - 1), NEW m, MarketTypes(m), m.bars = n,
           NEW bar, Publishes(m, bar), ThresholdsDescend, ContinuationDirected(rt.slots[Continuation])
    PROVE  /\ ContinuationDirected(StepOf(rt, m, bar).slots[Continuation])
           /\ Out(rt, Continuation, m, bar).intents # <<>> =>
                Directed(StepOf(rt, m, bar).slots[Continuation].context)
<1> DEFINE slot == Offer(rt, Continuation)
           out == Out(rt, Continuation, m, bar)
           new == StepOf(rt, m, bar).slots[Continuation]
<1>1. ContinuationDirected(slot)
  BY OfferedDirected
<1>2. out = ContinuationOutput(slot, m, bar)
  BY DEF Out, Output, Continuation, Reversal, Compression
<1>3. new = Commit(slot, out)
  <2>1. Steps(rt, StepOf(rt, m, bar), m, bar)
    BY RuntimeCommits
  <2>2. Continuation \in 1..3
    BY DEF Continuation
  <2> QED BY <2>1, <2>2 DEF Steps
<1> HIDE DEF slot, out, new
<1>4. SlotShape(new) /\ new.state = out.state /\ new.context = out.context
  <2>1. new = [ordinal |-> slot.ordinal, state |-> out.state,
               next |-> slot.next + Len(out.intents), context |-> out.context]
    BY <1>1, <1>3, CommitIs DEF ContinuationDirected
  <2> QED BY <2>1 DEF SlotShape
<1>5. m.legs.active \in Optional(LegType)
  BY DEF MarketTypes, LegTypes
<1>6. out.intents # <<>> \/ out.state # "INACTIVE" => Directed(out.context)
  BY <1>1, <1>2, <1>5, ContinuationDirects
<1> QED BY <1>4, <1>6 DEF ContinuationDirected, new, out

-------------------------------------------------------------------------------
(* What is frozen of an event.                                             *)

\* As far as a threshold needs it: the close of the bar the event was detected
\* on, at most one average and at most one direction.
Snapped(taken, e, series) ==
    /\ e.detection \in DOMAIN series
    /\ taken.close = series[e.detection].close
    /\ taken.atr = {} \/ \E v \in Nat : taken.atr = {v}
    /\ taken.direction = {} \/ \E v \in Directions : taken.direction = {v}

Fits(taken, e, series) == Observable(taken, e) /\ Snapped(taken, e, series)

\* There is one snapshot of each event, and it holds no time after the event.
Frozen(taken, log, series) ==
    /\ taken \in Seq(ValuesOf(taken))
    /\ Len(taken) = Len(log)
    /\ \A i \in 1..Len(log) : Fits(taken[i], log[i], series)

CapturingInv ==
    /\ MarketInv
    /\ KnownBy(runtime, Len(bars))
    /\ ContinuationDirected(runtime.slots[Continuation])
    /\ Frozen(snapshots, runtime.log, bars)

\* The snapshots of the events of one bar.
CapturedOf(log, told, m, bar, slots) ==
    [i \in 1..Len(told) |->
       CaptureValues(log[Len(log) - Len(told) + i], m, bar, slots[log[Len(log) - Len(told) + i].slot])]

\* A snapshot of an event detected on its bar.
LEMMA CaptureObservable ==
    ASSUME NEW m, m.bars \in Nat, NEW bar, Publishes(m, bar), NEW close, NEW slot, NEW e,
           KnownEvent(e, m.bars), e.detection = m.bars
    PROVE  Observable(CaptureValues(e, m, close, slot), e)
<1>1. CaptureValues(e, m, close, slot).times = {e.event} \cup EventsOf(m)
  BY DEF CaptureValues, EventsOf
<1>2. \A t \in EventsOf(m) : t <= m.bars
  BY PublishedKnown
<1> QED BY <1>1, <1>2 DEF Observable, KnownEvent

\* The bar it was detected on, and the slot after it.
CapturedOn(e, m, close, slot, series) ==
    /\ KnownEvent(e, m.bars) /\ e.detection = m.bars
    /\ m.bars \in DOMAIN series /\ close = series[m.bars]
    /\ e.slot = Continuation => Directed(slot.context)

LEMMA CaptureFits ==
    ASSUME NEW m, MarketTypes(m), NEW bar, Publishes(m, bar), NEW close, NEW slot, NEW e,
           NEW series, CapturedOn(e, m, close, slot, series)
    PROVE  Fits(CaptureValues(e, m, close, slot), e, series)
<1> DEFINE taken == CaptureValues(e, m, close, slot)
<1>1. Observable(taken, e)
  BY CaptureObservable DEF CapturedOn, MarketTypes
<1>2. /\ taken.close = close.close /\ taken.atr = m.atr.value
      /\ taken.direction = CapturedDirection(e.slot, slot.context)
  BY DEF CaptureValues
<1> HIDE DEF taken
<1>3. e.detection \in DOMAIN series /\ taken.close = series[e.detection].close
  BY <1>2 DEF CapturedOn
<1>4. taken.atr = {} \/ \E v \in Nat : taken.atr = {v}
  <2>1. m.atr.value \in Optional(Nat)
    BY DEF MarketTypes, AtrTypes
  <2> QED BY <1>2, <2>1 DEF Optional
<1>5. taken.direction = {} \/ \E v \in Directions : taken.direction = {v}
  <2>1. CASE e.slot = Reversal
    <3>1. taken.direction = {Opposed(slot.context.direction)}
      BY <1>2, <2>1 DEF CapturedDirection, Reversal, Continuation
    <3>2. Opposed(slot.context.direction) \in Directions
      BY DEF Opposed, Directions
    <3> QED BY <3>1, <3>2
  <2>2. CASE e.slot = Continuation
    <3>1. taken.direction = {slot.context.direction}
      BY <1>2, <2>2 DEF CapturedDirection, Reversal, Continuation
    <3>2. slot.context.direction \in Directions
      BY <2>2 DEF CapturedOn, Directed
    <3> QED BY <3>1, <3>2
  <2>3. CASE e.slot # Reversal /\ e.slot # Continuation
    BY <1>2, <2>3 DEF CapturedDirection
  <2> QED BY <2>1, <2>2, <2>3
<1>6. Snapped(taken, e, series)
  BY <1>3, <1>4, <1>5 DEF Snapped
<1> QED BY <1>1, <1>6 DEF Fits, taken

\* Joined sequences, at the places of each.
Joins(c, a, b) ==
    /\ Len(c) = Len(a) + Len(b) /\ Len(a) \in Nat /\ Len(b) \in Nat
    /\ \A i \in 1..Len(a) : c[i] = a[i]
    /\ \A i \in 1..Len(b) : c[Len(a) + i] = b[i] /\ b[i] \in ValuesOf(b)

LEMMA JoinedAt ==
    ASSUME NEW a, a \in Seq(ValuesOf(a)), NEW b, b \in Seq(ValuesOf(b))
    PROVE  Joins(a \o b, a, b)
<1> DEFINE A == ValuesOf(a)
           B == ValuesOf(b)
<1>1. a \in Seq(A) /\ b \in Seq(B)
  OBVIOUS
<1> HIDE DEF A, B
<1>2. /\ Len(a \o b) = Len(a) + Len(b) /\ Len(a) \in Nat /\ Len(b) \in Nat
      /\ \A i \in 1..Len(a) : (a \o b)[i] = a[i]
      /\ \A i \in 1..Len(b) : (a \o b)[Len(a) + i] = b[i] /\ b[i] \in B
  BY <1>1
<1> QED BY <1>2 DEF B, Joins

LEMMA IndexedIsSeq ==
    ASSUME NEW k \in Nat, NEW f, f = [i \in 1..k |-> f[i]]
    PROVE  f \in Seq(ValuesOf(f)) /\ Len(f) = k
<1>1. DOMAIN f = 1..k
  OBVIOUS
<1>2. \A i \in 1..k : f[i] \in ValuesOf(f)
  BY <1>1 DEF ValuesOf
<1>3. f \in Seq(ValuesOf(f))
  BY <1>2
<1> QED BY <1>1, <1>3

Captures(told, m, close, slots, series) ==
    \A i \in 1..Len(told) : Fits(CaptureValues(told[i], m, close, slots[told[i].slot]), told[i], series)

Preserves(old, series) == \A x, e : Fits(x, e, old) => Fits(x, e, series)

LEMMA FrozenGrows ==
    ASSUME NEW m, NEW close, NEW slots, NEW old, NEW series, Preserves(old, series),
           NEW taken, NEW log, NEW told, Frozen(taken, log, old),
           log \in Seq(ValuesOf(log)), told \in Seq(ValuesOf(told)),
           Captures(told, m, close, slots, series)
    PROVE  Frozen(taken \o CapturedOf(log \o told, told, m, close, slots), log \o told, series)
<1> DEFINE all == log \o told
           more == CapturedOf(all, told, m, close, slots)
           k == Len(log)
           l == Len(told)
<1>1. /\ Len(all) = k + l /\ k \in Nat /\ l \in Nat
      /\ \A i \in 1..k : all[i] = log[i]
      /\ \A i \in 1..l : all[k + i] = told[i] /\ told[i] \in ValuesOf(told)
  BY JoinedAt DEF Joins
<1> HIDE DEF all, k, l
<1>2. more = [i \in 1..l |-> CaptureValues(all[k + i], m, close, slots[all[k + i].slot])]
  <2>1. Len(all) - l = k
    BY <1>1
  <2> QED BY <2>1 DEF CapturedOf, l
<1>3. more \in Seq(ValuesOf(more)) /\ Len(more) = l
  <2>1. more = [i \in 1..l |-> more[i]]
    BY <1>2
  <2> HIDE DEF more
  <2> QED BY <1>1, <2>1, IndexedIsSeq
<1>4. \A i \in 1..l : Fits(more[i], told[i], series)
  <2>1. ASSUME NEW i \in 1..l PROVE Fits(more[i], told[i], series)
    <3>1. all[k + i] = told[i] /\ i \in 1..Len(told)
      BY <1>1 DEF l
    <3>2. more[i] = CaptureValues(told[i], m, close, slots[told[i].slot])
      BY <1>2, <3>1
    <3> HIDE DEF more
    <3> QED BY <3>1, <3>2 DEF Captures
  <2> QED BY <2>1
<1> HIDE DEF more
<1> DEFINE both == taken \o more
<1>5. taken \in Seq(ValuesOf(taken)) /\ Len(taken) = k
      /\ \A i \in 1..k : Fits(taken[i], log[i], series)
  BY DEF Frozen, Preserves, k
<1>6. /\ Len(both) = k + l
      /\ \A i \in 1..k : both[i] = taken[i]
      /\ \A i \in 1..l : both[k + i] = more[i]
  <2>1. Joins(both, taken, more)
    BY <1>3, <1>5, JoinedAt
  <2> HIDE DEF both
  <2> QED BY <1>3, <1>5, <2>1 DEF Joins
<1>7. both \in Seq(ValuesOf(both))
  BY <1>3, <1>5, JoinedLogs
<1> HIDE DEF both
<1>8. \A i \in 1..(k + l) : Fits(both[i], all[i], series)
  <2>1. ASSUME NEW i \in 1..(k + l) PROVE Fits(both[i], all[i], series)
    <3>1. CASE i \in 1..k
      BY <1>1, <1>5, <1>6, <3>1
    <3>2. CASE i \notin 1..k
      <4>1. i - k \in 1..l /\ k + (i - k) = i
        BY <1>1, <3>2
      <4> QED BY <1>1, <1>4, <1>6, <4>1
    <3> QED BY <3>1, <3>2
  <2> QED BY <2>1
<1>9. Frozen(both, all, series)
  BY <1>1, <1>6, <1>7, <1>8 DEF Frozen
<1> QED BY <1>9 DEF both, more, all

LEMMA CapturingBegins == CapturingInit => CapturingInv
<1> SUFFICES ASSUME CapturingInit PROVE CapturingInv
  OBVIOUS
<1>1. MarketInv
  BY InitHolds DEF CapturingInit
<1>2. runtime.seen = {} /\ runtime.refs = {} /\ runtime.log = <<>> /\ snapshots = <<>>
  BY DEF CapturingInit, Init, FreshRuntime
<1>3. Len(bars) = 0
  BY DEF CapturingInit, Init
<1>4. KnownBy(runtime, 0)
  BY <1>2 DEF KnownBy, ValuesOf
<1>5. snapshots \in Seq(ValuesOf(snapshots)) /\ Len(snapshots) = 0 /\ Len(runtime.log) = 0
  BY <1>2
<1>6. Frozen(snapshots, runtime.log, bars)
  BY <1>5 DEF Frozen
<1>7. ContinuationDirected(runtime.slots[Continuation])
  <2>1. DOMAIN Patterns = 1..3 /\ Patterns[1] = ContinuationPattern
    BY DEF Patterns
  <2>2. runtime.slots[1] = FreshSlot(ContinuationPattern, 0)
    BY <2>1 DEF CapturingInit, Init, FreshRuntime
  <2>3. runtime.slots[1].state = "INACTIVE" /\ SlotShape(runtime.slots[1])
    BY <2>2 DEF FreshSlot, InitialState, ContinuationPattern, SlotShape
  <2> QED BY <2>3 DEF ContinuationDirected, Continuation
<1> QED BY <1>1, <1>3, <1>4, <1>6, <1>7 DEF CapturingInv

LEMMA CapturingKeeps ==
    ThresholdsDescend /\ CapturingInv /\ [CapturingNext]_<<vars, snapshots>> => CapturingInv'
<1> SUFFICES ASSUME ThresholdsDescend, CapturingInv, [CapturingNext]_<<vars, snapshots>>
             PROVE  CapturingInv'
  OBVIOUS
<1>1. CASE UNCHANGED <<vars, snapshots>>
  BY <1>1 DEF vars, CapturingInv, MarketInv
<1>2. CASE CapturingNext
  <2>1. PICK bar \in Bar : Consumes(bar)
    BY <1>2, NextConsumes DEF CapturingNext, CapturingInv
  <2>2. MarketInv'
    BY <2>1, ConsumeKeeps DEF CapturingInv
  <2> DEFINE n == Len(bars) + 1
             told == NewOf(runtime, market', bar)
             log == runtime.log
             m == market'
  <2>3. n \in Nat \ {0} /\ n - 1 = Len(bars) /\ m.bars = n /\ Len(bars') = n
    BY <2>1 DEF CapturingInv, MarketInv, Consumes, Advanced
  <2>4. Publishes(m, bar) /\ runtime' = StepOf(runtime, m, bar)
    BY <2>1 DEF Consumes
  <2>5. RuntimeTypes(runtime, n - 1) /\ KnownBy(runtime, n - 1)
        /\ Frozen(snapshots, log, bars) /\ log \in Seq(ValuesOf(log))
        /\ ContinuationDirected(runtime.slots[Continuation])
    BY <2>3 DEF CapturingInv, MarketInv, RuntimeTypes
  <2>6. /\ runtime'.log = log \o told
        /\ told \in Seq(ValuesOf(told)) /\ ToldOn(told, n)
        /\ KnownBy(runtime', n)
        /\ SaidBy(told, Continuation, Out(runtime, Continuation, m, bar))
    <3> HIDE DEF n, m
    <3> QED BY <2>3, <2>4, <2>5, StepKnown DEF m
  <2>9. /\ ContinuationDirected(runtime'.slots[Continuation])
        /\ Out(runtime, Continuation, m, bar).intents # <<>> =>
             Directed(runtime'.slots[Continuation].context)
    <3>1. MarketTypes(m)
      BY <2>1 DEF Consumes
    <3> HIDE DEF n, m
    <3> QED BY <2>3, <2>4, <2>5, <3>1, StepDirects
  <2> HIDE DEF n, told, log
  <2>7. snapshots' = snapshots \o CapturedOf(log \o told, told, m, bars'[Len(bars')], runtime'.slots)
    <3>1. Len(log \o told) = Len(log) + Len(told) /\ Len(log) \in Nat /\ Len(told) \in Nat
      BY <2>5, <2>6, JoinedAt DEF Frozen, Joins
    <3>2. Len(runtime'.log) - Len(log) = Len(told) /\ Len(log \o told) - Len(told) = Len(log)
      BY <2>6, <3>1
    <3>3. snapshots' = snapshots \o
            [i \in 1 .. Len(runtime'.log) - Len(log) |->
               CaptureValues(runtime'.log[Len(log) + i], m, bars'[Len(bars')],
                             runtime'.slots[runtime'.log[Len(log) + i].slot])]
      BY <1>2 DEF CapturingNext, log
    <3> QED BY <2>6, <3>2, <3>3 DEF CapturedOf
  <2>8. Frozen(snapshots', runtime'.log, bars')
    <3> DEFINE close == bars'[Len(bars')]
    <3>1. bars \in Seq(Bar) /\ bars' = Append(bars, bar) /\ n \in DOMAIN bars' /\ close = bars'[n]
      BY <2>1, <2>3 DEF CapturingInv, MarketInv, Consumes, n
    <3>2. Preserves(bars, bars')
      <4>1. \A j \in DOMAIN bars : j \in DOMAIN bars' /\ bars'[j] = bars[j]
        BY <3>1
      <4> QED BY <4>1 DEF Preserves, Fits, Snapped
    <3>3. Captures(told, m, close, runtime'.slots, bars')
      <4> SUFFICES ASSUME NEW i \in 1..Len(told)
                   PROVE  Fits(CaptureValues(told[i], m, close, runtime'.slots[told[i].slot]),
                               told[i], bars')
        BY DEF Captures
      <4> DEFINE e == told[i]
                 slot == runtime'.slots[e.slot]
      <4>1. e \in ValuesOf(told)
        BY <2>6
      <4>2. KnownEvent(e, n) /\ e.detection = n
        BY <2>6, <4>1 DEF ToldOn
      <4>3. e.slot = Continuation => Directed(slot.context)
        BY <2>6, <2>9, <4>1 DEF SaidBy
      <4>4. MarketTypes(m)
        BY <2>1 DEF Consumes
      <4> HIDE DEF m, e, slot, close
      <4>5. CapturedOn(e, m, close, slot, bars')
        BY <2>3, <3>1, <4>2, <4>3 DEF CapturedOn
      <4>6. Fits(CaptureValues(e, m, close, slot), e, bars')
        BY <2>4, <4>4, <4>5, CaptureFits
      <4> QED BY <4>6 DEF e, slot
    <3> HIDE DEF m, close
    <3>4. Frozen(snapshots \o CapturedOf(log \o told, told, m, close, runtime'.slots), log \o told, bars')
      BY <2>5, <2>6, <3>2, <3>3, FrozenGrows
    <3> QED BY <2>6, <2>7, <3>4 DEF close
  <2> QED BY <2>2, <2>3, <2>6, <2>8, <2>9 DEF CapturingInv
<1> QED BY <1>1, <1>2

-------------------------------------------------------------------------------
(* Windows.                                                                *)

\* A minute belongs to one day.
LEMMA DayOfMinute ==
    ASSUME NEW D \in Nat \ {0}, NEW a \in Int
    PROVE  a \div D \in Int /\ D * (a \div D) <= a /\ a < D * (a \div D) + D
OBVIOUS

LEMMA Multiples ==
    ASSUME NEW D \in Nat \ {0}, NEW p \in Int, NEW q \in Int, p + 1 <= q
    PROVE  D * p \in Int /\ D * q \in Int /\ D * p + D <= D * q
OBVIOUS

LEMMA DayIsUnique ==
    ASSUME NEW D \in Nat \ {0}, NEW a \in Int, NEW q \in Int, D * q <= a, a < D * q + D
    PROVE  a \div D = q
<1> DEFINE p == a \div D
<1>1. p \in Int /\ D * p <= a /\ a < D * p + D
  BY DayOfMinute
<1> HIDE DEF p
<1>2. D * p \in Int /\ D * q \in Int
  BY <1>1
<1>3. CASE p + 1 <= q
  <2>1. D * p + D <= D * q
    BY <1>1, <1>3, Multiples
  <2> QED BY <1>1, <1>2, <2>1
<1>4. CASE q + 1 <= p
  <2>1. D * q + D <= D * p
    BY <1>1, <1>4, Multiples
  <2> QED BY <1>1, <1>2, <2>1
<1>5. CASE p = q
  BY <1>5 DEF p
<1> QED BY <1>1, <1>3, <1>4, <1>5

\* A later minute is of the same day exactly when it comes before the day's end.
LEMMA SameDay ==
    ASSUME NEW D \in Nat \ {0}, NEW m \in Int, NEW h \in Nat
    PROVE  (m + h) \div D = m \div D <=> m + h < D * (m \div D + 1)
<1> DEFINE q == m \div D
           p == (m + h) \div D
<1>1. q \in Int /\ D * q <= m /\ m < D * q + D
  BY DayOfMinute
<1>2. p \in Int /\ D * p <= m + h /\ m + h < D * p + D
  BY DayOfMinute
<1> HIDE DEF q
<1>3. ASSUME D * q <= m + h, m + h < D * q + D PROVE p = q
  <2>1. m + h \in Int
    OBVIOUS
  <2>2. (m + h) \div D = q
    BY <1>1, <1>3, <2>1, DayIsUnique
  <2> QED BY <2>2
<1> HIDE DEF p
<1>4. D * q \in Int /\ D * (q + 1) = D * q + D
  BY <1>1
<1>5. p = q <=> m + h < D * (q + 1)
  BY <1>1, <1>2, <1>3, <1>4
<1> QED BY <1>5 DEF p, q

LEMMA MinutesAreNat == MissingMinute \in Nat /\ DayMinutes \in Nat \ {0}
BY OutcomeAssumption

\* Every minute but the one the source lacks has a bar, and bars come in order.
LEMMA MinuteTyped ==
    ASSUME NEW i \in Int PROVE MinuteOf(i) \in Int /\ MinuteOf(i) # MissingMinute
BY MinutesAreNat DEF MinuteOf

LEMMA MinutesInOrder ==
    ASSUME NEW i \in Int, NEW j \in Int PROVE i < j <=> MinuteOf(i) < MinuteOf(j)
BY MinutesAreNat DEF MinuteOf

BarAt(x) == IF x < MissingMinute THEN x + 1 ELSE x

LEMMA BarOfMinute ==
    ASSUME NEW x \in Int, x # MissingMinute PROVE BarAt(x) \in Int /\ MinuteOf(BarAt(x)) = x
BY MinutesAreNat DEF MinuteOf, BarAt

\* The minutes a window of h minutes after bar at expects.
AtOf(e, d) == IF Retrospective(d) THEN e.event ELSE e.detection
EndOf(at, h) ==
    Max({MinuteOf(at) + 1,
         Min({DayMinutes * (MinuteOf(at) \div DayMinutes + 1), MinuteOf(at) + 1 + h})})
Expected(at, h) == MinuteOf(at) + 1 .. EndOf(at, h) - 1
Bounded(at, h, k) == {j \in 1..k : MinuteOf(j) \in Expected(at, h)}
Lacks(at, h, k) ==
    \/ Cardinality(Expected(at, h)) # h
    \/ {MinuteOf(j) : j \in Bounded(at, h, k)} # Expected(at, h)

\* The window has all its minutes, in one day and none of them missing.
WholeWindow(at, h) ==
    /\ MinuteOf(at + h) = MinuteOf(at) + h
    /\ (MinuteOf(at) + h) \div DayMinutes = MinuteOf(at) \div DayMinutes

LEMMA WindowIs ==
    ASSUME NEW e, NEW d
    PROVE  Window(e, d) = [reference |-> MinuteOf(AtOf(e, d)) + 1, end |-> EndOf(AtOf(e, d), d.horizon)]
BY DEF Window, AtOf, EndOf

LEMMA EndIs ==
    ASSUME NEW at \in Nat, NEW h \in Nat \ {0}
    PROVE  /\ EndOf(at, h) \in Int /\ MinuteOf(at) \in Int
           /\ MinuteOf(at) + 1 <= EndOf(at, h) /\ EndOf(at, h) <= MinuteOf(at) + 1 + h
           /\ EndOf(at, h) = MinuteOf(at) + 1 + h <=>
                (MinuteOf(at) + h) \div DayMinutes = MinuteOf(at) \div DayMinutes
<1> DEFINE m == MinuteOf(at)
           D == DayMinutes
           dayEnd == D * (m \div D + 1)
<1>1. m \in Int /\ D \in Nat \ {0}
  <2>1. at \in Int
    OBVIOUS
  <2> QED BY <2>1, MinuteTyped, MinutesAreNat
<1> HIDE DEF m, D
<1>2. m \div D \in Int /\ D * (m \div D) <= m /\ m < D * (m \div D) + D
  BY <1>1, DayOfMinute
<1>3. dayEnd \in Int /\ m + 1 <= dayEnd
  BY <1>1, <1>2
<1>4. (m + h) \div D = m \div D <=> m + h < dayEnd
  BY <1>1, SameDay
<1> HIDE DEF dayEnd
<1> DEFINE least == Min({dayEnd, m + 1 + h})
<1>5. least = (IF dayEnd <= m + 1 + h THEN dayEnd ELSE m + 1 + h)
  BY <1>1, <1>3, MinOfTwo
<1>6. least \in Int /\ m + 1 <= least /\ least <= m + 1 + h
      /\ (least = m + 1 + h <=> m + h < dayEnd)
  BY <1>1, <1>3, <1>5
<1> HIDE DEF least
<1>7. Max({m + 1, least}) = least
  BY <1>1, <1>6, MaxOfTwo
<1>8. EndOf(at, h) = least
  BY <1>7 DEF EndOf, least, dayEnd, m, D
<1> QED BY <1>1, <1>4, <1>6, <1>8 DEF m, D

LEMMA ExpectedCount ==
    ASSUME NEW at \in Nat, NEW h \in Nat \ {0}
    PROVE  Cardinality(Expected(at, h)) = h <=>
             (MinuteOf(at) + h) \div DayMinutes = MinuteOf(at) \div DayMinutes
<1> DEFINE m == MinuteOf(at)
           end == EndOf(at, h)
           same == (m + h) \div DayMinutes = m \div DayMinutes
<1>1. end \in Int /\ m \in Int /\ m + 1 <= end /\ (end = m + 1 + h <=> same)
  BY EndIs
<1>2. Expected(at, h) = m + 1 .. end - 1
  BY DEF Expected
<1> HIDE DEF m, end, same
<1>3. m + 1 \in Int /\ end - 1 \in Int
  BY <1>1
<1>4. Cardinality(m + 1 .. end - 1) = IF m + 1 > end - 1 THEN 0 ELSE (end - 1) - (m + 1) + 1
  BY <1>3, FS_Interval
<1>5. Cardinality(m + 1 .. end - 1) = end - 1 - m
  BY <1>1, <1>4
<1>6. end - 1 - m = h <=> end = m + 1 + h
  BY <1>1
<1>7. Cardinality(Expected(at, h)) = h <=> same
  BY <1>1, <1>2, <1>5, <1>6
<1> QED BY <1>7 DEF same, m

\* The missing minute is one of the next h exactly when they take h + 1 minutes.
LEMMA MissingBetween ==
    ASSUME NEW at \in Nat, NEW h \in Nat \ {0}
    PROVE  MinuteOf(at + h) = MinuteOf(at) + h <=> MissingMinute \notin MinuteOf(at) + 1 .. MinuteOf(at) + h
BY MinutesAreNat DEF MinuteOf

\* A window lacks something unless it is whole and its last bar has come.
LEMMA LacksIs ==
    ASSUME NEW at \in Nat, NEW h \in Nat \ {0}, NEW k \in Nat
    PROVE  /\ Lacks(at, h, k) <=> ~(WholeWindow(at, h) /\ k >= at + h)
           /\ ~Lacks(at, h, k) => Bounded(at, h, k) = at + 1 .. at + h
<1> DEFINE m == MinuteOf(at)
           last == at + h
           same == (m + h) \div DayMinutes = m \div DayMinutes
           whole == MinuteOf(last) = m + h
           minutes == {MinuteOf(j) : j \in Bounded(at, h, k)}
<1>1. /\ EndOf(at, h) \in Int /\ m \in Int
      /\ EndOf(at, h) = m + 1 + h <=> same
  BY EndIs
<1>2. Cardinality(Expected(at, h)) = h <=> same
  BY ExpectedCount
<1>3. whole <=> MissingMinute \notin m + 1 .. m + h
  BY MissingBetween
<1>4. WholeWindow(at, h) <=> whole /\ same
  BY DEF WholeWindow
<1>5. Lacks(at, h, k) <=> ~same \/ minutes # Expected(at, h)
  BY <1>2 DEF Lacks
<1>6. last \in Int /\ at \in Int /\ h \in Int /\ k \in Int /\ at < last /\ MissingMinute \in Int
  BY MinutesAreNat
<1>7. \A j \in Int : MinuteOf(j) \in Int /\ MinuteOf(j) # MissingMinute
                     /\ (at < j <=> m < MinuteOf(j)) /\ (last < j <=> MinuteOf(last) < MinuteOf(j))
  BY <1>6, MinuteTyped, MinutesInOrder
<1> HIDE DEF m, same, whole
<1>8. CASE ~same
  BY <1>4, <1>5, <1>8
<1>9. CASE same /\ ~whole
  <2>1. Expected(at, h) = m + 1 .. m + h
    BY <1>1, <1>9 DEF Expected, m
  <2>2. MissingMinute \in Expected(at, h)
    BY <1>3, <1>9, <2>1
  <2>3. MissingMinute \notin minutes
    BY <1>6, <1>7 DEF Bounded
  <2> QED BY <1>4, <1>5, <1>9, <2>2, <2>3
<1>10. CASE same /\ whole
  <2>1. Expected(at, h) = m + 1 .. m + h
    BY <1>1, <1>10 DEF Expected, m
  <2>2. MinuteOf(last) = m + h
    BY <1>10 DEF whole
  <2>3. \A j \in Int : MinuteOf(j) \in Expected(at, h) <=> j \in at + 1 .. last
    <3>1. ASSUME NEW j \in Int PROVE MinuteOf(j) \in Expected(at, h) <=> j \in at + 1 .. last
      <4>1. /\ MinuteOf(j) \in Int /\ (at < j <=> m < MinuteOf(j))
            /\ (last < j <=> m + h < MinuteOf(j))
        BY <1>7, <2>2
      <4> HIDE DEF last
      <4> QED BY <1>1, <1>6, <2>1, <4>1
    <3> QED BY <3>1
  <2>4. CASE k >= last
    <3>1. Bounded(at, h, k) = at + 1 .. last
      <4>1. \A j : j \in 1..k /\ MinuteOf(j) \in Expected(at, h) <=> j \in at + 1 .. last
        BY <1>6, <2>3, <2>4
      <4> QED BY <4>1 DEF Bounded
    <3>2. Expected(at, h) \subseteq minutes
      <4>1. ASSUME NEW x \in Expected(at, h) PROVE x \in minutes
        <5>1. x \in Int /\ x # MissingMinute
          BY <1>1, <1>3, <1>6, <1>10, <2>1, <4>1
        <5>2. BarAt(x) \in Int /\ MinuteOf(BarAt(x)) = x
          BY <5>1, BarOfMinute
        <5>3. BarAt(x) \in Bounded(at, h, k)
          BY <2>3, <3>1, <4>1, <5>2
        <5> QED BY <5>2, <5>3
      <4> QED BY <4>1
    <3>3. minutes \subseteq Expected(at, h)
      BY DEF Bounded
    <3>4. ~Lacks(at, h, k)
      BY <1>5, <1>10, <3>2, <3>3
    <3> QED BY <1>4, <1>10, <2>4, <3>1, <3>4
  <2>5. CASE ~(k >= last)
    <3>1. m + h \in Expected(at, h)
      BY <1>1, <1>6, <2>1
    <3>2. m + h \notin minutes
      <4>1. ASSUME NEW j \in Bounded(at, h, k) PROVE MinuteOf(j) # m + h
        <5>1. j \in Int /\ j < last
          BY <1>6, <2>5 DEF Bounded
        <5>2. MinuteOf(j) < MinuteOf(last)
          BY <1>6, <5>1, MinutesInOrder
        <5> QED BY <1>7, <2>2, <5>1, <5>2, <1>6
      <4> QED BY <4>1
    <3> QED BY <1>4, <1>5, <2>5, <3>1, <3>2
  <2> QED BY <2>4, <2>5
<1> QED BY <1>8, <1>9, <1>10

-------------------------------------------------------------------------------
(* Outcomes.                                                               *)

\* What a definition makes of the bars and the events of its window.
Outcome(d, source, events) ==
    CASE d.outcome = "TIME_TO_THRESHOLD" -> TimeToThreshold(source, d)
      [] d.outcome = "EXCURSION" -> Excursion(source, d)
      [] d.outcome = "FORWARD_RETURN" -> ForwardReturn(source, d)
      [] d.outcome = "STRUCTURAL" -> StructuralOutcome(events, d)

SourceOf(i, d, e, bounded) ==
    [snapshot |-> snapshots[i],
     price |-> IF Retrospective(d) THEN bars[e.event].close ELSE snapshots[i].close,
     bars |-> SubSeq(bars, Min(bounded), Max(bounded))]

LEMMA EvaluateIs ==
    ASSUME NEW i, NEW d, NEW k
    PROVE  Evaluate(i, d, k) =
             IF Lacks(AtOf(runtime.log[i], d), d.horizon, k) THEN Lacking("INSUFFICIENT_DATA")
             ELSE Outcome(d, SourceOf(i, d, runtime.log[i],
                                      Bounded(AtOf(runtime.log[i], d), d.horizon, k)),
                          BoundedEvents(runtime.log[i], d, Window(runtime.log[i], d), k))
<1> DEFINE e == runtime.log[i]
           w == Window(e, d)
           at == AtOf(e, d)
           expected == w.reference .. w.end - 1
           bounded == {j \in 1 .. k : MinuteOf(j) \in expected}
<1>1. expected = Expected(at, d.horizon)
  BY WindowIs DEF Expected
<1>2. bounded = Bounded(at, d.horizon, k)
  BY <1>1 DEF Bounded
<1>3. (Cardinality(expected) # d.horizon \/ {MinuteOf(j) : j \in bounded} # expected)
        <=> Lacks(at, d.horizon, k)
  BY <1>1, <1>2 DEF Lacks
<1>4. Evaluate(i, d, k) =
        IF Cardinality(expected) # d.horizon \/ {MinuteOf(j) : j \in bounded} # expected
        THEN Lacking("INSUFFICIENT_DATA")
        ELSE Outcome(d, SourceOf(i, d, e, bounded), BoundedEvents(e, d, w, k))
  BY DEF Evaluate, Outcome, SourceOf
<1> HIDE DEF e, w, at, expected, bounded
<1> QED BY <1>2, <1>3, <1>4 DEF e, w, at

\* A result that is there does not say that data was lacking.
IsMeasured(result) == result.status # "INSUFFICIENT_DATA"

LEMMA ResultMeasured == \A value : IsMeasured(Result(value))
BY DEF IsMeasured, Result

LEMMA LackingMeasured == IsMeasured(Lacking("NOT_APPLICABLE")) /\ IsMeasured(Lacking("AMBIGUOUS"))
BY DEF IsMeasured, Lacking

LEMMA TouchedMeasured ==
    ASSUME NEW source, NEW d, NEW direction PROVE IsMeasured(Touched(source, d, direction))
BY ResultMeasured, LackingMeasured DEF Touched

LEMMA ThresholdMeasured ==
    ASSUME NEW source, NEW d PROVE IsMeasured(TimeToThreshold(source, d))
<1>1. \A direction : IsMeasured(Offset(source, d, direction))
  BY ResultMeasured, LackingMeasured DEF Offset
<1>2. \A direction : IsMeasured(Touched(source, d, direction))
  BY TouchedMeasured
<1> QED BY <1>1, <1>2, LackingMeasured DEF TimeToThreshold

LEMMA ExcursionMeasured ==
    ASSUME NEW source, NEW d PROVE IsMeasured(Excursion(source, d))
BY ResultMeasured, LackingMeasured DEF Excursion

LEMMA ReturnMeasured ==
    ASSUME NEW source, NEW d PROVE IsMeasured(ForwardReturn(source, d))
BY ResultMeasured, LackingMeasured DEF ForwardReturn

LEMMA StructuralMeasured ==
    ASSUME NEW events, NEW d PROVE IsMeasured(StructuralOutcome(events, d))
BY ResultMeasured DEF StructuralOutcome

LEMMA OutcomeMeasured ==
    ASSUME NEW d \in Outcomes, NEW source, NEW events PROVE IsMeasured(Outcome(d, source, events))
<1>1. d.outcome \in {"TIME_TO_THRESHOLD", "EXCURSION", "FORWARD_RETURN", "STRUCTURAL"}
  BY OutcomeAssumption
<1> QED BY <1>1, ThresholdMeasured, ExcursionMeasured, ReturnMeasured, StructuralMeasured DEF Outcome

\* The events that may be an outcome are those of the window's bars.
LEMMA EventsOfWindow ==
    ASSUME NEW e, NEW d, NEW w, NEW n, NEW at \in Nat, NEW h \in Nat \ {0}, NEW k \in Nat,
           KnownBy(runtime, n), k >= at + h, w.end = MinuteOf(at + h) + 1
    PROVE  BoundedEvents(e, d, w, k) = BoundedEvents(e, d, w, at + h)
<1> DEFINE last == at + h
<1>1. last \in Int /\ MinuteOf(last) \in Int /\ k \in Int /\ last <= k
  BY MinuteTyped
<1>2. ASSUME NEW r \in runtime.refs, Available(r[2].detection) <= w.end
      PROVE  r[2].detection <= last /\ r[2].detection <= k
  <2> DEFINE t == r[2].detection
  <2>1. t \in Int
    BY DEF KnownBy, KnownRef
  <2>2. MinuteOf(t) + 1 <= MinuteOf(last) + 1
    BY <1>2 DEF Available
  <2> HIDE DEF t
  <2>3. MinuteOf(t) \in Int /\ (last < t <=> MinuteOf(last) < MinuteOf(t))
    BY <1>1, <2>1, MinuteTyped, MinutesInOrder
  <2> HIDE DEF last
  <2>4. t <= last /\ t <= k
    BY <1>1, <2>1, <2>2, <2>3
  <2> QED BY <2>4 DEF t
<1>3. \A r \in runtime.refs : Available(r[2].detection) <= w.end =>
        (r \in Inventory(k) <=> r \in Inventory(last))
  BY <1>2 DEF Inventory
<1>4. Inventory(k) \subseteq runtime.refs /\ Inventory(last) \subseteq runtime.refs
  BY DEF Inventory
<1> HIDE DEF last
<1>5. BoundedEvents(e, d, w, k) = BoundedEvents(e, d, w, last)
  BY <1>3, <1>4 DEF BoundedEvents
<1> QED BY <1>5 DEF last

\* The outcome of one event by one definition, k bars into the source.
IsFinal(i, d, k, last) ==
    Evaluate(i, d, k).status # "INSUFFICIENT_DATA" /\ Evaluate(i, d, k) = Evaluate(i, d, last)

LEMMA OutcomeIsFinal ==
    ASSUME NEW i, NEW n \in Nat, KnownBy(runtime, n), KnownEvent(runtime.log[i], n),
           NEW d \in Outcomes
    PROVE  IF /\ WholeWindow(AtOf(runtime.log[i], d), d.horizon)
              /\ n >= AtOf(runtime.log[i], d) + d.horizon
           THEN IsFinal(i, d, n, AtOf(runtime.log[i], d) + d.horizon)
           ELSE Evaluate(i, d, n) = Lacking("INSUFFICIENT_DATA")
<1> DEFINE e == runtime.log[i]
           at == AtOf(e, d)
           h == d.horizon
           last == at + h
           w == Window(e, d)
           source(k) == SourceOf(i, d, e, Bounded(at, h, k))
           events(k) == BoundedEvents(e, d, w, k)
<1>1. at \in Nat /\ h \in Nat \ {0}
  <2>1. at \in Nat
    BY DEF AtOf, KnownEvent
  <2> QED BY <2>1, OutcomeAssumption
<1>2. \A k : Evaluate(i, d, k) = IF Lacks(at, h, k) THEN Lacking("INSUFFICIENT_DATA")
                                 ELSE Outcome(d, source(k), events(k))
  BY EvaluateIs
<1>3. w.end = EndOf(at, h)
  BY WindowIs
<1> HIDE DEF e, at, h, w, events
<1>4. last \in Nat
  BY <1>1
<1>5. \A k \in Nat : /\ Lacks(at, h, k) <=> ~(WholeWindow(at, h) /\ k >= last)
                     /\ ~Lacks(at, h, k) => Bounded(at, h, k) = at + 1 .. last
  BY <1>1, LacksIs
<1>6. CASE ~(WholeWindow(at, h) /\ n >= last)
  BY <1>2, <1>5, <1>6 DEF e, at, h
<1>7. CASE WholeWindow(at, h) /\ n >= last
  <2>1. ~Lacks(at, h, n) /\ ~Lacks(at, h, last)
    BY <1>4, <1>5, <1>7
  <2>2. Bounded(at, h, n) = Bounded(at, h, last)
    BY <1>4, <1>5, <2>1
  <2>3. source(n) = source(last)
    BY <2>2
  <2>4. events(n) = events(last)
    <3>1. w.end = MinuteOf(last) + 1
      <4>1. /\ EndOf(at, h) = MinuteOf(at) + 1 + h /\ MinuteOf(at) \in Int
        BY <1>1, <1>7, EndIs DEF WholeWindow
      <4>2. MinuteOf(last) = MinuteOf(at) + h
        BY <1>7 DEF WholeWindow
      <4> HIDE DEF last
      <4> QED BY <1>1, <1>3, <4>1, <4>2
    <3> QED BY <1>1, <1>7, <3>1, EventsOfWindow DEF events
  <2> HIDE DEF source
  <2>5. Evaluate(i, d, n) = Outcome(d, source(n), events(n))
        /\ Evaluate(i, d, last) = Outcome(d, source(last), events(last))
    BY <1>2, <2>1
  <2>6. IsMeasured(Evaluate(i, d, n))
    BY <2>5, OutcomeMeasured
  <2>7. IsFinal(i, d, n, last)
    BY <2>3, <2>4, <2>5, <2>6 DEF IsFinal, IsMeasured
  <2> QED BY <1>7, <2>7 DEF e, at, h
<1> QED BY <1>6, <1>7

LEMMA InvSeesOnlyItsWindow == CapturingInv => OutcomesSeeOnlyTheirWindow
<1> SUFFICES ASSUME CapturingInv, NEW i \in Population, NEW d \in Outcomes
             PROVE  /\ Observable(snapshots[i], runtime.log[i])
                    /\ IF /\ WholeWindow(AtOf(runtime.log[i], d), d.horizon)
                          /\ Now >= AtOf(runtime.log[i], d) + d.horizon
                       THEN IsFinal(i, d, Now, AtOf(runtime.log[i], d) + d.horizon)
                       ELSE Evaluate(i, d, Now) = Lacking("INSUFFICIENT_DATA")
  BY DEF OutcomesSeeOnlyTheirWindow, WholeWindow, AtOf, IsFinal
<1>1. i \in DOMAIN runtime.log /\ runtime.log \in Seq(ValuesOf(runtime.log))
  BY DEF Population, CapturingInv, MarketInv, RuntimeTypes
<1>2. i \in 1..Len(runtime.log)
  BY <1>1
<1>3. Observable(snapshots[i], runtime.log[i])
  BY <1>2 DEF CapturingInv, Frozen, Fits
<1>4. Now \in Nat /\ KnownBy(runtime, Now)
  BY DEF Now, CapturingInv, MarketInv
<1>5. KnownEvent(runtime.log[i], Now)
  BY <1>1, <1>4 DEF KnownBy, ValuesOf
<1> QED BY <1>3, <1>4, <1>5, OutcomeIsFinal

\* An outcome is there exactly when every minute of its horizon is in the source
\* and in the day of its event; it is what those minutes say, and neither the
\* bars after the window nor the market events they bring change it
\* (outcome_evaluation.py:188-250).  What is frozen of an event holds no time
\* after the event (context_snapshots.py).
THEOREM OutcomesAreFinal == ThresholdsDescend => (CapturingSpec => []OutcomesSeeOnlyTheirWindow)
<1> SUFFICES ASSUME ThresholdsDescend PROVE CapturingSpec => []OutcomesSeeOnlyTheirWindow
  OBVIOUS
<1>1. CapturingInv /\ [CapturingNext]_<<vars, snapshots>> => CapturingInv'
  BY CapturingKeeps
<1> QED BY CapturingBegins, InvSeesOnlyItsWindow, <1>1, PTL DEF CapturingSpec

-------------------------------------------------------------------------------
(* What a bar reaches of the two thresholds, and on which path.            *)

ThresholdSides == {"POSITIVE", "NEGATIVE"}
OtherThreshold(s) == IF s = "POSITIVE" THEN "NEGATIVE" ELSE "POSITIVE"

\* A price and its distance from the reference towards a side.
Towards(direction, s, move) ==
    Signed(direction, move) * Unit * (IF s = "POSITIVE" THEN 1 ELSE -1)

\* What time_to_threshold compares: the extreme of the bar on that side.
FarOf(bar, price, direction, s) == Reach(bar, price)[Along(s, direction)]
ExtremeOf(bar, direction, s) == IF Along(s, direction) = "UP" THEN bar.high ELSE bar.low

LEMMA AlongIs ==
    ASSUME NEW direction \in Directions, NEW s \in ThresholdSides
    PROVE  /\ Along(s, direction) \in Directions
           /\ Along(OtherThreshold(s), direction) \in Directions
           /\ Along(OtherThreshold(s), direction) # Along(s, direction)
           /\ OtherThreshold(s) \in ThresholdSides /\ OtherThreshold(s) # s
           /\ OtherThreshold(OtherThreshold(s)) = s
           /\ ThresholdSides = {s, OtherThreshold(s)}
BY DEF Along, Opposed, Directions, ThresholdSides, OtherThreshold

\* One sign for the direction and the side.
SignOf(direction, s) == IF Along(s, direction) = "UP" THEN 1 ELSE -1

LEMMA SignIs ==
    ASSUME NEW direction \in Directions, NEW s \in ThresholdSides
    PROVE  /\ SignOf(direction, s) \in {1, -1}
           /\ SignOf(direction, OtherThreshold(s)) = -SignOf(direction, s)
BY AlongIs DEF SignOf, Directions

LEMMA TowardsIs ==
    ASSUME NEW direction \in Directions, NEW s \in ThresholdSides, NEW x \in Int
    PROVE  Towards(direction, s, x) = IF SignOf(direction, s) = 1 THEN x * Unit ELSE -(x * Unit)
<1>1. Unit \in Int /\ x * Unit \in Int
  BY IndicatorAssumption
<1> DEFINE y == x * Unit
<1>2. (-x) * Unit = -y /\ x * Unit = y /\ y \in Int
  BY <1>1
<1> HIDE DEF y
<1>3. y * 1 = y /\ y * (-1) = -y /\ (-y) * 1 = -y /\ (-y) * (-1) = y
  BY <1>2
<1>4. direction = "UP" \/ direction = "DOWN"
  BY DEF Directions
<1>5. s = "POSITIVE" \/ s = "NEGATIVE"
  BY DEF ThresholdSides
<1>6. CASE direction = "UP" /\ s = "POSITIVE"
  BY <1>2, <1>3, <1>6 DEF Towards, SignOf, Along, Opposed, Signed
<1>7. CASE direction = "UP" /\ s = "NEGATIVE"
  BY <1>2, <1>3, <1>7 DEF Towards, SignOf, Along, Opposed, Signed
<1>8. CASE direction = "DOWN" /\ s = "POSITIVE"
  BY <1>2, <1>3, <1>8 DEF Towards, SignOf, Along, Opposed, Signed
<1>9. CASE direction = "DOWN" /\ s = "NEGATIVE"
  BY <1>2, <1>3, <1>9 DEF Towards, SignOf, Along, Opposed, Signed
<1> QED BY <1>4, <1>5, <1>6, <1>7, <1>8, <1>9

LEMMA FarIs ==
    ASSUME NEW direction \in Directions, NEW s \in ThresholdSides, NEW bar \in Bar, NEW price \in Int
    PROVE  /\ FarOf(bar, price, direction, s) = Towards(direction, s, ExtremeOf(bar, direction, s) - price)
           /\ FarOf(bar, price, direction, s) \in Int
<1>1. bar.high \in Int /\ bar.low \in Int /\ Unit \in Int
  BY IndicatorAssumption DEF Bar
<1>2. /\ (bar.high - price) * Unit \in Int /\ (price - bar.low) * Unit \in Int
      /\ (price - bar.low) * Unit = -((bar.low - price) * Unit)
  BY <1>1
<1>3. Along(s, direction) = "UP" \/ Along(s, direction) = "DOWN"
  BY AlongIs DEF Directions
<1>4. CASE Along(s, direction) = "UP"
  <2>1. FarOf(bar, price, direction, s) = (bar.high - price) * Unit
    BY <1>4 DEF FarOf, Reach
  <2>2. Towards(direction, s, bar.high - price) = (bar.high - price) * Unit
    BY <1>1, <1>4, TowardsIs DEF SignOf
  <2> QED BY <1>2, <1>4, <2>1, <2>2 DEF ExtremeOf
<1>5. CASE Along(s, direction) = "DOWN"
  <2>1. FarOf(bar, price, direction, s) = (price - bar.low) * Unit
    BY <1>5 DEF FarOf, Reach
  <2>2. Towards(direction, s, bar.low - price) = -((bar.low - price) * Unit)
    BY <1>1, <1>5, TowardsIs DEF SignOf
  <2> QED BY <1>2, <1>5, <2>1, <2>2 DEF ExtremeOf
<1> QED BY <1>3, <1>4, <1>5

LEMMA ScaledWithin ==
    ASSUME NEW a \in Int, NEW b \in Int, a <= b
    PROVE  a * Unit <= b * Unit /\ a * Unit \in Int /\ b * Unit \in Int
<1>1. Unit \in Nat /\ Unit \in Int
  BY IndicatorAssumption
<1>2. CASE a < b
  BY <1>1, <1>2, ScaledWeakly
<1>3. CASE a = b
  BY <1>1, <1>3
<1> QED BY <1>1, <1>2, <1>3

\* No price of the bar goes further to a side than its extreme there.
LEMMA FarIsFurthest ==
    ASSUME NEW direction \in Directions, NEW s \in ThresholdSides, NEW bar \in Bar, NEW price \in Int,
           NEW p \in Int, bar.low <= p, p <= bar.high
    PROVE  Towards(direction, s, p - price) <= FarOf(bar, price, direction, s)
<1>1. bar.high \in Int /\ bar.low \in Int
  BY DEF Bar
<1>2. /\ (p - price) * Unit <= (bar.high - price) * Unit
      /\ (bar.low - price) * Unit <= (p - price) * Unit
      /\ (p - price) * Unit \in Int /\ (bar.high - price) * Unit \in Int /\ (bar.low - price) * Unit \in Int
  <2>1. p - price \in Int /\ bar.high - price \in Int /\ bar.low - price \in Int
        /\ p - price <= bar.high - price /\ bar.low - price <= p - price
    BY <1>1
  <2> QED BY <2>1, ScaledWithin
<1> DEFINE x == (p - price) * Unit
           h == (bar.high - price) * Unit
           l == (bar.low - price) * Unit
           e == ExtremeOf(bar, direction, s)
<1>3. Towards(direction, s, p - price) = IF SignOf(direction, s) = 1 THEN x ELSE -x
  BY TowardsIs
<1>4. Towards(direction, s, e - price) = IF SignOf(direction, s) = 1 THEN (e - price) * Unit ELSE -((e - price) * Unit)
  BY <1>1, TowardsIs DEF ExtremeOf
<1>5. (e - price) * Unit = IF SignOf(direction, s) = 1 THEN h ELSE l
  BY DEF ExtremeOf, SignOf
<1> HIDE DEF x, h, l, e
<1>6. FarOf(bar, price, direction, s) = Towards(direction, s, e - price)
  BY FarIs DEF e
<1>7. x <= h /\ l <= x /\ x \in Int /\ h \in Int /\ l \in Int
  BY <1>2 DEF x, h, l
<1> QED BY <1>3, <1>4, <1>5, <1>6, <1>7

\* A threshold that a bar reaches.
Hit(taken, d, price, bar, s) ==
    FarOf(bar, price, DirectionOf(taken, d), s) >= DistanceOf(taken, d, s)

\* The direction and both distances are known.
Measures(taken, d) ==
    /\ DirectionOf(taken, d) \in Directions
    /\ DistanceOf(taken, d, "POSITIVE") \in Nat /\ DistanceOf(taken, d, "NEGATIVE") \in Nat

LEMMA SidesAtIs ==
    ASSUME NEW taken, NEW d, NEW price, NEW p
    PROVE  /\ SidesAt(taken, d, price, p) \subseteq ThresholdSides
           /\ \A s \in ThresholdSides :
                s \in SidesAt(taken, d, price, p) <=>
                  Towards(DirectionOf(taken, d), s, p - price) >= DistanceOf(taken, d, s)
BY DEF SidesAt, Towards, ThresholdSides

LEMMA DistanceIsNat ==
    ASSUME NEW taken, NEW d, Measures(taken, d), NEW s \in ThresholdSides
    PROVE  DistanceOf(taken, d, s) \in Nat
BY DEF Measures, ThresholdSides

\* A price of the bar reaches only what the bar does.
LEMMA ReachedIsHit ==
    ASSUME NEW taken, NEW d, Measures(taken, d), NEW bar \in Bar, NEW price \in Int,
           NEW p \in Int, bar.low <= p, p <= bar.high, NEW s \in SidesAt(taken, d, price, p)
    PROVE  s \in ThresholdSides /\ Hit(taken, d, price, bar, s)
<1> DEFINE direction == DirectionOf(taken, d)
           distance == DistanceOf(taken, d, s)
           here == Towards(direction, s, p - price)
           far == FarOf(bar, price, direction, s)
<1>1. s \in ThresholdSides
  BY SidesAtIs
<1>2. direction \in Directions /\ distance \in Nat
  BY <1>1, DistanceIsNat DEF Measures
<1>3. here >= distance
  BY <1>1, SidesAtIs
<1>4. here <= far /\ far \in Int
  BY <1>1, <1>2, FarIs, FarIsFurthest
<1>5. here \in Int
  <2>1. p - price \in Int /\ (p - price) * Unit \in Int
    BY IndicatorAssumption
  <2> QED BY <1>1, <1>2, <2>1, TowardsIs
<1> HIDE DEF direction, distance, here, far
<1>6. far >= distance
  BY <1>2, <1>3, <1>4, <1>5
<1> QED BY <1>1, <1>6 DEF Hit, direction, distance, far

\* What a bar reaches, its extreme on that side does.
LEMMA ExtremeReaches ==
    ASSUME NEW taken, NEW d, Measures(taken, d), NEW bar \in Bar, NEW price \in Int,
           NEW s \in ThresholdSides, Hit(taken, d, price, bar, s)
    PROVE  s \in SidesAt(taken, d, price, ExtremeOf(bar, DirectionOf(taken, d), s))
BY SidesAtIs, FarIs DEF Hit, Measures

\* No price reaches both, unless neither threshold takes any distance.
NoDistance(taken, d) == \A s \in ThresholdSides : DistanceOf(taken, d, s) = 0

LEMMA TowardsOpposite ==
    ASSUME NEW direction \in Directions, NEW s \in ThresholdSides, NEW x \in Int
    PROVE  /\ Towards(direction, s, x) \in Int
           /\ Towards(direction, OtherThreshold(s), x) = -Towards(direction, s, x)
<1>1. x * Unit \in Int
  BY IndicatorAssumption
<1> DEFINE y == x * Unit
<1>2. Towards(direction, s, x) = IF SignOf(direction, s) = 1 THEN y ELSE -y
  BY TowardsIs
<1>3. OtherThreshold(s) \in ThresholdSides
  BY AlongIs
<1>4. Towards(direction, OtherThreshold(s), x) = IF SignOf(direction, OtherThreshold(s)) = 1 THEN y ELSE -y
  BY <1>3, TowardsIs
<1>5. SignOf(direction, s) \in {1, -1} /\ SignOf(direction, OtherThreshold(s)) = -SignOf(direction, s)
  BY SignIs
<1> HIDE DEF y
<1>6. y \in Int
  BY <1>1 DEF y
<1> QED BY <1>2, <1>4, <1>5, <1>6

LEMMA OneSideAt ==
    ASSUME NEW taken, NEW d, Measures(taken, d), NEW price \in Int, NEW p \in Int
    PROVE  /\ ~NoDistance(taken, d) =>
                \A s \in SidesAt(taken, d, price, p) : OtherThreshold(s) \notin SidesAt(taken, d, price, p)
           /\ NoDistance(taken, d) => SidesAt(taken, d, price, p) # {}
<1> DEFINE direction == DirectionOf(taken, d)
           T(s) == Towards(direction, s, p - price)
           D(s) == DistanceOf(taken, d, s)
<1>1. \A s \in ThresholdSides :
        /\ T(s) \in Int /\ T(OtherThreshold(s)) = -T(s)
        /\ D(s) \in Nat /\ OtherThreshold(s) \in ThresholdSides
        /\ ThresholdSides = {s, OtherThreshold(s)}
        /\ s \in SidesAt(taken, d, price, p) <=> T(s) >= D(s)
  <2>1. p - price \in Int /\ direction \in Directions
    BY DEF Measures
  <2> HIDE DEF direction
  <2>2. \A s \in ThresholdSides : T(s) \in Int /\ T(OtherThreshold(s)) = -T(s)
    BY <2>1, TowardsOpposite
  <2>3. \A s \in ThresholdSides : OtherThreshold(s) \in ThresholdSides /\ ThresholdSides = {s, OtherThreshold(s)}
    BY <2>1, AlongIs
  <2> QED BY <2>2, <2>3, DistanceIsNat, SidesAtIs DEF direction
<1> HIDE DEF T, D
<1>2. ASSUME ~NoDistance(taken, d), NEW s \in SidesAt(taken, d, price, p)
      PROVE  OtherThreshold(s) \notin SidesAt(taken, d, price, p)
  <2>1. s \in ThresholdSides
    BY <1>2, SidesAtIs
  <2>2. D(s) # 0 \/ D(OtherThreshold(s)) # 0
    BY <1>1, <1>2, <2>1 DEF NoDistance, D
  <2>3. T(s) \in Int /\ T(OtherThreshold(s)) = -T(s) /\ D(s) \in Nat /\ D(OtherThreshold(s)) \in Nat
        /\ T(s) >= D(s)
    BY <1>1, <1>2, <2>1
  <2>4. ~(T(OtherThreshold(s)) >= D(OtherThreshold(s)))
    BY <2>2, <2>3
  <2> QED BY <1>1, <2>1, <2>4
<1>3. ASSUME NoDistance(taken, d) PROVE SidesAt(taken, d, price, p) # {}
  <2> DEFINE s == "POSITIVE"
             o == OtherThreshold(s)
  <2>1. s \in ThresholdSides /\ o \in ThresholdSides
    BY <1>1 DEF ThresholdSides
  <2>2. D(s) = 0 /\ D(o) = 0
    BY <1>3, <2>1 DEF NoDistance, D
  <2>3. T(s) \in Int /\ T(o) = -T(s)
    BY <1>1, <2>1
  <2> HIDE DEF s, o
  <2>4. T(s) >= D(s) \/ T(o) >= D(o)
    BY <2>2, <2>3
  <2> QED BY <1>1, <2>1, <2>4
<1> QED BY <1>2, <1>3

\* The sides at the first price of a path that reaches one.
FirstOn(taken, d, price, path) ==
    SidesAt(taken, d, price, path[Min({n \in 1 .. 4 : SidesAt(taken, d, price, path[n]) # {}})])

LEMMA FirstPlace ==
    ASSUME NEW N, N \subseteq 1..4
    PROVE  /\ 1 \in N => Min(N) = 1
           /\ 1 \notin N /\ 2 \in N => Min(N) = 2
           /\ 1 \notin N /\ 2 \notin N /\ 3 \in N => Min(N) = 3
<1>1. ASSUME NEW x \in N, \A y \in N : x <= y PROVE Min(N) = x
  <2> DEFINE m == Min(N)
  <2>1. m \in N /\ \A y \in N : m <= y
    BY <1>1 DEF Min
  <2> HIDE DEF m
  <2>2. m \in 1..4 /\ x \in 1..4
    BY <1>1, <2>1
  <2>3. m <= x /\ x <= m
    BY <1>1, <2>1
  <2>4. m = x
    BY <2>2, <2>3
  <2> QED BY <2>4 DEF m
<1>2. ASSUME 1 \in N PROVE Min(N) = 1
  BY <1>1, <1>2
<1>3. ASSUME 1 \notin N, 2 \in N PROVE Min(N) = 2
  <2>1. \A y \in N : 2 <= y
    BY <1>3
  <2> QED BY <1>1, <1>3, <2>1
<1>4. ASSUME 1 \notin N, 2 \notin N, 3 \in N PROVE Min(N) = 3
  <2>1. \A y \in N : 3 <= y
    BY <1>4
  <2> QED BY <1>1, <1>4, <2>1
<1> QED BY <1>2, <1>3, <1>4

LEMMA FirstOnIs ==
    ASSUME NEW taken, NEW d, NEW price, NEW a, NEW b, NEW c, NEW e
    PROVE  LET A(p) == SidesAt(taken, d, price, p)
               first == FirstOn(taken, d, price, <<a, b, c, e>>)
           IN /\ A(a) # {} => first = A(a)
              /\ A(a) = {} /\ A(b) # {} => first = A(b)
              /\ A(a) = {} /\ A(b) = {} /\ A(c) # {} => first = A(c)
<1> DEFINE A(p) == SidesAt(taken, d, price, p)
           path == <<a, b, c, e>>
           N == {n \in 1 .. 4 : A(path[n]) # {}}
<1>1. path[1] = a /\ path[2] = b /\ path[3] = c
  OBVIOUS
<1>2. FirstOn(taken, d, price, path) = A(path[Min(N)])
  BY DEF FirstOn
<1> HIDE DEF path, A
<1>3. N \subseteq 1..4 /\ (1 \in N <=> A(a) # {}) /\ (2 \in N <=> A(b) # {}) /\ (3 \in N <=> A(c) # {})
  BY <1>1
<1> HIDE DEF N
<1>4. /\ 1 \in N => Min(N) = 1
      /\ 1 \notin N /\ 2 \in N => Min(N) = 2
      /\ 1 \notin N /\ 2 \notin N /\ 3 \in N => Min(N) = 3
  BY <1>3, FirstPlace
<1>5. ASSUME A(a) # {} PROVE A(path[Min(N)]) = A(a)
  BY <1>1, <1>3, <1>4, <1>5
<1>6. ASSUME A(a) = {}, A(b) # {} PROVE A(path[Min(N)]) = A(b)
  BY <1>1, <1>3, <1>4, <1>6
<1>7. ASSUME A(a) = {}, A(b) = {}, A(c) # {} PROVE A(path[Min(N)]) = A(c)
  BY <1>1, <1>3, <1>4, <1>7
<1> QED BY <1>2, <1>5, <1>6, <1>7 DEF path, A

LEMMA FirstSidesAre ==
    ASSUME NEW taken, NEW d, NEW price, NEW bar
    PROVE  FirstSides(taken, d, price, bar) =
             {FirstOn(taken, d, price, <<bar.open, bar.high, bar.low, bar.close>>),
              FirstOn(taken, d, price, <<bar.open, bar.low, bar.high, bar.close>>)}
<1>1. FirstSides(taken, d, price, bar) = {FirstOn(taken, d, price, path) : path \in Paths(bar)}
  BY DEF FirstSides, FirstOn
<1> QED BY <1>1 DEF Paths

LEMMA BarPrices ==
    ASSUME NEW bar \in Bar
    PROVE  \A p \in {bar.open, bar.high, bar.low, bar.close} : p \in Int /\ bar.low <= p /\ p <= bar.high
BY DEF Bar

\* What the open, and the extreme of each side, reach.
LEMMA BarSides ==
    ASSUME NEW taken, NEW d, Measures(taken, d), NEW bar \in Bar, NEW price \in Int,
           NEW s \in ThresholdSides
    PROVE  LET A(p) == SidesAt(taken, d, price, p)
               e == ExtremeOf(bar, DirectionOf(taken, d), s)
               o == OtherThreshold(s)
           IN /\ o \notin A(bar.open) \/ Hit(taken, d, price, bar, o)
              /\ s \notin A(bar.open) \/ Hit(taken, d, price, bar, s)
              /\ s \in A(e) <=> Hit(taken, d, price, bar, s)
              /\ o \notin A(e) \/ Hit(taken, d, price, bar, o)
              /\ A(bar.open) \subseteq {s, o} /\ A(e) \subseteq {s, o}
              /\ A(bar.open) = {} => ~(s \in A(e) /\ o \in A(e))
<1> DEFINE A(p) == SidesAt(taken, d, price, p)
           direction == DirectionOf(taken, d)
           e == ExtremeOf(bar, direction, s)
           o == OtherThreshold(s)
           H(x) == Hit(taken, d, price, bar, x)
<1>1. e \in {bar.high, bar.low}
  BY DEF ExtremeOf
<1>2. /\ bar.open \in Int /\ bar.low <= bar.open /\ bar.open <= bar.high
      /\ e \in Int /\ bar.low <= e /\ e <= bar.high
  BY <1>1, BarPrices
<1>3. ThresholdSides = {s, o} /\ o \in ThresholdSides /\ direction \in Directions
  BY AlongIs DEF Measures
<1>4. ASSUME NEW p \in {bar.open, e}, NEW x \in A(p) PROVE H(x)
  <2>1. p \in Int /\ bar.low <= p /\ p <= bar.high
    BY <1>2
  <2> QED BY <2>1, <1>4, ReachedIsHit
<1>5. H(s) => s \in A(e)
  BY ExtremeReaches
<1>6. A(bar.open) \subseteq {s, o} /\ A(e) \subseteq {s, o}
  BY <1>3, SidesAtIs
<1>7. ASSUME A(bar.open) = {}, s \in A(e) PROVE o \notin A(e)
  <2>1. ~NoDistance(taken, d)
    BY <1>2, <1>7, OneSideAt
  <2> QED BY <1>2, <1>7, <2>1, OneSideAt
<1> HIDE DEF A, e, o, H
<1>8. /\ o \notin A(bar.open) \/ H(o)
      /\ s \notin A(bar.open) \/ H(s)
      /\ s \in A(e) <=> H(s)
      /\ o \notin A(e) \/ H(o)
  BY <1>4, <1>5
<1> QED BY <1>6, <1>7, <1>8 DEF A, e, o, H

\* First non-empty of three.
First3(a, b, c) == IF a # {} THEN a ELSE IF b # {} THEN b ELSE c

LEMMA FirstIsThree ==
    ASSUME NEW taken, NEW d, NEW price, NEW a, NEW b, NEW c, NEW e,
           \/ SidesAt(taken, d, price, a) # {} \/ SidesAt(taken, d, price, b) # {}
           \/ SidesAt(taken, d, price, c) # {}
    PROVE  FirstOn(taken, d, price, <<a, b, c, e>>) =
             First3(SidesAt(taken, d, price, a), SidesAt(taken, d, price, b), SidesAt(taken, d, price, c))
BY FirstOnIs DEF First3

\* When a side is the first one on both paths of a bar: by the sets of sides that
\* its open, its extreme on that side and its extreme on the other one reach.
Reaches(s, o, a, b, c, hit, other) ==
    /\ hit \in BOOLEAN /\ other \in BOOLEAN /\ (hit \/ other) /\ s # o
    /\ a \subseteq {s, o} /\ b \subseteq {s, o} /\ c \subseteq {s, o}
    /\ o \notin a \/ other
    /\ s \notin a \/ hit
    /\ s \in b <=> hit
    /\ o \notin b \/ other
    /\ o \in c <=> other
    /\ s \notin c \/ hit
    /\ a = {} => ~(s \in b /\ o \in b)
    /\ a = {} => ~(s \in c /\ o \in c)
IsFirst(s, a, b, c) == {First3(a, b, c), First3(a, c, b)} = {{s}}

LEMMA FirstOnBoth ==
    ASSUME NEW s, NEW o, NEW a, NEW b, NEW c, NEW Hs, NEW Ho, Reaches(s, o, a, b, c, Hs, Ho)
    PROVE  IsFirst(s, a, b, c) <=> Hs /\ (~Ho \/ a = {s})
<1> USE DEF Reaches, IsFirst
<1>1. a # {} \/ b # {} \/ c # {}
  OBVIOUS
<1>2. CASE a # {}
  <2>1. First3(a, b, c) = a /\ First3(a, c, b) = a
    BY <1>2 DEF First3
  <2>2. {First3(a, b, c), First3(a, c, b)} = {{s}} <=> a = {s}
    BY <2>1
  <2>3. a = {s} => Hs
    OBVIOUS
  <2>4. Hs /\ ~Ho => a = {s}
    BY <1>2
  <2> QED BY <2>2, <2>3, <2>4
<1>3. CASE a = {}
  <2>1. a # {s}
    BY <1>3
  <2>2. CASE Hs /\ ~Ho
    <3>1. b = {s} /\ (c = {} \/ c = {s})
      BY <2>2
    <3>2. First3(a, b, c) = {s} /\ First3(a, c, b) = {s}
      BY <1>3, <3>1 DEF First3
    <3> QED BY <2>2, <3>2
  <2>3. CASE Hs /\ Ho
    <3>1. b = {s} /\ c = {o}
      BY <1>3, <2>3
    <3>2. First3(a, c, b) = {o} /\ {o} # {s}
      BY <1>3, <3>1 DEF First3
    <3> QED BY <2>1, <2>3, <3>2
  <2>4. CASE ~Hs
    <3>1. s \notin b /\ s \notin c
      BY <2>4
    <3>2. s \notin First3(a, b, c)
      BY <1>3, <3>1 DEF First3
    <3> QED BY <2>4, <3>2
  <2> QED BY <2>2, <2>3, <2>4
<1> QED BY <1>2, <1>3

LEMMA PathsBySide ==
    ASSUME NEW taken, NEW d, NEW price, NEW bar, NEW direction \in Directions, NEW s \in ThresholdSides
    PROVE  LET a == bar.open
               b == ExtremeOf(bar, direction, s)
               c == ExtremeOf(bar, direction, OtherThreshold(s))
           IN FirstSides(taken, d, price, bar) =
                {FirstOn(taken, d, price, <<a, b, c, bar.close>>),
                 FirstOn(taken, d, price, <<a, c, b, bar.close>>)}
<1>1. CASE Along(s, direction) = "UP"
  <2>1. ExtremeOf(bar, direction, s) = bar.high /\ ExtremeOf(bar, direction, OtherThreshold(s)) = bar.low
    BY <1>1, AlongIs DEF ExtremeOf, Directions
  <2> QED BY <2>1, FirstSidesAre
<1>2. CASE Along(s, direction) # "UP"
  <2>1. ExtremeOf(bar, direction, s) = bar.low /\ ExtremeOf(bar, direction, OtherThreshold(s)) = bar.high
    BY <1>2, AlongIs DEF ExtremeOf, Directions
  <2>2. \A x, y : {x, y} = {y, x}
    OBVIOUS
  <2> QED BY <2>1, <2>2, FirstSidesAre
<1> QED BY <1>1, <1>2

\* A side is the first one touched on every path of a bar that touches any: it is
\* touched, and the other one is not, unless the open has already decided.
LEMMA FirstOfBar ==
    ASSUME NEW taken, NEW d, Measures(taken, d), NEW bar \in Bar, NEW price \in Int,
           NEW s \in ThresholdSides,
           Hit(taken, d, price, bar, s) \/ Hit(taken, d, price, bar, OtherThreshold(s))
    PROVE  FirstSides(taken, d, price, bar) = {{s}} <=>
             /\ Hit(taken, d, price, bar, s)
             /\ \/ ~Hit(taken, d, price, bar, OtherThreshold(s))
                \/ SidesAt(taken, d, price, bar.open) = {s}
<1> DEFINE direction == DirectionOf(taken, d)
           o == OtherThreshold(s)
           pb == ExtremeOf(bar, direction, s)
           pc == ExtremeOf(bar, direction, o)
           a == SidesAt(taken, d, price, bar.open)
           b == SidesAt(taken, d, price, pb)
           c == SidesAt(taken, d, price, pc)
           Hs == Hit(taken, d, price, bar, s)
           Ho == Hit(taken, d, price, bar, o)
<1>1. direction \in Directions /\ o \in ThresholdSides /\ s # o /\ OtherThreshold(o) = s
  BY AlongIs DEF Measures
<1>2. /\ o \notin a \/ Ho
      /\ s \notin a \/ Hs
      /\ s \in b <=> Hs
      /\ o \notin b \/ Ho
      /\ a \subseteq {s, o} /\ b \subseteq {s, o} /\ (a = {} => ~(s \in b /\ o \in b))
  BY BarSides
<1>3. /\ (o \in c <=> Ho) /\ (s \notin c \/ Hs)
      /\ c \subseteq {s, o} /\ (a = {} => ~(s \in c /\ o \in c))
  <2>1. /\ (o \in c <=> Ho) /\ (s \notin c \/ Hs)
        /\ c \subseteq {o, s} /\ (a = {} => ~(o \in c /\ s \in c))
    BY <1>1, BarSides
  <2> HIDE DEF direction, o, pb, pc, a, b, c, Hs, Ho
  <2> QED BY <2>1
<1>4. FirstSides(taken, d, price, bar) =
        {FirstOn(taken, d, price, <<bar.open, pb, pc, bar.close>>),
         FirstOn(taken, d, price, <<bar.open, pc, pb, bar.close>>)}
  BY <1>1, PathsBySide
<1>5. Hs \in BOOLEAN /\ Ho \in BOOLEAN /\ (Hs \/ Ho)
  BY DEF Hit
<1> HIDE DEF direction, o, pb, pc, Hs, Ho
<1>6. a # {} \/ b # {} \/ c # {}
  BY <1>2, <1>3, <1>5
<1>7. FirstOn(taken, d, price, <<bar.open, pb, pc, bar.close>>) = First3(a, b, c)
  BY <1>6, FirstIsThree
<1>8. FirstOn(taken, d, price, <<bar.open, pc, pb, bar.close>>) = First3(a, c, b)
  BY <1>6, FirstIsThree
<1> HIDE DEF a, b, c
<1>9. Reaches(s, o, a, b, c, Hs, Ho)
  BY <1>1, <1>2, <1>3, <1>5 DEF Reaches
<1>10. IsFirst(s, a, b, c) <=> Hs /\ (~Ho \/ a = {s})
  BY <1>9, FirstOnBoth
<1> QED BY <1>4, <1>7, <1>8, <1>10 DEF a, Hs, Ho, o, IsFirst

\* A bar touches what one of its extremes reaches.
LEMMA TouchingIs ==
    ASSUME NEW taken, NEW d, Measures(taken, d), NEW bar \in Bar, NEW price \in Int
    PROVE  IsTouching(taken, d, price, bar) <=>
             \E s \in ThresholdSides : Hit(taken, d, price, bar, s)
<1>1. ASSUME NEW s \in ThresholdSides, Hit(taken, d, price, bar, s)
      PROVE  IsTouching(taken, d, price, bar)
  <2> DEFINE path == <<bar.open, bar.high, bar.low, bar.close>>
             e == ExtremeOf(bar, DirectionOf(taken, d), s)
  <2>1. s \in SidesAt(taken, d, price, e)
    BY <1>1, ExtremeReaches
  <2>2. e = bar.high \/ e = bar.low
    BY DEF ExtremeOf
  <2>3. path[2] = bar.high /\ path[3] = bar.low /\ path \in Paths(bar)
    BY DEF Paths
  <2> HIDE DEF path, e
  <2>4. \E n \in 1..4 : s \in SidesAt(taken, d, price, path[n])
    <3>1. CASE e = bar.high
      <4>1. 2 \in 1..4 /\ s \in SidesAt(taken, d, price, path[2])
        BY <2>1, <2>3, <3>1
      <4> QED BY <4>1
    <3>2. CASE e = bar.low
      <4>1. 3 \in 1..4 /\ s \in SidesAt(taken, d, price, path[3])
        BY <2>1, <2>3, <3>2
      <4> QED BY <4>1
    <3> QED BY <2>2, <3>1, <3>2
  <2> QED BY <2>3, <2>4 DEF IsTouching
<1>2. ASSUME IsTouching(taken, d, price, bar)
      PROVE  \E s \in ThresholdSides : Hit(taken, d, price, bar, s)
  <2>1. PICK path \in Paths(bar), n \in 1..4 : SidesAt(taken, d, price, path[n]) # {}
    BY <1>2 DEF IsTouching
  <2>2. path[n] \in {bar.open, bar.high, bar.low, bar.close}
    <3>1. n = 1 \/ n = 2 \/ n = 3 \/ n = 4
      OBVIOUS
    <3>2. \/ path = <<bar.open, bar.high, bar.low, bar.close>>
          \/ path = <<bar.open, bar.low, bar.high, bar.close>>
      BY DEF Paths
    <3> QED BY <3>1, <3>2
  <2>3. PICK s : s \in SidesAt(taken, d, price, path[n])
    BY <2>1
  <2>4. path[n] \in Int /\ bar.low <= path[n] /\ path[n] <= bar.high
    BY <2>2, BarPrices
  <2> DEFINE p == path[n]
  <2> HIDE DEF p
  <2>5. s \in ThresholdSides /\ Hit(taken, d, price, bar, s)
    BY <2>3, <2>4, ReachedIsHit DEF p
  <2> QED BY <2>5
<1> QED BY <1>1, <1>2

-------------------------------------------------------------------------------
(* What a window of bars touches first.                                    *)

SourceFrom(taken, price, window) == [snapshot |-> taken, price |-> price, bars |-> window]

\* The distance of a side can be told: it is the one the property takes.
Told1(taken, d, price, window, s) ==
    ThresholdDistance(SourceFrom(taken, price, window), d[s]) = {DistanceOf(taken, d, s)}

Hits(taken, d, price, window, s) == {j \in DOMAIN window : Hit(taken, d, price, window[j], s)}

LEMMA FirstHitIs ==
    ASSUME NEW taken, NEW d, NEW price, NEW window, NEW s, Told1(taken, d, price, window, s)
    PROVE  FirstHit(SourceFrom(taken, price, window), d, s, DirectionOf(taken, d)) =
             IF Hits(taken, d, price, window, s) = {} THEN {}
             ELSE {Min(Hits(taken, d, price, window, s))}
<1> DEFINE source == SourceFrom(taken, price, window)
           direction == DirectionOf(taken, d)
           hits == {j \in DOMAIN source.bars : \E distance \in ThresholdDistance(source, d[s]) :
                      Reach(source.bars[j], source.price)[Along(s, direction)] >= distance}
<1>1. source.bars = window /\ source.price = price
  BY DEF SourceFrom
<1>2. FirstHit(source, d, s, direction) = {Min(H) : H \in {hits} \ {{}}}
  BY DEF FirstHit
<1>3. hits = Hits(taken, d, price, window, s)
  <2>1. ThresholdDistance(source, d[s]) = {DistanceOf(taken, d, s)}
    BY DEF Told1
  <2>2. \A j : Reach(window[j], price)[Along(s, direction)] = FarOf(window[j], price, direction, s)
    BY DEF FarOf
  <2> HIDE DEF source, direction
  <2> QED BY <1>1, <2>1, <2>2 DEF Hits, Hit, direction
<1> HIDE DEF hits, source, direction
<1> QED BY <1>2, <1>3 DEF source, direction

LEMMA SignedAlong ==
    ASSUME NEW direction \in Directions, NEW s \in ThresholdSides, NEW x \in Int
    PROVE  Signed(Along(s, direction), x) * Unit = Towards(direction, s, x)
<1> DEFINE y == x * Unit
<1>1. y \in Int /\ (-x) * Unit = -y
  BY IndicatorAssumption
<1>2. Towards(direction, s, x) = IF SignOf(direction, s) = 1 THEN y ELSE -y
  BY TowardsIs
<1> HIDE DEF y
<1>3. CASE Along(s, direction) = "UP"
  <2>1. Signed(Along(s, direction), x) = x
    BY <1>3 DEF Signed
  <2>2. SignOf(direction, s) = 1
    BY <1>3 DEF SignOf
  <2> QED BY <1>2, <2>1, <2>2 DEF y
<1>4. CASE Along(s, direction) # "UP"
  <2>1. Signed(Along(s, direction), x) = -x
    BY <1>4 DEF Signed
  <2>2. SignOf(direction, s) = -1 /\ -1 # 1
    BY <1>4 DEF SignOf
  <2> QED BY <1>1, <1>2, <2>1, <2>2
<1> QED BY <1>3, <1>4

LEMMA AtOpenIs ==
    ASSUME NEW taken, NEW d, Measures(taken, d), NEW price \in Int, NEW window,
           NEW s \in ThresholdSides, Told1(taken, d, price, window, s),
           NEW j, window[j] \in Bar
    PROVE  AtOpen(SourceFrom(taken, price, window), d, s, DirectionOf(taken, d), j)
             <=> s \in SidesAt(taken, d, price, window[j].open)
<1> DEFINE source == SourceFrom(taken, price, window)
           direction == DirectionOf(taken, d)
           x == window[j].open - price
<1>1. x \in Int /\ direction \in Directions
  BY DEF Bar, Measures
<1>2. The(ThresholdDistance(source, d[s])) = DistanceOf(taken, d, s)
  BY TheOne DEF Told1
<1>3. Signed(Along(s, direction), source.bars[j].open - source.price) * Unit = Towards(direction, s, x)
  <2>1. source.bars[j].open - source.price = x
    BY DEF SourceFrom
  <2> HIDE DEF x, direction, source
  <2> QED BY <1>1, <2>1, SignedAlong
<1>4. s \in SidesAt(taken, d, price, window[j].open) <=> Towards(direction, s, x) >= DistanceOf(taken, d, s)
  BY SidesAtIs
<1> HIDE DEF x, direction, source
<1>5. AtOpen(source, d, s, direction, j) <=> Towards(direction, s, x) >= DistanceOf(taken, d, s)
  BY <1>2, <1>3 DEF AtOpen
<1> QED BY <1>4, <1>5 DEF source, direction

\* What Touched makes of the places of the two first hits.
FirstOf(S) == IF S = {} THEN {} ELSE {Min(S)}
Verdict(P, N, up, down) ==
    CASE P = {} /\ N = {} -> Result("NOT_REACHED")
      [] P # {} /\ P = N ->
           IF up = down THEN Lacking("AMBIGUOUS")
           ELSE Result(IF up THEN "POSITIVE_FIRST" ELSE "NEGATIVE_FIRST")
      [] OTHER -> Result(IF N = {} \/ (P # {} /\ The(P) < The(N))
                         THEN "POSITIVE_FIRST" ELSE "NEGATIVE_FIRST")

LEMMA ResultsDiffer ==
    /\ Result("NOT_REACHED") # Result("POSITIVE_FIRST") /\ Result("NOT_REACHED") # Result("NEGATIVE_FIRST")
    /\ Result("POSITIVE_FIRST") # Result("NEGATIVE_FIRST")
    /\ Lacking("AMBIGUOUS") # Result("NOT_REACHED") /\ Lacking("AMBIGUOUS") # Result("POSITIVE_FIRST")
    /\ Lacking("AMBIGUOUS") # Result("NEGATIVE_FIRST")
<1>1. \A v : Result(v).value[1] = v /\ Result(v).status = "AVAILABLE"
  BY DEF Result
<1>2. Lacking("AMBIGUOUS").status = "AMBIGUOUS"
  BY DEF Lacking
<1> QED BY <1>1, <1>2

\* The least of the places of two sets.
LEMMA LeastOfBoth ==
    ASSUME NEW P, NEW N, P \subseteq Nat, N \subseteq Nat
    PROVE  /\ P # {} => Min(P) \in P /\ Min(P) \in Nat /\ \A y \in P : Min(P) <= y
           /\ N # {} => Min(N) \in N /\ Min(N) \in Nat /\ \A y \in N : Min(N) <= y
           /\ P \cup N # {} => /\ Min(P \cup N) \in P \cup N /\ Min(P \cup N) \in Nat
                               /\ \A y \in P \cup N : Min(P \cup N) <= y
<1>1. ASSUME NEW S, S \subseteq Nat, S # {}
      PROVE  Min(S) \in S /\ Min(S) \in Nat /\ \A y \in S : Min(S) <= y
  <2>1. \E x \in S : \A y \in S : x <= y
    BY <1>1, LeastExists
  <2>2. Min(S) \in S /\ \A y \in S : Min(S) <= y
    BY <2>1 DEF Min
  <2> QED BY <1>1, <2>2
<1>2. P \cup N \subseteq Nat
  OBVIOUS
<1> QED BY <1>1, <1>2

\* The verdict in terms of the first place m that any of the sides hits.
Judges(v, P, N, up, down, m) ==
    /\ v = Result("NOT_REACHED") <=> P \cup N = {}
    /\ v = Result("POSITIVE_FIRST") <=> P \cup N # {} /\ m \in P /\ (m \notin N \/ (up /\ ~down))
    /\ v = Result("NEGATIVE_FIRST") <=> P \cup N # {} /\ m \in N /\ (m \notin P \/ (down /\ ~up))
    /\ m \in P /\ m \in N => m = Min(P)

LEMMA VerdictIs ==
    ASSUME NEW P, NEW N, P \subseteq Nat, N \subseteq Nat, NEW up \in BOOLEAN, NEW down \in BOOLEAN
    PROVE  Judges(Verdict(FirstOf(P), FirstOf(N), up, down), P, N, up, down, Min(P \cup N))
<1> DEFINE m == Min(P \cup N)
           p == Min(P)
           n == Min(N)
           v == Verdict(FirstOf(P), FirstOf(N), up, down)
<1>1. /\ P # {} => p \in P /\ p \in Nat /\ \A y \in P : p <= y
      /\ N # {} => n \in N /\ n \in Nat /\ \A y \in N : n <= y
      /\ P \cup N # {} => m \in P \cup N /\ m \in Nat /\ \A y \in P \cup N : m <= y
  BY LeastOfBoth
<1>2. FirstOf(P) = (IF P = {} THEN {} ELSE {p}) /\ FirstOf(N) = (IF N = {} THEN {} ELSE {n})
  BY DEF FirstOf
<1> HIDE DEF m, p, n, v
<1>3. /\ m \in P /\ P # {} => m = p
      /\ m \in N /\ N # {} => m = n
  BY <1>1
<1> SUFFICES Judges(v, P, N, up, down, m)
  BY DEF v, m
<1>4. CASE P = {} /\ N = {}
  <2>1. v = Result("NOT_REACHED")
    BY <1>2, <1>4 DEF v, Verdict
  <2> QED BY <1>4, <2>1, ResultsDiffer DEF Judges
<1>5. CASE P # {} /\ N # {} /\ p = n
  <2>1. m = p /\ m \in P /\ m \in N
    BY <1>1, <1>3, <1>5
  <2>2. v = IF up = down THEN Lacking("AMBIGUOUS")
            ELSE Result(IF up THEN "POSITIVE_FIRST" ELSE "NEGATIVE_FIRST")
    BY <1>2, <1>5 DEF v, Verdict
  <2>3. v # Result("NOT_REACHED")
    BY <2>2, ResultsDiffer
  <2>4. v = Result("POSITIVE_FIRST") <=> up /\ ~down
    BY <2>2, ResultsDiffer
  <2>5. v = Result("NEGATIVE_FIRST") <=> down /\ ~up
    BY <2>2, ResultsDiffer
  <2> QED BY <1>5, <2>1, <2>3, <2>4, <2>5 DEF Judges, p
<1>6. CASE P # {} /\ (N = {} \/ p < n)
  <2>1. m = p /\ m \in P /\ m \notin N
    <3>1. CASE N = {}
      BY <1>1, <1>3, <1>6, <3>1
    <3>2. CASE N # {} /\ p < n
      <4>1. m <= p
        BY <1>1, <1>6
      <4>2. m \notin N
        BY <1>1, <3>2, <4>1, <1>6
      <4> QED BY <1>1, <1>3, <1>6, <4>2
    <3> QED BY <1>6, <3>1, <3>2
  <2>2. v = Result("POSITIVE_FIRST")
    <3>1. CASE N = {}
      BY <1>2, <1>6, <3>1 DEF v, Verdict
    <3>2. CASE N # {} /\ p < n
      <4>1. p # n
        BY <1>1, <1>6, <3>2
      <4>2. The({p}) = p /\ The({n}) = n
        BY TheOne
      <4>3. {p} # {n}
        BY <4>1
      <4> QED BY <1>2, <1>6, <3>2, <4>2, <4>3 DEF v, Verdict
    <3> QED BY <1>6, <3>1, <3>2
  <2> QED BY <1>6, <2>1, <2>2, ResultsDiffer DEF Judges
<1>7. CASE N # {} /\ (P = {} \/ n < p)
  <2>1. m = n /\ m \in N /\ m \notin P
    <3>1. CASE P = {}
      BY <1>1, <1>3, <1>7, <3>1
    <3>2. CASE P # {} /\ n < p
      <4>1. m <= n
        BY <1>1, <1>7
      <4>2. m \notin P
        BY <1>1, <3>2, <4>1, <1>7
      <4> QED BY <1>1, <1>3, <1>7, <4>2
    <3> QED BY <1>7, <3>1, <3>2
  <2>2. v = Result("NEGATIVE_FIRST")
    <3>1. CASE P = {}
      BY <1>2, <1>7, <3>1 DEF v, Verdict
    <3>2. CASE P # {} /\ n < p
      <4>1. p # n /\ ~(p < n)
        BY <1>1, <1>7, <3>2
      <4>2. The({p}) = p /\ The({n}) = n
        BY TheOne
      <4>3. {p} # {n}
        BY <4>1
      <4> QED BY <1>2, <1>7, <3>2, <4>1, <4>2, <4>3 DEF v, Verdict
    <3> QED BY <1>7, <3>1, <3>2
  <2> QED BY <1>7, <2>1, <2>2, ResultsDiffer DEF Judges
<1>8. \/ P = {} /\ N = {}
      \/ P # {} /\ N # {} /\ p = n
      \/ P # {} /\ (N = {} \/ p < n)
      \/ N # {} /\ (P = {} \/ n < p)
  BY <1>1
<1> QED BY <1>4, <1>5, <1>6, <1>7, <1>8

\* What the open of the first bar to touch the positive side reaches.
OpensAt(taken, d, price, window, s) ==
    LET P == Hits(taken, d, price, window, "POSITIVE")
    IN P # {} /\ s \in SidesAt(taken, d, price, window[Min(P)].open)

LEMMA OpensBoolean ==
    ASSUME NEW taken, NEW d, NEW price, NEW window, NEW s
    PROVE  OpensAt(taken, d, price, window, s) \in BOOLEAN
BY DEF OpensAt

LEMMA HitsAre ==
    ASSUME NEW taken, NEW d, NEW price, NEW window \in Seq(Bar), NEW s
    PROVE  /\ Hits(taken, d, price, window, s) \subseteq Nat
           /\ \A j \in Hits(taken, d, price, window, s) :
                j \in DOMAIN window /\ window[j] \in Bar
<1>1. DOMAIN window = 1..Len(window) /\ Len(window) \in Nat /\ \A j \in DOMAIN window : window[j] \in Bar
  OBVIOUS
<1> QED BY <1>1 DEF Hits

LEMMA TouchedIs ==
    ASSUME NEW taken, NEW d, Measures(taken, d), NEW price \in Int, NEW window \in Seq(Bar),
           Told1(taken, d, price, window, "POSITIVE"), Told1(taken, d, price, window, "NEGATIVE")
    PROVE  Touched(SourceFrom(taken, price, window), d, DirectionOf(taken, d)) =
             Verdict(FirstOf(Hits(taken, d, price, window, "POSITIVE")),
                     FirstOf(Hits(taken, d, price, window, "NEGATIVE")),
                     OpensAt(taken, d, price, window, "POSITIVE"),
                     OpensAt(taken, d, price, window, "NEGATIVE"))
<1> DEFINE source == SourceFrom(taken, price, window)
           direction == DirectionOf(taken, d)
           positive == FirstHit(source, d, "POSITIVE", direction)
           negative == FirstHit(source, d, "NEGATIVE", direction)
           P == Hits(taken, d, price, window, "POSITIVE")
           N == Hits(taken, d, price, window, "NEGATIVE")
           up == OpensAt(taken, d, price, window, "POSITIVE")
           down == OpensAt(taken, d, price, window, "NEGATIVE")
           atUp == AtOpen(source, d, "POSITIVE", direction, The(positive))
           atDown == AtOpen(source, d, "NEGATIVE", direction, The(positive))
<1>1. positive = FirstOf(P) /\ negative = FirstOf(N)
  BY FirstHitIs DEF FirstOf
<1>2. ASSUME P # {}
      PROVE  /\ atUp <=> up
             /\ atDown <=> down
  <2> DEFINE p == Min(P)
  <2>1. p \in P
    BY <1>2, HitsAre, LeastOfBoth
  <2>2. window[p] \in Bar
    BY <2>1, HitsAre
  <2>3. The(positive) = p
    BY <1>1, <1>2, TheOne DEF FirstOf
  <2>4. /\ up <=> "POSITIVE" \in SidesAt(taken, d, price, window[p].open)
        /\ down <=> "NEGATIVE" \in SidesAt(taken, d, price, window[p].open)
    BY <1>2 DEF OpensAt
  <2>5. "POSITIVE" \in ThresholdSides /\ "NEGATIVE" \in ThresholdSides
    BY DEF ThresholdSides
  <2> HIDE DEF p
  <2>6. /\ AtOpen(source, d, "POSITIVE", direction, p) <=> "POSITIVE" \in SidesAt(taken, d, price, window[p].open)
        /\ AtOpen(source, d, "NEGATIVE", direction, p) <=> "NEGATIVE" \in SidesAt(taken, d, price, window[p].open)
    BY <2>2, <2>5, AtOpenIs
  <2> QED BY <2>3, <2>4, <2>6
<1>3. atUp \in BOOLEAN /\ atDown \in BOOLEAN /\ up \in BOOLEAN /\ down \in BOOLEAN
  BY OpensBoolean DEF AtOpen
<1>4. Touched(source, d, direction) = Verdict(positive, negative, atUp, atDown)
  BY DEF Touched, Verdict
<1> HIDE DEF source, direction, positive, negative, P, N, up, down, atUp, atDown
<1>5. CASE P # {}
  <2>1. atUp = up /\ atDown = down
    BY <1>2, <1>3, <1>5
  <2> QED BY <1>1, <1>4, <2>1 DEF source, direction, P, N, up, down
<1>6. CASE P = {}
  <2>1. positive = {}
    BY <1>1, <1>6 DEF FirstOf
  <2>2. Verdict(positive, negative, atUp, atDown) = Verdict(positive, negative, up, down)
    BY <2>1 DEF Verdict
  <2> QED BY <1>1, <1>4, <2>2 DEF source, direction, P, N, up, down
<1> QED BY <1>5, <1>6

\* The bars of the window that touch any side.
TouchingIn(taken, d, price, window) == {j \in DOMAIN window : IsTouching(taken, d, price, window[j])}

\* The category says which side comes first on every path of the first such bar.
Categorises(result, taken, d, price, window) ==
    /\ result = Result("NOT_REACHED") <=> TouchingIn(taken, d, price, window) = {}
    /\ \A s \in ThresholdSides :
         result = Result(FirstLabel[s]) <=>
           /\ TouchingIn(taken, d, price, window) # {}
           /\ FirstSides(taken, d, price, window[Min(TouchingIn(taken, d, price, window))]) = {{s}}

LEMMA TouchingAre ==
    ASSUME NEW taken, NEW d, Measures(taken, d), NEW price \in Int, NEW window \in Seq(Bar)
    PROVE  TouchingIn(taken, d, price, window) =
             Hits(taken, d, price, window, "POSITIVE") \cup Hits(taken, d, price, window, "NEGATIVE")
<1>1. \A j \in DOMAIN window :
        IsTouching(taken, d, price, window[j]) <=>
          \E s \in ThresholdSides : Hit(taken, d, price, window[j], s)
  <2>1. \A j \in DOMAIN window : window[j] \in Bar
    OBVIOUS
  <2> QED BY <2>1, TouchingIs
<1> QED BY <1>1 DEF TouchingIn, Hits, ThresholdSides

\* The verdict on one side.
LEMMA VerdictOnSide ==
    ASSUME NEW taken, NEW d, Measures(taken, d), NEW bar \in Bar, NEW price \in Int,
           NEW s \in ThresholdSides, NEW hit \in BOOLEAN, NEW other \in BOOLEAN, hit \/ other,
           hit <=> Hit(taken, d, price, bar, s),
           other <=> Hit(taken, d, price, bar, OtherThreshold(s)),
           NEW opens \in BOOLEAN, NEW otherOpens \in BOOLEAN,
           hit /\ other => /\ opens <=> s \in SidesAt(taken, d, price, bar.open)
                           /\ otherOpens <=> OtherThreshold(s) \in SidesAt(taken, d, price, bar.open)
    PROVE  FirstSides(taken, d, price, bar) = {{s}} <=> hit /\ (~other \/ (opens /\ ~otherOpens))
<1> DEFINE a == SidesAt(taken, d, price, bar.open)
           o == OtherThreshold(s)
<1>1. FirstSides(taken, d, price, bar) = {{s}} <=> hit /\ (~other \/ a = {s})
  <2>1. Hit(taken, d, price, bar, s) \/ Hit(taken, d, price, bar, OtherThreshold(s))
    OBVIOUS
  <2> QED BY <2>1, FirstOfBar
<1>2. a \subseteq {s, o} /\ s # o
  <2>1. DirectionOf(taken, d) \in Directions
    BY DEF Measures
  <2> QED BY <2>1, AlongIs, SidesAtIs
<1> HIDE DEF a, o
<1>3. a = {s} <=> s \in a /\ o \notin a
  BY <1>2
<1>4. hit /\ other => (opens <=> s \in a) /\ (otherOpens <=> o \in a)
  BY DEF a, o
<1> QED BY <1>1, <1>3, <1>4

LEMMA CategoryIs ==
    ASSUME NEW taken, NEW d, Measures(taken, d), NEW price \in Int, NEW window \in Seq(Bar),
           Told1(taken, d, price, window, "POSITIVE"), Told1(taken, d, price, window, "NEGATIVE")
    PROVE  Categorises(Touched(SourceFrom(taken, price, window), d, DirectionOf(taken, d)),
                       taken, d, price, window)
<1> DEFINE v == Touched(SourceFrom(taken, price, window), d, DirectionOf(taken, d))
           P == Hits(taken, d, price, window, "POSITIVE")
           N == Hits(taken, d, price, window, "NEGATIVE")
           T == TouchingIn(taken, d, price, window)
           up == OpensAt(taken, d, price, window, "POSITIVE")
           down == OpensAt(taken, d, price, window, "NEGATIVE")
           m == Min(T)
           bar == window[m]
           A == SidesAt(taken, d, price, bar.open)
<1>1. T = P \cup N /\ P \subseteq Nat /\ N \subseteq Nat /\ up \in BOOLEAN /\ down \in BOOLEAN
  BY TouchingAre, HitsAre, OpensBoolean
<1>2. v = Verdict(FirstOf(P), FirstOf(N), up, down)
  BY TouchedIs
<1>3. ASSUME T # {}
      PROVE  /\ m \in T /\ bar \in Bar
             /\ m \in P <=> Hit(taken, d, price, bar, "POSITIVE")
             /\ m \in N <=> Hit(taken, d, price, bar, "NEGATIVE")
  <2>1. m \in P \cup N
    <3> HIDE DEF P, N, T
    <3> QED BY <1>1, <1>3, LeastOfBoth
  <2>2. m \in DOMAIN window /\ window[m] \in Bar
    BY <2>1, HitsAre
  <2> HIDE DEF m
  <2> QED BY <1>1, <2>1, <2>2 DEF Hits
<1>4. ASSUME m \in P, m = Min(P)
      PROVE  (up <=> "POSITIVE" \in A) /\ (down <=> "NEGATIVE" \in A)
  BY <1>4 DEF OpensAt
<1>5. /\ v = Result("NOT_REACHED") <=> T = {}
      /\ v = Result("POSITIVE_FIRST") <=> T # {} /\ m \in P /\ (m \notin N \/ (up /\ ~down))
      /\ v = Result("NEGATIVE_FIRST") <=> T # {} /\ m \in N /\ (m \notin P \/ (down /\ ~up))
      /\ m \in P /\ m \in N => m = Min(P)
  <2> HIDE DEF v, P, N, T, up, down
  <2>1. Judges(v, P, N, up, down, Min(P \cup N))
    BY <1>1, <1>2, VerdictIs
  <2>2. Min(P \cup N) = m
    BY <1>1
  <2> HIDE DEF m
  <2> QED BY <1>1, <2>1, <2>2 DEF Judges
<1>6. /\ "POSITIVE" \in ThresholdSides /\ "NEGATIVE" \in ThresholdSides
      /\ OtherThreshold("POSITIVE") = "NEGATIVE" /\ OtherThreshold("NEGATIVE") = "POSITIVE"
  BY DEF ThresholdSides, OtherThreshold
<1> HIDE DEF v, P, N, T, up, down, bar, m
<1>7. ASSUME T # {}
      PROVE  /\ FirstSides(taken, d, price, bar) = {{"POSITIVE"}} <=> m \in P /\ (m \notin N \/ (up /\ ~down))
             /\ FirstSides(taken, d, price, bar) = {{"NEGATIVE"}} <=> m \in N /\ (m \notin P \/ (down /\ ~up))
  <2>1. /\ m \in P \/ m \in N
        /\ bar \in Bar
        /\ m \in P <=> Hit(taken, d, price, bar, "POSITIVE")
        /\ m \in N <=> Hit(taken, d, price, bar, "NEGATIVE")
    BY <1>1, <1>3, <1>7
  <2>2. m \in P /\ m \in N => (up <=> "POSITIVE" \in A) /\ (down <=> "NEGATIVE" \in A)
    BY <1>4, <1>5
  <2> DEFINE hit == m \in P
             other == m \in N
  <2>3. hit \in BOOLEAN /\ other \in BOOLEAN
    OBVIOUS
  <2>4. /\ hit \/ other
        /\ bar \in Bar
        /\ hit <=> Hit(taken, d, price, bar, "POSITIVE")
        /\ other <=> Hit(taken, d, price, bar, "NEGATIVE")
        /\ hit /\ other => (up <=> "POSITIVE" \in A) /\ (down <=> "NEGATIVE" \in A)
    BY <2>1, <2>2
  <2> HIDE DEF hit, other
  <2>5. FirstSides(taken, d, price, bar) = {{"POSITIVE"}} <=> hit /\ (~other \/ (up /\ ~down))
    BY <1>1, <1>6, <2>3, <2>4, VerdictOnSide
  <2>6. FirstSides(taken, d, price, bar) = {{"NEGATIVE"}} <=> other /\ (~hit \/ (down /\ ~up))
    BY <1>1, <1>6, <2>3, <2>4, VerdictOnSide
  <2> QED BY <2>5, <2>6 DEF hit, other
<1>8. FirstLabel["POSITIVE"] = "POSITIVE_FIRST" /\ FirstLabel["NEGATIVE"] = "NEGATIVE_FIRST"
  BY DEF FirstLabel
<1>9. v = Result(FirstLabel["POSITIVE"]) <=> T # {} /\ FirstSides(taken, d, price, bar) = {{"POSITIVE"}}
  BY <1>5, <1>7, <1>8
<1>10. v = Result(FirstLabel["NEGATIVE"]) <=> T # {} /\ FirstSides(taken, d, price, bar) = {{"NEGATIVE"}}
  BY <1>5, <1>7, <1>8
<1>11. \A s \in ThresholdSides : v = Result(FirstLabel[s]) <=> T # {} /\ FirstSides(taken, d, price, bar) = {{s}}
  BY <1>9, <1>10 DEF ThresholdSides
<1> QED BY <1>5, <1>11 DEF Categorises, v, T, bar, m

\* The excursion of a window to a side is the furthest of its bars.
LEMMA SpansIs ==
    ASSUME NEW taken, NEW d, DirectionOf(taken, d) \in Directions, d.side \in ThresholdSides,
           NEW price \in Int, NEW at \in Nat, NEW h \in Nat \ {0}, \A i \in at + 1 .. at + h : bars[i] \in Bar,
           NEW D \in Int
    PROVE  Spans(taken, d, price, at + 1, h) >= D <=>
             \E k \in 1..h : FarOf(bars[at + k], price, DirectionOf(taken, d), d.side) >= D
<1> DEFINE direction == DirectionOf(taken, d)
           kind == Along(d.side, direction)
           w == SubSeq(bars, at + 1, (at + 1) + h - 1)
           far == [k \in 1..h |-> FarOf(bars[at + k], price, direction, d.side)]
           S == {Reach(w[j], price)[kind] : j \in DOMAIN w}
<1>1. kind \in {"UP", "DOWN"}
  BY AlongIs DEF Directions
<1>2. DOMAIN w = 1..h /\ \A k \in 1..h : w[k] = bars[at + k]
  <2>1. at + 1 \in Int /\ (at + 1) + h - 1 \in Int /\ at + 1 <= (at + 1) + h - 1
        /\ (at + 1) + h - 1 = at + h
    OBVIOUS
  <2>2. \A i \in at + 1 .. (at + 1) + h - 1 : bars[i] \in Bar
    BY <2>1
  <2>3. /\ w \in Seq(Bar) /\ Len(w) = ((at + 1) + h - 1) - (at + 1) + 1
        /\ \A i \in 1..(((at + 1) + h - 1) - (at + 1) + 1) : w[i] = bars[(at + 1) + i - 1]
    BY <2>1, <2>2, SliceProperties
  <2> HIDE DEF w
  <2>4. Len(w) = h /\ \A i \in 1..h : w[i] = bars[(at + 1) + i - 1] /\ (at + 1) + i - 1 = at + i
    BY <2>3
  <2> QED BY <2>3, <2>4
<1>3. \A k \in 1..h : far[k] \in Int /\ far[k] = FarOf(bars[at + k], price, direction, d.side)
  <2>1. ASSUME NEW k \in 1..h PROVE FarOf(bars[at + k], price, direction, d.side) \in Int
    <3>1. at + k \in at + 1 .. at + h
      OBVIOUS
    <3>2. bars[at + k] \in Bar
      BY <3>1
    <3> HIDE DEF direction
    <3> QED BY <3>2, FarIs DEF direction
  <2> QED BY <2>1
<1>4. S = {far[k] : k \in 1..h}
  <2>1. \A k \in 1..h : Reach(w[k], price)[kind] = far[k]
    BY <1>2 DEF FarOf
  <2> HIDE DEF w, far, kind
  <2> QED BY <1>2, <2>1
<1>5. Spans(taken, d, price, at + 1, h) = Max(S)
  <2> DEFINE source == [snapshot |-> taken, price |-> price, bars |-> w]
             def == [kind |-> kind, normalized |-> FALSE]
  <2>1. Spans(taken, d, price, at + 1, h) = Excursion(source, def).value[1]
    BY DEF Spans
  <2>2. source.bars = w /\ source.price = price /\ def.kind = kind /\ def.normalized = FALSE
    OBVIOUS
  <2> HIDE DEF source, def, w, kind
  <2>3. Excursion(source, def) = Result(Max(S))
    BY <1>1, <2>2 DEF Excursion
  <2>4. Result(Max(S)).value[1] = Max(S)
    BY DEF Result
  <2> QED BY <2>1, <2>3, <2>4
<1> HIDE DEF S, w, kind, far, direction
<1>6. PICK m \in 1..h : \A k \in 1..h : far[k] <= far[m]
  BY <1>3, HighestExists
<1>7. Max(S) = far[m]
  <2>1. far[m] \in S /\ \A y \in S : far[m] >= y
    BY <1>3, <1>4, <1>6
  <2>2. Max(S) \in S /\ \A y \in S : Max(S) >= y
    BY <2>1 DEF Max
  <2> DEFINE x == Max(S)
  <2> HIDE DEF x
  <2>3. x \in Int /\ far[m] \in Int /\ far[m] >= x /\ x >= far[m]
    BY <1>3, <1>4, <2>1, <2>2 DEF x
  <2>4. x = far[m]
    BY <2>3
  <2> QED BY <2>4 DEF x
<1>8. Max(S) >= D <=> \E k \in 1..h : far[k] >= D
  BY <1>3, <1>6, <1>7
<1> QED BY <1>3, <1>5, <1>8 DEF direction

\* The bars of a window are the h bars after bar at.
Placed(window, at, h) ==
    window \in Seq(Bar) /\ Len(window) = h /\ \A k \in 1..h : window[k] = bars[at + k]

\* The windows whose excursion reaches a side.
Reaching(taken, d, price, from, h) ==
    {n \in 1..h : Spans(taken, d, price, from, n) >= DistanceOf(taken, d, d.side)}

\* A window that some bar of which reaches the side of the definition.
HasReached(taken, d, price, window, at, h) ==
    /\ DirectionOf(taken, d) \in Directions /\ d.side \in ThresholdSides
    /\ DistanceOf(taken, d, d.side) \in Int
    /\ Hits(taken, d, price, window, d.side) # {}
    /\ price \in Int /\ at \in Nat /\ h \in Nat \ {0} /\ Placed(window, at, h)

\* The first bar that reaches a side is the shortest window whose excursion does.
LEMMA ShortestReaches ==
    ASSUME NEW taken, NEW d, NEW price, NEW window, NEW at, NEW h,
           HasReached(taken, d, price, window, at, h)
    PROVE  Min(Hits(taken, d, price, window, d.side)) = Min(Reaching(taken, d, price, at + 1, h))
<1> USE DEF Placed, HasReached
<1> DEFINE D == DistanceOf(taken, d, d.side)
           H == Hits(taken, d, price, window, d.side)
           R == {n \in 1..h : Spans(taken, d, price, at + 1, n) >= D}
           m == Min(H)
           r == Min(R)
<1>1. H \subseteq 1..h /\ \A k \in 1..h : k \in H <=> FarOf(bars[at + k], price, DirectionOf(taken, d), d.side) >= D
  BY DEF Hits, Hit
<1>2. \A n \in 1..h : n \in R <=> \E k \in 1..n : k \in H
  <2>1. ASSUME NEW n \in 1..h PROVE n \in R <=> \E k \in 1..n : k \in H
    <3>1. \A i \in at + 1 .. at + n : bars[i] \in Bar
      <4>1. ASSUME NEW i \in at + 1 .. at + n PROVE bars[i] \in Bar
        <5>1. i - at \in 1..h /\ at + (i - at) = i
          OBVIOUS
        <5>2. bars[i] = window[i - at] /\ window[i - at] \in Bar
          BY <5>1
        <5> QED BY <5>2
      <4> QED BY <4>1
    <3>2. n \in Nat \ {0} /\ D \in Int
      OBVIOUS
    <3> HIDE DEF D, H
    <3>3. Spans(taken, d, price, at + 1, n) >= D <=>
            \E k \in 1..n : FarOf(bars[at + k], price, DirectionOf(taken, d), d.side) >= D
      BY <3>1, <3>2, SpansIs
    <3>4. \A k \in 1..n : k \in 1..h
      OBVIOUS
    <3> QED BY <1>1, <3>3, <3>4
  <2> QED BY <2>1
<1>3. R \subseteq Nat /\ H \subseteq Nat /\ R \subseteq 1..h /\ H # {}
  BY <1>1
<1> HIDE DEF H, R, D
<1>4. m \in H /\ m \in Nat /\ \A y \in H : m <= y
  BY <1>3, LeastOfBoth
<1>5. m \in R
  <2>1. m \in 1..h /\ m \in 1..m
    BY <1>1, <1>4
  <2> HIDE DEF m
  <2> QED BY <1>2, <1>4, <2>1
<1>6. r \in R /\ r \in Nat /\ \A y \in R : r <= y
  BY <1>3, <1>5, LeastOfBoth
<1> HIDE DEF m, r
<1>7. PICK k \in 1..r : k \in H
  BY <1>2, <1>3, <1>6
<1>8. m <= k /\ k <= r /\ r <= m /\ k \in Int
  BY <1>4, <1>5, <1>6, <1>7
<1>9. m = r
  BY <1>4, <1>6, <1>8
<1> QED BY <1>9 DEF m, r, H, R, D, Reaching

-------------------------------------------------------------------------------
(* The outcome of an event.                                                *)

IsThreshold(d) ==
    /\ d.outcome = "TIME_TO_THRESHOLD" /\ d.mode = "FROM_DETECTION_TIME"
    /\ d.horizon \in Nat \ {0}
    /\ d.side \in ThresholdSides /\ \A s \in ThresholdSides : d[s].value \in Nat

LEMMA ThresholdIs ==
    ASSUME NEW d \in Outcomes, d.outcome = "TIME_TO_THRESHOLD" PROVE IsThreshold(d)
BY OutcomeAssumption DEF IsThreshold, ThresholdSides

LEMMA DistanceTold ==
    ASSUME NEW taken, NEW d, NEW price, NEW window, NEW s \in ThresholdSides, IsThreshold(d),
           taken.atr = {} \/ \E v \in Nat : taken.atr = {v},
           ThresholdDistance(SourceFrom(taken, price, window), d[s]) # {}
    PROVE  Told1(taken, d, price, window, s) /\ DistanceOf(taken, d, s) \in Nat
<1> DEFINE source == SourceFrom(taken, price, window)
           limit == d[s]
<1>1. limit.value \in Nat /\ source.snapshot = taken /\ Unit \in Nat
  BY IndicatorAssumption DEF IsThreshold, SourceFrom
<1>2. CASE limit.units = "POINTS"
  <2>1. ThresholdDistance(source, limit) = {limit.value * Unit}
    BY <1>2 DEF ThresholdDistance
  <2>2. DistanceOf(taken, d, s) = limit.value * Unit
    BY <1>2 DEF DistanceOf
  <2>3. limit.value * Unit \in Nat
    BY <1>1
  <2> QED BY <2>1, <2>2, <2>3 DEF Told1
<1>3. CASE limit.units # "POINTS"
  <2> DEFINE captured == CapturedAtr(source)
  <2>1. captured = {v \in taken.atr : v > 0}
    BY <1>1 DEF CapturedAtr
  <2>2. ThresholdDistance(source, limit) = {limit.value * v : v \in captured}
    BY <1>3 DEF ThresholdDistance
  <2> HIDE DEF captured
  <2>3. captured # {}
    BY <2>2
  <2>4. PICK x \in Nat : taken.atr = {x}
    BY <2>1, <2>3
  <2>5. captured = {x}
    BY <2>1, <2>3, <2>4
  <2>6. The(taken.atr) = x
    BY <2>4, TheOne
  <2>7. DistanceOf(taken, d, s) = limit.value * x
    BY <1>3, <2>6 DEF DistanceOf
  <2>8. limit.value * x \in Nat
    BY <1>1, <2>4
  <2>9. ThresholdDistance(source, limit) = {limit.value * x}
    BY <2>2, <2>5
  <2> QED BY <2>7, <2>8, <2>9 DEF Told1
<1> QED BY <1>2, <1>3

\* What a result that is there says of the window.
Answers(result, taken, d, price, window) ==
    IF d.kind = "CATEGORY" THEN Categorises(result, taken, d, price, window)
    ELSE /\ Hits(taken, d, price, window, d.side) # {}
         /\ result.value[1] = Min(Hits(taken, d, price, window, d.side))
         /\ DistanceOf(taken, d, d.side) \in Nat

IsThere(result) == result.status \in {"AVAILABLE", "AMBIGUOUS"}

LEMMA ThresholdAnswers ==
    ASSUME NEW taken, NEW d, IsThreshold(d), NEW price \in Int, NEW window \in Seq(Bar),
           taken.atr = {} \/ \E v \in Nat : taken.atr = {v},
           taken.direction = {} \/ \E v \in Directions : taken.direction = {v},
           IsThere(TimeToThreshold(SourceFrom(taken, price, window), d))
    PROVE  /\ DirectionOf(taken, d) \in Directions
           /\ Answers(TimeToThreshold(SourceFrom(taken, price, window), d), taken, d, price, window)
<1> DEFINE source == SourceFrom(taken, price, window)
           direction == IF d.basis = "UP_DOWN" THEN {"UP"} ELSE source.snapshot.direction
           sides == IF d.kind = "CATEGORY" THEN {"POSITIVE", "NEGATIVE"} ELSE {d.side}
           lacks == direction = {} \/ \E s \in sides : ThresholdDistance(source, d[s]) = {}
           result == TimeToThreshold(source, d)
<1>1. result = IF lacks THEN Lacking("NOT_APPLICABLE")
               ELSE IF d.kind = "CATEGORY" THEN Touched(source, d, The(direction))
               ELSE Offset(source, d, The(direction))
  BY DEF TimeToThreshold
<1>2. ~lacks
  <2>1. Lacking("NOT_APPLICABLE").status = "NOT_APPLICABLE"
    BY DEF Lacking
  <2> HIDE DEF lacks, result, source
  <2>2. IsThere(result)
    BY DEF result, source
  <2> QED BY <1>1, <2>1, <2>2 DEF IsThere
<1>3. source.snapshot = taken
  BY DEF SourceFrom
<1>4. The(direction) = DirectionOf(taken, d) /\ DirectionOf(taken, d) \in Directions
  <2>1. CASE d.basis = "UP_DOWN"
    <3>1. direction = {"UP"} /\ DirectionOf(taken, d) = "UP" /\ "UP" \in Directions
      BY <2>1 DEF DirectionOf, Directions
    <3>2. The({"UP"}) = "UP"
      BY TheOne
    <3> HIDE DEF direction
    <3> QED BY <3>1, <3>2
  <2>2. CASE d.basis # "UP_DOWN"
    <3>1. PICK v \in Directions : taken.direction = {v}
      BY <1>2, <1>3, <2>2
    <3>2. direction = {v} /\ DirectionOf(taken, d) = The({v})
      BY <1>3, <2>2, <3>1 DEF DirectionOf
    <3>3. The({v}) = v
      BY TheOne
    <3> HIDE DEF direction
    <3> QED BY <3>1, <3>2, <3>3
  <2> QED BY <2>1, <2>2
<1>5. \A s \in sides : Told1(taken, d, price, window, s) /\ DistanceOf(taken, d, s) \in Nat
  <2>1. \A s \in sides : s \in ThresholdSides /\ ThresholdDistance(source, d[s]) # {}
    BY <1>2 DEF ThresholdSides, IsThreshold
  <2> HIDE DEF sides
  <2> QED BY <2>1, DistanceTold
<1> HIDE DEF direction, lacks, result
<1>6. CASE d.kind = "CATEGORY"
  <2>1. Measures(taken, d)
    BY <1>4, <1>5, <1>6 DEF Measures
  <2>2. Told1(taken, d, price, window, "POSITIVE") /\ Told1(taken, d, price, window, "NEGATIVE")
    BY <1>5, <1>6
  <2> HIDE DEF source, sides
  <2>3. result = Touched(source, d, DirectionOf(taken, d))
    BY <1>1, <1>2, <1>4, <1>6
  <2>4. Categorises(result, taken, d, price, window)
    BY <2>1, <2>2, <2>3, CategoryIs DEF source
  <2> QED BY <1>4, <1>6, <2>4 DEF Answers, result, source
<1>7. CASE d.kind # "CATEGORY"
  <2> DEFINE H == Hits(taken, d, price, window, d.side)
             D == DirectionOf(taken, d)
  <2>1. Told1(taken, d, price, window, d.side) /\ DistanceOf(taken, d, d.side) \in Nat
    BY <1>5, <1>7
  <2> HIDE DEF source, sides, H, D
  <2>2. FirstHit(source, d, d.side, D) = IF H = {} THEN {} ELSE {Min(H)}
    <3> DEFINE s == d.side
    <3>1. Told1(taken, d, price, window, s)
      BY <2>1
    <3> HIDE DEF s
    <3>2. FirstHit(SourceFrom(taken, price, window), d, s, DirectionOf(taken, d)) =
            IF Hits(taken, d, price, window, s) = {} THEN {}
            ELSE {Min(Hits(taken, d, price, window, s))}
      BY <3>1, FirstHitIs
    <3> QED BY <3>2 DEF source, D, H, s
  <2>3. result = Offset(source, d, D)
    BY <1>1, <1>2, <1>4, <1>7 DEF D
  <2>4. H # {} /\ result = Result(Min(H))
    <3>1. Lacking("NOT_APPLICABLE").status = "NOT_APPLICABLE"
      BY DEF Lacking
    <3>2. IsThere(result)
      BY DEF result, source
    <3>3. result = IF H = {} THEN Lacking("NOT_APPLICABLE") ELSE Result(The({Min(H)}))
      BY <2>2, <2>3 DEF Offset
    <3> QED BY <3>1, <3>2, <3>3, TheOne DEF IsThere
  <2>5. result.value[1] = Min(H)
    BY <2>4 DEF Result
  <2> QED BY <1>4, <1>7, <2>1, <2>4, <2>5 DEF Answers, H, result, source
<1> QED BY <1>6, <1>7

\* What the property says of a result, over the bars from `from` on.
Follows(result, taken, d, price, from) ==
    LET touching == {j \in from .. from + d.horizon - 1 : IsTouching(taken, d, price, bars[j])}
    IN IsThere(result) =>
         IF d.kind = "CATEGORY"
         THEN /\ result = Result("NOT_REACHED") <=> touching = {}
              /\ \A s \in {"POSITIVE", "NEGATIVE"} :
                   result = Result(FirstLabel[s]) <=>
                     touching # {} /\ FirstSides(taken, d, price, bars[Min(touching)]) = {{s}}
         ELSE result.value[1] =
                Min({h \in 1 .. d.horizon : Spans(taken, d, price, from, h) >= DistanceOf(taken, d, d.side)})

\* The places of a window in the series.
Shifted(T, G, at, h) ==
    /\ T \subseteq 1..h /\ G \subseteq at + 1 .. at + h
    /\ \A j \in 1..h : j \in T <=> at + j \in G

LEMMA ShiftedPlaces ==
    ASSUME NEW at \in Nat, NEW h \in Nat \ {0}, NEW T, NEW G, Shifted(T, G, at, h)
    PROVE  /\ T = {} <=> G = {}
           /\ T # {} => Min(T) \in T /\ Min(G) = at + Min(T)
<1> USE DEF Shifted
<1>1. \A g \in G : g \in Int /\ g - at \in T /\ at + (g - at) = g
  <2>1. ASSUME NEW g \in G PROVE g \in Int /\ g - at \in T /\ at + (g - at) = g
    <3>1. g \in at + 1 .. at + h
      OBVIOUS
    <3>2. g - at \in 1..h /\ at + (g - at) = g
      BY <3>1
    <3> QED BY <3>2
  <2> QED BY <2>1
<1>2. T = {} <=> G = {}
  BY <1>1
<1>3. ASSUME T # {} PROVE Min(T) \in T /\ Min(G) = at + Min(T)
  <2> DEFINE t == Min(T)
             g == Min(G)
  <2>1. T \subseteq Nat /\ G \subseteq Nat /\ G # {}
    <3>1. \A x \in 1..h : x \in Nat
      OBVIOUS
    <3>2. \A x \in at + 1 .. at + h : x \in Nat
      OBVIOUS
    <3> QED BY <1>2, <1>3, <3>1, <3>2
  <2>2. t \in T /\ t \in Nat /\ \A y \in T : t <= y
    BY <1>3, <2>1, LeastOfBoth
  <2>3. g \in G /\ g \in Nat /\ \A y \in G : g <= y
    BY <2>1, LeastOfBoth
  <2> HIDE DEF t, g
  <2>4. at + t \in G
    BY <2>2
  <2>5. g - at \in T
    BY <1>1, <2>3
  <2>6. g <= at + t /\ t <= g - at
    BY <2>2, <2>3, <2>4, <2>5
  <2>7. g = at + t
    BY <2>2, <2>3, <2>6
  <2> QED BY <2>2, <2>7 DEF t, g
<1> QED BY <1>2, <1>3

LEMMA AnswersFollow ==
    ASSUME NEW result, NEW taken, NEW d, IsThreshold(d), DirectionOf(taken, d) \in Directions,
           NEW price \in Int, NEW at \in Nat, NEW window \in Seq(Bar), Len(window) = d.horizon,
           \A k \in 1..d.horizon : window[k] = bars[at + k],
           IsThere(result) => Answers(result, taken, d, price, window)
    PROVE  Follows(result, taken, d, price, at + 1)
<1> DEFINE h == d.horizon
           from == at + 1
           G == {j \in from .. from + d.horizon - 1 : IsTouching(taken, d, price, bars[j])}
           T == TouchingIn(taken, d, price, window)
<1>1. h \in Nat \ {0} /\ d.side \in ThresholdSides
  BY DEF IsThreshold
<1>2. Shifted(T, G, at, h)
  <2>1. T \subseteq 1..h /\ \A j \in 1..h : j \in T <=> IsTouching(taken, d, price, bars[at + j])
    BY DEF TouchingIn
  <2>2. from + d.horizon - 1 = at + h
    <3>1. \A x \in Nat : (at + 1) + x - 1 = at + x
      OBVIOUS
    <3>2. h \in Nat /\ d.horizon = h /\ from = at + 1
      BY <1>1
    <3> HIDE DEF h, from
    <3> QED BY <3>1, <3>2
  <2>3. \A j \in 1..h : at + j \in from .. at + h
    BY <1>1
  <2> HIDE DEF T, h
  <2> QED BY <2>1, <2>2, <2>3 DEF Shifted
<1> HIDE DEF T, G, h
<1>3. /\ T = {} <=> G = {}
      /\ T # {} => Min(T) \in T /\ Min(G) = at + Min(T)
  BY <1>1, <1>2, ShiftedPlaces
<1>4. T # {} => bars[Min(G)] = window[Min(T)]
  <2>1. T # {} => Min(T) \in 1..h
    BY <1>2, <1>3 DEF Shifted
  <2> QED BY <1>3, <2>1 DEF h
<1>5. ASSUME IsThere(result), d.kind = "CATEGORY"
      PROVE  /\ result = Result("NOT_REACHED") <=> G = {}
             /\ \A s \in {"POSITIVE", "NEGATIVE"} :
                  result = Result(FirstLabel[s]) <=>
                    G # {} /\ FirstSides(taken, d, price, bars[Min(G)]) = {{s}}
  <2>1. Categorises(result, taken, d, price, window)
    BY <1>5 DEF Answers
  <2>2. /\ result = Result("NOT_REACHED") <=> T = {}
        /\ \A s \in ThresholdSides : result = Result(FirstLabel[s]) <=>
             T # {} /\ FirstSides(taken, d, price, window[Min(T)]) = {{s}}
    BY <2>1 DEF Categorises, T
  <2>3. ASSUME NEW s \in {"POSITIVE", "NEGATIVE"}
        PROVE  result = Result(FirstLabel[s]) <=>
                 G # {} /\ FirstSides(taken, d, price, bars[Min(G)]) = {{s}}
    <3>1. result = Result(FirstLabel[s]) <=>
            T # {} /\ FirstSides(taken, d, price, window[Min(T)]) = {{s}}
      BY <2>2 DEF ThresholdSides
    <3> QED BY <1>3, <1>4, <3>1
  <2> QED BY <1>3, <2>2, <2>3
<1>6. ASSUME IsThere(result), d.kind # "CATEGORY"
      PROVE  result.value[1] =
               Min({n \in 1 .. d.horizon : Spans(taken, d, price, from, n) >= DistanceOf(taken, d, d.side)})
  <2>1. /\ Hits(taken, d, price, window, d.side) # {}
        /\ result.value[1] = Min(Hits(taken, d, price, window, d.side))
        /\ DistanceOf(taken, d, d.side) \in Int
    BY <1>6 DEF Answers
  <2>2. Placed(window, at, h)
    BY DEF h, Placed
  <2>3. Min(Hits(taken, d, price, window, d.side)) = Min(Reaching(taken, d, price, at + 1, h))
    <3>1. HasReached(taken, d, price, window, at, h)
      BY <1>1, <2>1, <2>2 DEF HasReached
    <3> QED BY <3>1, ShortestReaches
  <2> QED BY <2>1, <2>3 DEF h, Reaching
<1> QED BY <1>5, <1>6 DEF Follows, G

-------------------------------------------------------------------------------
\* The first bar of a whole window.
LEMMA WindowStarts ==
    ASSUME NEW at \in Nat, NEW h \in Nat \ {0}, NEW k \in Nat, ~Lacks(at, h, k)
    PROVE  /\ k >= at + h
           /\ (CHOOSE j \in 1 .. k + 1 : MinuteOf(j) = MinuteOf(at) + 1) = at + 1
<1>1. WholeWindow(at, h) /\ k >= at + h
  BY LacksIs
<1>2. MissingMinute \notin MinuteOf(at) + 1 .. MinuteOf(at) + h
  BY <1>1, MissingBetween DEF WholeWindow
<1>3. MinuteOf(at) \in Int /\ MissingMinute \in Int
  BY MinuteTyped, MinutesAreNat
<1>4. MissingMinute \notin MinuteOf(at) + 1 .. MinuteOf(at) + 1
  <2> DEFINE m == MinuteOf(at)
  <2>1. m \in Int /\ MissingMinute \notin m + 1 .. m + h
    BY <1>2, <1>3
  <2> HIDE DEF m
  <2>2. m + 1 \in m + 1 .. m + h
    BY <2>1
  <2>3. MissingMinute # m + 1
    BY <2>1, <2>2
  <2>4. MissingMinute \notin m + 1 .. m + 1
    BY <1>3, <2>1, <2>3
  <2> QED BY <2>4 DEF m
<1>5. MinuteOf(at + 1) = MinuteOf(at) + 1
  <2>1. 1 \in Nat \ {0}
    OBVIOUS
  <2> QED BY <1>4, <2>1, MissingBetween
<1> DEFINE x == CHOOSE j \in 1 .. k + 1 : MinuteOf(j) = MinuteOf(at) + 1
<1>6. at + 1 \in 1 .. k + 1
  BY <1>1
<1>7. x \in 1 .. k + 1 /\ MinuteOf(x) = MinuteOf(at) + 1
  BY <1>5, <1>6
<1> HIDE DEF x
<1>8. x = at + 1
  <2> DEFINE y == at + 1
  <2>1. x \in Int /\ y \in Int /\ MinuteOf(x) = MinuteOf(y)
    BY <1>5, <1>7
  <2> HIDE DEF y
  <2>2. MinuteOf(x) \in Int /\ MinuteOf(y) \in Int
    BY <2>1, MinuteTyped
  <2>3. (x < y <=> MinuteOf(x) < MinuteOf(y)) /\ (y < x <=> MinuteOf(y) < MinuteOf(x))
    BY <2>1, MinutesInOrder
  <2>4. x = y
    BY <2>1, <2>2, <2>3
  <2> QED BY <2>4 DEF y
<1> QED BY <1>1, <1>8 DEF x

LEMMA RangeEnds ==
    ASSUME NEW a \in Int, NEW b \in Int, a <= b
    PROVE  Min(a..b) = a /\ Max(a..b) = b
<1>1. a \in a..b /\ \A y \in a..b : a <= y
  OBVIOUS
<1>2. b \in a..b /\ \A y \in a..b : b >= y
  OBVIOUS
<1> DEFINE m == Min(a..b)
           n == Max(a..b)
<1>3. m \in a..b /\ \A y \in a..b : m <= y
  BY <1>1 DEF Min
<1>4. n \in a..b /\ \A y \in a..b : n >= y
  BY <1>2 DEF Max
<1> HIDE DEF m, n
<1>5. m <= a /\ a <= m /\ m \in Int /\ n >= b /\ b >= n /\ n \in Int
  BY <1>1, <1>2, <1>3, <1>4
<1>6. m = a /\ n = b
  BY <1>5
<1> QED BY <1>6 DEF m, n

\* A threshold outcome of an event, k bars into the source.
LEMMA OutcomeFollows ==
    ASSUME NEW i, NEW d \in Outcomes, d.outcome = "TIME_TO_THRESHOLD", bars \in Seq(Bar),
           Snapped(snapshots[i], runtime.log[i], bars)
    PROVE  Follows(Evaluate(i, d, Len(bars)), snapshots[i], d, bars[runtime.log[i].detection].close,
                   CHOOSE j \in 1 .. Len(bars) + 1 : MinuteOf(j) = Window(runtime.log[i], d).reference)
<1> DEFINE e == runtime.log[i]
           taken == snapshots[i]
           at == e.detection
           h == d.horizon
           k == Len(bars)
           price == bars[at].close
           result == Evaluate(i, d, k)
           from == CHOOSE j \in 1 .. k + 1 : MinuteOf(j) = Window(e, d).reference
           window == SubSeq(bars, at + 1, at + h)
           source == SourceOf(i, d, e, Bounded(at, h, k))
           events == BoundedEvents(e, d, Window(e, d), k)
<1>1. IsThreshold(d) /\ h \in Nat \ {0} /\ k \in Nat
  BY ThresholdIs DEF IsThreshold
<1>2. at \in Nat /\ bars[at] \in Bar /\ taken.close = price
  BY DEF Snapped
<1>3. price \in Int
  BY <1>2 DEF Bar
<1>4. ~Retrospective(d) /\ AtOf(e, d) = at
  BY <1>1 DEF IsThreshold, Retrospective, AtOf
<1>5. result = IF Lacks(at, h, k) THEN Lacking("INSUFFICIENT_DATA")
               ELSE Outcome(d, source, events)
  BY <1>4, EvaluateIs
<1>6. Window(e, d).reference = MinuteOf(at) + 1
  BY <1>4, WindowIs
<1> HIDE DEF e, at, h, k, events, window, result
<1>7. CASE Lacks(at, h, k)
  <2>1. result.status = "INSUFFICIENT_DATA"
    BY <1>5, <1>7 DEF Lacking
  <2>2. ~IsThere(result)
    BY <2>1 DEF IsThere
  <2> QED BY <2>2 DEF Follows, result, k
<1>8. CASE ~Lacks(at, h, k)
  <2>1. k >= at + h /\ from = at + 1
    BY <1>1, <1>2, <1>6, <1>8, WindowStarts
  <2>2. Bounded(at, h, k) = at + 1 .. at + h
    BY <1>1, <1>2, <1>8, LacksIs
  <2>3. Min(at + 1 .. at + h) = at + 1 /\ Max(at + 1 .. at + h) = at + h
    <3>1. at + 1 \in Int /\ at + h \in Int /\ at + 1 <= at + h
      BY <1>1, <1>2
    <3> QED BY <3>1, RangeEnds
  <2>4. source = SourceFrom(taken, price, window)
    <3>1. SubSeq(bars, Min(Bounded(at, h, k)), Max(Bounded(at, h, k))) = window
      BY <2>2, <2>3 DEF window
    <3>2. (IF Retrospective(d) THEN bars[e.event].close ELSE snapshots[i].close) = price
      BY <1>2, <1>4
    <3> QED BY <3>1, <3>2 DEF SourceOf, SourceFrom
  <2>5. window \in Seq(Bar) /\ Len(window) = h /\ \A j \in 1..h : window[j] = bars[at + j]
    <3>1. at + 1 \in Int /\ at + h \in Int /\ at + 1 <= at + h
      BY <1>1, <1>2
    <3>2. \A j \in at + 1 .. at + h : bars[j] \in Bar
      <4>1. \A j \in at + 1 .. at + h : j \in 1..k
        BY <1>1, <1>2, <2>1
      <4> QED BY <4>1 DEF k
    <3>3. /\ window \in Seq(Bar) /\ Len(window) = (at + h) - (at + 1) + 1
          /\ \A j \in 1..((at + h) - (at + 1) + 1) : window[j] = bars[(at + 1) + j - 1]
      BY <3>1, <3>2, SliceProperties DEF window
    <3>4. (at + h) - (at + 1) + 1 = h /\ \A j \in 1..h : (at + 1) + j - 1 = at + j
      BY <1>1, <1>2
    <3> QED BY <3>3, <3>4
  <2>6. result = TimeToThreshold(SourceFrom(taken, price, window), d)
    BY <1>5, <1>8, <2>4 DEF Outcome
  <2> HIDE DEF source, from, taken, price
  <2>7. IsThere(result) => DirectionOf(taken, d) \in Directions /\ Answers(result, taken, d, price, window)
    <3>1. /\ taken.atr = {} \/ \E v \in Nat : taken.atr = {v}
          /\ taken.direction = {} \/ \E v \in Directions : taken.direction = {v}
      BY DEF Snapped, taken
    <3> QED BY <1>1, <1>3, <2>5, <2>6, <3>1, ThresholdAnswers
  <2>8. Follows(result, taken, d, price, at + 1)
    <3>1. CASE IsThere(result)
      BY <1>1, <1>2, <1>3, <2>5, <2>7, <3>1, AnswersFollow DEF h
    <3>2. CASE ~IsThere(result)
      BY <3>2 DEF Follows
    <3> QED BY <3>1, <3>2
  <2> QED BY <2>1, <2>8 DEF from, taken, price, result, e, at, k
<1> QED BY <1>7, <1>8

LEMMA InvTouches == CapturingInv => TouchesFollowThePath
<1> SUFFICES ASSUME CapturingInv, NEW i \in Population, NEW d \in Outcomes,
                    d.outcome = "TIME_TO_THRESHOLD"
             PROVE  Follows(Evaluate(i, d, Now), snapshots[i], d,
                            bars[runtime.log[i].detection].close,
                            CHOOSE j \in 1 .. Now + 1 :
                              MinuteOf(j) = Window(runtime.log[i], d).reference)
  BY DEF TouchesFollowThePath, Follows, IsThere
<1>1. i \in DOMAIN runtime.log /\ runtime.log \in Seq(ValuesOf(runtime.log))
  BY DEF Population, CapturingInv, MarketInv, RuntimeTypes
<1>2. i \in 1..Len(runtime.log)
  BY <1>1
<1>3. Snapped(snapshots[i], runtime.log[i], bars)
  BY <1>2 DEF CapturingInv, Frozen, Fits
<1>4. bars \in Seq(Bar)
  BY DEF CapturingInv, MarketInv
<1> QED BY <1>3, <1>4, OutcomeFollows DEF Now

\* The first side a threshold outcome names is the first one touched on every
\* path the prices can have taken within the bars of its window; it is ambiguous
\* only when the paths disagree or touch both at once; and the offset of a side
\* is the shortest window whose excursion reaches it
\* (time_to_threshold.py:119-183, excursions.py:64-66).
THEOREM TouchesAreFirst == ThresholdsDescend => (CapturingSpec => []TouchesFollowThePath)
<1> SUFFICES ASSUME ThresholdsDescend PROVE CapturingSpec => []TouchesFollowThePath
  OBVIOUS
<1>1. CapturingInv /\ [CapturingNext]_<<vars, snapshots>> => CapturingInv'
  BY CapturingKeeps
<1> QED BY CapturingBegins, InvTouches, <1>1, PTL DEF CapturingSpec
===============================================================================
