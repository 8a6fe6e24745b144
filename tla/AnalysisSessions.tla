-------------------------- MODULE AnalysisSessions --------------------------
(* application/analysis_sessions.py: the replay and history sessions of the    *)
(* workspace.  A session steps through the source minutes of a pinned dataset, *)
(* closes candles of every timeframe, feeds them to the detector runtime of    *)
(* each stream and stores what the detectors emit.  The manager holds one lock *)
(* for a whole command and runs it in one transaction, so a command is one     *)
(* action; what it can do to memory and to the database differs when a         *)
(* detector raises, when a source minute is missing, when the commit fails and *)
(* when the process stops.                                                     *)
EXTENDS CandleAggregation, ValidationAnnotations

CONSTANTS
  Source,           \* dataset -> its source minutes, in order
  Requests,         \* what launch may be asked
  Definition,       \* the pattern definition every stream is bound to
  Scripts,          \* what a detector observes: script -> sequence of trigger sets
  HistoryCapacity,  \* history_capacity
  ReplayCapacity,   \* replay_capacity
  MaxSessions,      \* bound on the sessions ever opened
  MaxLost           \* bound on commits that fail after the work was done

VARIABLES
  sessions,   \* session id -> session, replay and history together
  history,    \* ids of the cached history sessions, least recently used first
  db,         \* session id -> what its runs have stored: no run writes rows of another
  revisions,  \* analysis_session_revisions: session id -> manifest
  opened,     \* sessions opened so far
  lost        \* sessions whose memory is ahead of a commit that failed

vars == <<sessions, history, db, revisions, opened, lost>>

(* A function given by a rule, as the table of its values. *)
Table(f) == f @@ << >>

Raise == "raise"
Actions == {"step", "tick", "next-event"}
Bars(req) == SelectSeq(Source[req.dataset], LAMBDA t : t < req.end)
Watermark(s) == IF s.revealed = Unset THEN s.bars[1] ELSE s.revealed
HasNext(s) == s.index < Len(s.bars)
NextBar(s) == s.bars[s.index + 1]

(***************************************************************************)
(* Streams.  processed counts the candles a stream's runtime has taken.      *)
(***************************************************************************)
FreshStream(settings) ==
  [settings |-> settings, runtime |-> FreshRuntime(<<Definition>>), cache |-> EmptyStore,
   events |-> <<>>, processed |-> 0, valid |-> Unset]

(* A detector emits the lifecycle path of the triggers it observes on its     *)
(* n-th candle, or raises.                                                    *)
Observed(settings, n) ==
  IF n \in DOMAIN Scripts[settings.script] THEN Scripts[settings.script][n] ELSE {}

Emitted(settings, n, slot, now, path) ==
  [raised |-> Raise \in Observed(settings, n), ordinal |-> slot.ordinal,
   state |-> StateAfter(slot.state, path), context |-> {n},
   intents |-> [i \in DOMAIN path |->
     [edge |-> path[i], ordinal |-> slot.ordinal, event |-> now, detection |-> now, cites |-> {}]]]
Emission(settings, n, slot, now) ==
  Emitted(settings, n, slot, now, Advance(Definition, slot.state, Observed(settings, n)))

(* process_detector_candle and DetectorStream.process; at is [ok, session, db]. *)
Emerged(events, cache, available) ==
  [j \in DOMAIN events |->
     [id |-> cache[<<events[j].slot, events[j].ordinal>>].id, sequence |-> events[j].sequence,
      to |-> events[j].edge.to, available |-> available]]

Keep(at, i, available, step, kept) ==
  IF step.ok /\ kept.ok
  THEN [at EXCEPT !.db = kept.db,
          !.session.streams[i] =
            [@ EXCEPT !.runtime = step.runtime, !.cache = kept.cache, !.processed = @ + 1,
                      !.events = @ \o Emerged(step.events, kept.cache, available),
                      !.valid = IF @ = Unset /\ at.session.streams[i].processed + 1
                                                   >= at.session.streams[i].settings.warmup
                                THEN available ELSE @]]
  ELSE [at EXCEPT !.ok = FALSE, !.session.streams[i].runtime = step.runtime]

Deliver(at, sid, i, candle, step) ==
  Keep(at, i, candle.bucket[2], step,
       Persist(<<Definition>>, <<sid, i>>, at.db, at.session.streams[i].cache, candle.bucket[1],
               step, candle.bucket[2]))

Process(at, sid, i, candle) ==
  LET st == at.session.streams[i]
  IN IF at.ok
     THEN Deliver(at, sid, i, candle,
            Step(<<Definition>>, st.runtime, [time |-> candle.bucket[1], market |-> {}],
                 LAMBDA s, slot : Emission(st.settings, st.processed + 1, slot, candle.bucket[1])))
     ELSE at

(* automatic_policy and dispatch_candle: which streams see a candle. *)
Dispatched(req, settings, candle) ==
  /\ settings.frame = candle.frame
  /\ \/ req.mode = "replay"
     \/ ~req.automatic
     \/ settings.policy = "always"

ToStreams(at, sid, candle) ==
  LET upTo[i \in 0 .. Len(at.session.streams)] ==
        IF i = 0
        THEN [at EXCEPT !.session.candles[candle.frame] =
                Append(@, [bucket |-> candle.bucket, minutes |-> candle.minutes])]
        ELSE LET prior == upTo[i - 1]
             IN IF Dispatched(at.session.req, at.session.streams[i].settings, candle)
                THEN Process(prior, sid, i, candle) ELSE prior
  IN upTo[Len(at.session.streams)]

(* AnalysisSession.dispatch: by availability, the shorter timeframe first. *)
Sooner(a, b) ==
  \/ a.bucket[2] < b.bucket[2]
  \/ a.bucket[2] = b.bucket[2] /\ Length[a.frame] < Length[b.frame]

Dispatch(at, sid, closed) ==
  LET ordered == SetToSortSeq(closed, Sooner)
      upTo[i \in 0 .. Len(ordered)] ==
        IF i = 0 THEN at
        ELSE LET prior == upTo[i - 1]
             IN IF prior.ok THEN ToStreams(prior, sid, ordered[i]) ELSE prior
  IN upTo[Len(ordered)]

Closed(result) ==
  UNION {{[frame |-> f, bucket |-> c.bucket, minutes |-> c.minutes] :
            c \in Range(result[f].candles)} : f \in Frames}

Aggregated(at, sid, result) ==
  LET ok == \A f \in Frames : result[f].ok
  IN Dispatch([at EXCEPT !.ok = ok, !.session.aggs = Table([f \in Frames |-> result[f].agg])],
              sid, IF ok THEN Closed(result) ELSE {})

(* Every aggregator takes one call; their candles are dispatched together. *)
Feed(at, sid, Call(_, _)) ==
  IF at.ok THEN Aggregated(at, sid, Table([f \in Frames |-> Call(at.session.aggs[f], f)])) ELSE at

(* advance_closed with verify_closed_interval, and consume. *)
Reveal(at, consumed, until) ==
  IF at.ok THEN [at EXCEPT !.session.index = @ + consumed, !.session.revealed = until] ELSE at

AdvanceClosed(at, sid, target) ==
  LET from == Watermark(at.session)
  IN IF ~at.ok THEN at
     ELSE IF target < from \/ \E t \in from .. target - 1 : t \in Open
     THEN [at EXCEPT !.ok = FALSE]
     ELSE Reveal(Feed(at, sid, LAMBDA agg, f : AdvanceTo(agg, target)), 0, target)

Consume(at, sid) ==
  LET minute == NextBar(at.session)
  IN Reveal(Feed(AdvanceClosed(at, sid, minute), sid, LAMBDA agg, f : Push(agg, minute, f)),
            1, minute + 1)

ConsumeUntil(at, sid, Continue(_)) ==
  LET upTo[n \in 0 .. Len(at.session.bars)] ==
        IF n = 0 THEN at
        ELSE LET prior == upTo[n - 1]
             IN IF prior.ok /\ HasNext(prior.session) /\ Continue(NextBar(prior.session))
                THEN Consume(prior, sid) ELSE prior
  IN upTo[Len(at.session.bars)]

(***************************************************************************)
(* launch                                                                    *)
(***************************************************************************)
(* An automatic calculation takes only the detectors whose policy asks for it. *)
Selectable(req) == SelectSeq(req.streams, LAMBDA st : req.automatic => st.policy = "always")

NewSession(req) ==
  [req |-> req, bars |-> Bars(req), index |-> 0, status |-> "paused", revealed |-> Unset,
   streams |-> [i \in DOMAIN Selectable(req) |-> FreshStream(Selectable(req)[i])],
   aggs |-> [f \in Frames |-> FreshAggregator], candles |-> [f \in Frames |-> <<>>]]

Warm(s) == \A i \in DOMAIN s.streams : s.streams[i].processed >= s.streams[i].settings.warmup

(* What the runs of a session have stored. *)
EvidenceOf(sid) == IF sid \in DOMAIN db THEN db[sid] ELSE EmptyDatabase
Store(sid, evidence) == db' = (sid :> evidence) @@ db

(* The work of launch inside its transaction: [ok, session, db]. *)
UpTo(at, sid, Continue(_), target) == AdvanceClosed(ConsumeUntil(at, sid, Continue), sid, target)

Started(at, req, sid) ==
  IF req.mode = "replay" THEN [at EXCEPT !.ok = @ /\ Warm(at.session)]
  ELSE [UpTo(at, sid, LAMBDA t : TRUE, req.end) EXCEPT !.session.status = "completed"]

Launched(req, sid) ==
  LET fresh == [ok |-> TRUE, session |-> NewSession(req), db |-> EmptyDatabase]
  IN IF \A i \in DOMAIN Bars(req) : Bars(req)[i] < req.start
     THEN [fresh EXCEPT !.ok = FALSE]
     ELSE Started(UpTo(fresh, sid, LAMBDA t : t < req.start, req.start), req, sid)

Launches == [req \in Requests |-> [sid \in 1 .. MaxSessions |-> Launched(req, sid)]]

(* Mistake: the manifest dates the selection from the start of its source. *)
ManifestOfSource(req, s) ==
  [dataset |-> req.dataset, mode |-> req.mode, start |-> s.bars[1], end |-> req.end,
   streams |-> [i \in DOMAIN s.streams |-> s.streams[i].settings]]

Manifest(req, s) ==
  [dataset |-> req.dataset, mode |-> req.mode, start |-> req.start, end |-> req.end,
   streams |-> [i \in DOMAIN s.streams |-> s.streams[i].settings]]

ReplayIds(mem) == {sid \in DOMAIN mem : mem[sid].req.mode = "replay"}

(* The history cache keeps the HistoryCapacity results used last. *)
Evicted(order) ==
  IF Len(order) > HistoryCapacity
  THEN {order[i] : i \in 1 .. Len(order) - HistoryCapacity} ELSE {}

Without(order, ids) == SelectSeq(order, LAMBDA id : id \notin ids)

(* A registered session replaces the ids in dropped.  Eviction happens when   *)
(* the new result is added, before a replaced session leaves the cache.       *)
Register(sid, s, order, dropped) ==
  LET grown == IF s.req.mode = "history" THEN Append(order, sid) ELSE order
      gone == Evicted(grown) \cup dropped
      mem == (sid :> s) @@ sessions
  IN /\ sessions' = Restrict(mem, DOMAIN mem \ gone)
     /\ history' = Without(grown, gone)

CommitLaunch(req, result, order, dropped) ==
  LET sid == opened + 1 IN
  /\ result.ok
  /\ Store(sid, result.db)
  /\ revisions' = (sid :> Manifest(req, result.session)) @@ revisions
  /\ opened' = sid
  /\ Register(sid, result.session, order, dropped)
  /\ UNCHANGED lost

HasRoom(req, replacing) ==
  req.mode = "replay" => Cardinality(ReplayIds(sessions) \ replacing) < ReplayCapacity

Launch ==
  \E req \in Requests :
    /\ opened < MaxSessions
    /\ HasRoom(req, {})
    /\ CommitLaunch(req, Launches[req][opened + 1], history, {})

(* current: reading a cached result makes it the most recently used. *)
Used(sid) == IF sid \in Range(history) THEN Append(Without(history, {sid}), sid) ELSE history

Look ==
  \E sid \in DOMAIN sessions :
    /\ history' = Used(sid)
    /\ UNCHANGED <<sessions, db, revisions, opened, lost>>

(***************************************************************************)
(* command                                                                   *)
(***************************************************************************)
Forget(sid) ==
  /\ sessions' = Restrict(sessions, DOMAIN sessions \ {sid})
  /\ history' = Without(history, {sid})

Stop ==
  \E sid \in DOMAIN sessions : Forget(sid) /\ UNCHANGED <<db, revisions, opened, lost>>

Reset ==
  \E sid \in DOMAIN sessions :
    LET req == sessions[sid].req
    IN /\ opened < MaxSessions
       /\ HasRoom(req, {sid})
       /\ \E result \in {Launches[req][opened + 1]} :
            \/ CommitLaunch(req, result, Used(sid), {sid})
            \/ /\ ~result.ok \/ Cardinality(lost) < MaxLost
               /\ history' = Used(sid)
               /\ UNCHANGED <<sessions, db, revisions, opened, lost>>

SetStatus(sid, status) ==
  /\ sessions' = [sessions EXCEPT ![sid].status = status]
  /\ history' = Used(sid)
  /\ UNCHANGED <<db, revisions, opened, lost>>

Pause == \E sid \in DOMAIN sessions : sessions[sid].status = "running" /\ SetStatus(sid, "paused")
Advancing(s) == s.status \notin {"completed", "failed", "aborted"}
Play == \E sid \in DOMAIN sessions : Advancing(sessions[sid]) /\ SetStatus(sid, "running")

ShownCount(s) ==
  LET upTo[i \in 0 .. Len(s.streams)] ==
        IF i = 0 THEN 0 ELSE upTo[i - 1] + Len(s.streams[i].events)
  IN upTo[Len(s.streams)]

(* The loop of step, tick and next-event: [at, target, done].  A step runs to  *)
(* the end of the pending display candle, past a closed stretch when that end  *)
(* falls into it; next-event runs until a detector emits.                      *)
Iterated(at, target, Done(_)) == [at |-> at, target |-> target, done |-> ~at.ok \/ Done(at)]

Iterate(loop, sid, act, display, old) ==
  LET s == loop.at.session
      bar == NextBar(s)
      Found(at) == Len(at.session.candles[display]) > Len(old.candles[display])
      Reached(at) ==
        IF act = "next-event" THEN ShownCount(at.session) > ShownCount(old)
        ELSE Watermark(at.session) >= loop.target
  IN IF act # "next-event" /\ bar >= loop.target
     THEN Iterated(AdvanceClosed(loop.at, sid, loop.target), BucketBounds(bar, display)[2], Found)
     ELSE Iterated(Consume(loop.at, sid), loop.target, Reached)

AtEnd(at, sid) ==
  IF at.ok /\ ~HasNext(at.session) THEN AdvanceClosed(at, sid, at.session.req.end) ELSE at

Progress(s, sid, act, display) ==
  LET first == BucketBounds(s.bars[Min({s.index + 1, Len(s.bars)})], display)[2]
      pending == PendingEnd(s.aggs[display])
      start == [at |-> [ok |-> TRUE, session |-> s, db |-> EvidenceOf(sid)],
                target |-> IF pending = Unset THEN first ELSE pending, done |-> FALSE]
      loop[n \in 0 .. 2 * Len(s.bars) + 1] ==
        IF n = 0 THEN start
        ELSE LET prior == loop[n - 1]
             IN IF prior.done \/ ~HasNext(prior.at.session) THEN prior
                ELSE Iterate(prior, sid, act, display, s)
  IN AtEnd(loop[2 * Len(s.bars) + 1].at, sid)

(* Mistakes: the count of processed candles is forgotten; the events stay.     *)
RestoredCounting(s, failed) ==
  [failed EXCEPT !.index = s.index, !.revealed = Watermark(s), !.status = "failed",
     !.candles = [f \in Frames |->
        SelectSeq(@[f], LAMBDA c : c.bucket[2] <= Watermark(s))]]
RestoredShowing(s, failed) ==
  [failed EXCEPT !.index = s.index, !.revealed = Watermark(s), !.status = "failed",
     !.streams = [i \in DOMAIN @ |-> [@[i] EXCEPT !.processed = s.streams[i].processed]],
     !.candles = [f \in Frames |->
        SelectSeq(@[f], LAMBDA c : c.bucket[2] <= Watermark(s))]]

(* The handler of an exception: the visible state goes back to where the       *)
(* command found it; runtimes, stores and aggregators stay where they failed.  *)
Restored(s, failed) ==
  [failed EXCEPT
     !.index = s.index, !.revealed = Watermark(s), !.status = "failed",
     !.streams = [i \in DOMAIN @ |->
        [@[i] EXCEPT !.events = SubSeq(@, 1, Len(s.streams[i].events)),
                     !.processed = s.streams[i].processed, !.valid = s.streams[i].valid]],
     !.candles = [f \in Frames |->
        SelectSeq(@[f], LAMBDA c : c.bucket[2] <= Watermark(s))]]

StatusAfter(s, act) ==
  IF ~HasNext(s) THEN "completed" ELSE IF act = "tick" THEN "running" ELSE "paused"

AdvanceSession ==
  \E sid \in DOMAIN sessions, act \in Actions, display \in Frames :
    /\ Advancing(sessions[sid])
    /\ act = "tick" => sessions[sid].status = "running"
    /\ \E at \in {Progress(sessions[sid], sid, act, display)} :
         \/ /\ at.ok
            /\ Store(sid, at.db)
            /\ sessions' = [sessions EXCEPT ![sid] =
                              [at.session EXCEPT !.status = StatusAfter(at.session, act)]]
            /\ UNCHANGED lost
         \/ /\ ~at.ok
            /\ sessions' = [sessions EXCEPT ![sid] = Restored(sessions[sid], at.session)]
            /\ UNCHANGED <<db, lost>>
         \/ /\ at.ok
            /\ Cardinality(lost) < MaxLost
            /\ sessions' = [sessions EXCEPT ![sid] = at.session]
            /\ lost' = lost \cup {sid}
            /\ UNCHANGED db
    /\ history' = Used(sid)
    /\ UNCHANGED <<revisions, opened>>

(* The process stops: the database stays. *)
Restart ==
  /\ sessions # << >>
  /\ sessions' = << >> /\ history' = <<>>
  /\ UNCHANGED <<db, revisions, opened, lost>>

Init ==
  /\ sessions = << >> /\ history = <<>>
  /\ db = << >> /\ revisions = << >>
  /\ opened = 0 /\ lost = {}

Next ==
  \/ Launch \/ Look \/ Stop \/ Reset \/ Pause \/ Play \/ AdvanceSession \/ Restart

Spec == Init /\ [][Next]_vars

(***************************************************************************)
(* What a client is shown                                                    *)
(***************************************************************************)
(* Mistake: an occurrence is hidden by what is known of it now. *)
VisibleByLatest(st, cutoff) ==
  LET visible == {e \in Range(st.events) : e.available <= cutoff}
      ended == {e.id : e \in {x \in Range(st.events) : x.to \in Definition.terminal}}
  IN IF st.valid = Unset \/ cutoff < st.valid THEN {}
     ELSE {e \in visible : e.id \notin ended}

(* The events of one stream in a view that ends at cutoff: none before the    *)
(* stream is initialized, and none of an occurrence that had already ended    *)
(* by then.                                                                   *)
VisibleEvents(st, cutoff) ==
  LET visible == {e \in Range(st.events) : e.available <= cutoff}
      ended == {id \in {e.id : e \in visible} :
                  LET latest == CHOOSE e \in visible :
                        e.id = id /\ \A o \in visible : o.id = id => o.sequence <= e.sequence
                  IN latest.to \in Definition.terminal /\ latest.available < st.valid}
  IN IF st.valid = Unset \/ cutoff < st.valid THEN {}
     ELSE {e \in visible : e.id \notin ended}

Coverage(st, from, cutoff, watermark) ==
  IF st.valid = Unset \/ cutoff < st.valid THEN "initialization_unavailable"
  ELSE IF from >= st.valid /\ cutoff <= watermark THEN "calculated" ELSE "partial"

View(s, frame, from, cutoff) ==
  [bars |-> SelectSeq(s.candles[frame], LAMBDA c : c.bucket[2] <= cutoff),
   events |-> [i \in DOMAIN s.streams |-> VisibleEvents(s.streams[i], cutoff)],
   coverage |-> [i \in DOMAIN s.streams |->
                   Coverage(s.streams[i], from, cutoff, Watermark(s))]]

(* review_scope of one run, from memory while its session is there and from   *)
(* the database afterwards; evidence_run_ids says which runs there are.        *)
MemoryScope(s, i) ==
  [dataset |-> s.req.dataset, frame |-> s.streams[i].settings.frame,
   from |-> BucketBounds(s.req.start, s.streams[i].settings.frame)[1],
   visible |-> Watermark(s),
   events |-> {<<e.id, e.sequence>> : e \in Range(s.streams[i].events)},
   instances |-> {e.id : e \in Range(s.streams[i].events)}]

DatabaseScope(sid, i) ==
  LET m == revisions[sid] IN
  [dataset |-> m.dataset, frame |-> m.streams[i].frame,
   from |-> BucketBounds(m.start, m.streams[i].frame)[1],
   visible |-> m.end, events |-> EventsOf(EvidenceOf(sid), <<sid, i>>),
   instances |-> RowsOf(EvidenceOf(sid), <<sid, i>>)]

InMemory(sid) == sid \in DOMAIN sessions
Reviewable(sid) ==
  InMemory(sid) \/ (sid \in DOMAIN revisions /\ revisions[sid].mode = "history")
Scope(sid, i) == IF InMemory(sid) THEN MemoryScope(sessions[sid], i) ELSE DatabaseScope(sid, i)

(***************************************************************************)
(* Properties                                                                *)
(***************************************************************************)
Shown(s) == UNION {{<<e.id, e.sequence>> : e \in Range(s.streams[i].events)} :
                      i \in DOMAIN s.streams}
Stored(sid, s) == UNION {EventsOf(EvidenceOf(sid), <<sid, i>>) : i \in DOMAIN s.streams}

(* Whatever mixture of commands led there, the candles of every timeframe are *)
(* exactly the buckets the source had completed by the watermark, and every   *)
(* stream has processed each of its candles once (dispatch, consume,          *)
(* advance_closed and the handler of a failed command).                       *)
CandlesAreReference ==
  \A sid \in DOMAIN sessions :
    LET s == sessions[sid] IN
    /\ \A f \in Frames : s.candles[f] = ReferenceCandles(s.bars[1], Watermark(s), f)
    /\ \A i \in DOMAIN s.streams :
         s.streams[i].processed = Len(s.candles[s.streams[i].settings.frame])

(* What was stored can be read back, with a context for every event, captured *)
(* no earlier than its bar.                                                   *)
EvidenceIsReadable(evidence) ==
  LET rows == evidence.rows  contexts == evidence.contexts IN
  /\ \A id \in DOMAIN rows : Loadable(Definition, rows[id])
  /\ DOMAIN contexts = UNION {{<<id, i - 1>> : i \in DOMAIN rows[id].path} : id \in DOMAIN rows}
  /\ \A e \in DOMAIN contexts : contexts[e] > rows[e[1]].path[e[2] + 1].detection

(* A session shows what its runs have stored, after successes, after failures *)
(* and after the restoration that follows them, and what was stored can be    *)
(* read back; only a commit that failed after the work was done can leave the *)
(* session showing more, never less.                                          *)
EvidenceAgrees ==
  /\ \A sid \in DOMAIN db : EvidenceIsReadable(db[sid])
  /\ \A sid \in DOMAIN sessions :
       /\ Stored(sid, sessions[sid]) \subseteq Shown(sessions[sid])
       /\ sid \notin lost => Shown(sessions[sid]) = Stored(sid, sessions[sid])

(* Eviction, a stop or a restart does not change what a reviewer of a         *)
(* historical result may see: the scope read from the database is the one the *)
(* cached session would give.                                                 *)
EvictedScopeIsKept ==
  /\ DOMAIN sessions \subseteq DOMAIN revisions
  /\ \A sid \in DOMAIN sessions \ ReplayIds(sessions) :
       /\ DOMAIN revisions[sid].streams = DOMAIN sessions[sid].streams
       /\ \A i \in DOMAIN sessions[sid].streams : Scope(sid, i) = DatabaseScope(sid, i)

(* No repainting: a view that ends at or before the watermark stays as it was *)
(* shown, whatever the session does next, failed commands included.           *)
RevealedViewIsFixed ==
  [][\A sid \in DOMAIN sessions \cap DOMAIN sessions' :
       sessions'[sid] # sessions[sid] =>
         \A f \in Frames, cutoff \in 0 .. Watermark(sessions[sid]) :
           View(sessions'[sid], f, 0, cutoff) = View(sessions[sid], f, 0, cutoff)]_vars
=============================================================================
