# TLA+ models of Stream Analysis

Stream Analysis acquires one-minute market bars, computes market state and
pattern detections over them, and evaluates whole detector configurations over
long histories. It is a Python service (FastAPI, a PostgreSQL or SQLite database,
immutable Parquet revisions on disk) with a TypeScript browser client. Half of its
lines are incremental computation over bars, where the risk is in what a bar does to
state that was built from the bars before it; the other half are the protocols around
it, where the risk is in interleavings and failures: jobs with leases, imports that
survive crashes, a live feed shared by polling threads and analysis sessions, commands
whose memory runs ahead of a transaction. This directory models both from the source,
checks them with TLC and proves the central protocols with TLAPS.

All source paths below are relative to `src/src/market_analysis/`; documents are
relative to `src/`.

## 1. Inventory

| Component | Code | State | Operations | Hard behaviour | Status |
|---|---|---|---|---|---|
| Evaluation runs | `persistence/evaluations.py`, `application/evaluation_runs.py` | `evaluation_runs` rows, stream progress, outcomes | create, claim, advance a chunk, store outcomes, finish, fail, cancel, touch | a worker that lost its lease still commits; completion decided in a later transaction | modelled |
| Evaluation queue | `persistence/evaluation_jobs.py`, `application/evaluation_scheduler.py`, `api/evaluation_queue.py` | `evaluation_jobs`, the queue row (`automatic`) | enqueue, reorder, set automatic, cancel, claim, finish, recover stale | two tables owned together; stop races; leases; explicit runs without a job | modelled |
| Evaluation worker | `application/autonomous_evaluation.py`, `evaluation_outcomes.py`, `evaluation_heartbeat.py`, `worker.py` | a process: its token, clock and stop flag | poll, chunk, outcome batch, finish, unwind, receipt, heartbeat | crashes and signals between transactions | modelled |
| Import jobs | `persistence/import_jobs.py`, `import_batches.py`, `application/historical_import.py`, `persistence/dataset_store.py` | job rows, page checkpoints, staged batch files, revision directories | create, claim, checkpoint, publish, interrupt, resume, fail | file and row are not one transaction; two workers of one job | modelled |
| Shared history | `persistence/history_ranges.py`, `application/history_ranges.py` | durable requests | request, cover, schedule, settle | starvation, refetching, forgetting | modelled |
| Live retention, packaging | `application/live_retention.py` | minute journal, sealed hours | retain, package, verify | late and corrected minutes against sealed hours; budgeted passes | modelled |
| Live ingress | `application/live_ingress.py` | channels, subscribers, polling threads | subscribe, unsubscribe, poll, publish the watermark | two threads on one feed; stale pages; gaps | modelled |
| Live analysis | `application/live_analysis.py`, `live_inputs.py` | attached sessions, inputs, receipts | connect, advance (callback), disconnect | rollback, callbacks outside the locks, restarts | modelled |
| Provider client | `providers/oanda.py` | none | page, poll | windows and overlaps | partly: as the provider sees fit |
| Workspace sessions | `application/analysis_sessions.py` | in-memory sessions over committed evidence | launch, step, tick, next-event, play, pause, reset, stop, view, review scope | memory ahead of a rolled-back transaction; eviction; restart | modelled (live sessions with the live service) |
| Browser replay | `application/browser_replay.py`, `replay_pipeline.py`, `replay_run.py`, `persistence/replay_runs.py`, `domain/replay_cursor.py`, `simulation_clock.py`, `playback.py` | run rows, one active pipeline | launch, step, play, pause, seek, reset | savepoints, latching, failed commits | partly: `playback.py` and seeking inside one in-memory cursor are not |
| Detector runtime | `detection/runtime.py`, `patterns/lifecycle.py` | slots, ledgers, latch | one bar at a time | all-or-nothing step over every detector; one refusal stops the run | modelled |
| Detectors | `detection/compression.py`, `reversal.py`, `continuation.py` | context per occurrence | process a bar | several deciding events on one bar; streaks; age limits | modelled |
| Indicators, market state | `indicators/*.py` | per-bar state | update on a completed bar | order of updates inside a bar, ties, truncated windows | partly: not `session.py` and the payloads of snapshots |
| Durable instances, contexts | `persistence/pattern_instances.py`, `detection_contexts.py`, `application/replay_event_store.py`, `context_capture.py` | rows with revisions, one context per event | create, advance | optimistic revisions, savepoints | modelled |
| Validation annotations | `persistence/validation_annotations.py`, the annotation routes of `api/app.py` | append-only histories | create, revise, list | scope read before the transaction; two reviewers of one revision | modelled |
| Outcomes | `application/outcome_evaluation.py`, `event_sets.py`, the four metrics, `structural_event_inventory.py` | `outcome_records` | select, measure, store once | window boundaries, gaps, ambiguous first touches | modelled (not the registry's constants) |
| Aggregation | `domain/aggregation.py` | pending candle | push, advance | closures, day ends, truncated sources | partly: not value validation and lineage |
| History inputs, navigation, prices | `application/history_inputs.py`, `historical_bars.py` | none | compose stored revisions | boundaries | not modelled |
| Backup and restore | `persistence/backup_archive.py`, `verify_datasets.py` | files | archive, verify | runs with the services stopped | not modelled |
| Configuration, lineage, run snapshots | `config/*`, `persistence/runs.py`, `market_data.py` | immutable rows, hashes | insert, load | none beyond validation | not modelled |
| API transport, diagnostics, web client | `api/*`, `application/logging.py`, `web/` | view state | requests | none of its own | as client actions |

How they interact. API requests write queue, import and history rows. Two worker
processes (`docker-compose`: one of each kind) poll them: the evaluation worker owns
one run at a time through a token written into both the run and its job; the import
worker fills one import slot from manual imports and, when it is free, from history
requests, and packages live hours between imports. The live service lives in the API process: polling
threads write the journal under the feed's row lock, publish a watermark, and call
the sessions back after releasing their own locks.

Bars from any of these sources go down one chain, in one process and one transaction at a time: aggregator, market
state, detector runtime, durable instances with their contexts. Workspace sessions, browser replay and evaluations each
drive that chain; reviewers and outcomes read what it stored.

What makes each part correct is stated by the properties of section 4; the file
`PROJECT.json` lists the hazards they answer, line by line.

## 2. Modules

| Module | Models | Extends |
|---|---|---|
| `EvaluationRuns` | statements on the run tables, each fenced by the owner token | |
| `EvaluationQueue` | the queue's transactions over both tables, recovery included | `EvaluationRuns` |
| `EvaluationService` | processes between transactions, clients, time; the properties | `EvaluationQueue` |
| `SerialQueue` | abstract specification: one job at a time, in order, pausing after any end that is not a success | |
| `EvaluationQueueOrder` | the refinement mapping from the service to `SerialQueue` | `EvaluationService` |
| `ImportJobs` | import rows, batch files, revision directories, the provider's pages | |
| `HistoryRanges` | history requests, coverage per minute, the scheduler | `ImportJobs` |
| `ImportService` | import workers between transactions, clients, crashes; the properties | `HistoryRanges` |
| `LiveRetention` | journal, sealed hours, packaging passes | |
| `LiveIngress` | channels, threads, subscriptions, polls, the provider | `LiveRetention` |
| `LiveAnalysis` | sessions, callbacks, restarts; the whole live service and its properties | `LiveIngress` |
| `ReplayRuns` | persisted replay runs and what each pipeline call does to a run and its pipeline | |
| `BrowserReplay` | the browser's session over those runs; commits, restarts; the properties | `ReplayRuns` |
| `PatternLifecycle` | pattern definitions: well-formedness, paths, precedence, `advance` | |
| `DetectorRuntime` | one step of a run's runtime over all its detectors | `PatternLifecycle` |
| `PatternInstances` | durable rows, contexts and the event store of a run | `DetectorRuntime` |
| `CandleAggregation` | the candle aggregator, and candles by definition | |
| `ValidationAnnotations` | annotation rows, their targets and revisions | `PatternInstances` |
| `AnalysisSessions` | replay and history sessions of the workspace; the properties | `CandleAggregation`, `ValidationAnnotations` |
| `AnalysisReview` | reviewers between their two steps, over those sessions; the properties | `AnalysisSessions` |
| `MarketIndicators` | EMA, ATR, choppiness, bandwidth, range state | |
| `SwingStructure` | directional-change swings and their structure | `MarketIndicators` |
| `TrendLegs` | legs and their qualification | `SwingStructure` |
| `MarketState` | one update of a frame and the events it publishes | `TrendLegs` |
| `CompressionDetector`, `TrendDetectors` | the three shipped detectors over that frame | `MarketState`, `DetectorRuntime` |
| `MarketAnalysis` | bars through the whole chain; the properties | `TrendDetectors` |
| `EventOutcomes` | captured contexts, event sets, windows and the outcomes; the properties | `MarketAnalysis` |
| `MC*` | finite instances: model values, definitions, symmetry | the module they instantiate |
| `EvaluationServiceProofs` | proofs about the evaluation service, and that it implements the serial queue | `EvaluationQueueOrder` |
| `BrowserReplayProofs` | proofs about the browser's session and its runs | `BrowserReplay` |
| `AnalysisReviewProofs` | proofs about the histories of annotations | `AnalysisReview` |
| `LiveAnalysisProofs` | proofs about the journal and its packaging, watermarks, inputs and sessions | `LiveAnalysis` |
| `ImportServiceProofs` | proofs about imports and the history scheduler | `ImportService` |
| `MarketAnalysisProofs` | proofs about the market state and the detectors | `MarketAnalysis` |
| `TrendProofs` | proofs about trend legs and candidates | `MarketAnalysisProofs` |
| `EventOutcomesProofs` | proofs about captured contexts and outcomes | `EventOutcomes`, `MarketAnalysisProofs` |

Operators keep the names of the functions they model. An operator headed
"Mistake:" is not part of any specification: it is a plausible bug of the
definition that follows it, and each property is known to fail when that
definition is replaced by its mistake.

### Evaluations

*Tables.* One `evaluation_runs` row is `runStatus`, `owner` (`owner_token`), `runAge`
(time since `heartbeat_at`) and its output: `progress` and `streamBars` (the cursor and
the summed stream progress, in commit units), `events`, `observed` (outcome rows). One `evaluation_jobs` row is
`jobStatus`, `position`, `lease`, `jobAge`, `stopRequested`; the queue row is `automatic`. `issued` counts tokens, so a
token is never reused (UUIDs in the code).

*Atomicity.* A transaction that locks the queue row, or the run row with `FOR UPDATE`, is
one action. `execute_evaluation` is not: opening a chunk, an outcome batch or the
finishing transaction, its commit, the touch that follows, the unwinding handlers and
`finish_job` are separate actions, so every other actor may step between them. Stop and
lease checks happen where the code asks `should_stop`. The termination record may be lost, as
`_record_termination` swallows errors.

*Heartbeats.* The thread reads the clock before its statement runs. `TouchJob` and `TouchEvaluation` therefore
write some age `read`, not zero: `touch_job` writes it whatever the row holds, `touch_evaluation` only when it is more recent.

*Abstractions.* A chunk is one commit unit (`CHUNK_SIZE` candles); an outcome batch
stores one eligible event; an unregistered outcome algorithm makes an evaluation that
can only be executed explicitly. Request validation, build identity and manifest hashing end in one
action, `FailExecution`.

### Imports and history

*State.* `status`, `token`, `pages`, `barCount`, `retrieved` per job; `batches` are the
checkpoint rows, `staged` the batch files, `directory` the revision directories. Provider bars
exist for the minutes in `Traded`. `advance_import` is split at every
point another process can see: the row read, the page and its staged file, the
checkpoint's own read, its commit, the directory, the publishing transaction. A poll is split where another
import can still take the slot: `PollSlot` is the statement that finds it free, and coverage, settling, scheduling and
`claim_import_job` are the step after it. What was queued in between is pending in coverage; the scheduler then settles nothing
that waits for it, schedules nothing, and claims that job (`PollOvertaken`). The coverage reads and the insert are one step: an import
that commits between those is refused by the unique slot, as one that commits before them is. Requests that a concurrent scan
has locked are not skipped: scans are atomic.

*What the code does not have.* An import job has no owner token and its worker no
lease: `heartbeat` is recorded and never consulted. Safety with two workers rests on
the expected token, `pages_committed` and the primary key of batches; a superseded worker dies
because `fail_import_job` raises. Liveness is therefore stated for the
one worker the deployment runs. `complete_import_job`'s load and update are one step.
Changes of account or calendar are the `Foreign` requests. Two revisions that clip the same request
differently are a "conflict" in coverage, as in the code.

### Live service

*One feed.* Feeds share nothing but the budget of a packaging pass. A channel is a
`FeedChannel` object; the thread that serves it is named after it; `feed` is what
`LiveIngress._feeds` holds. `Enter` looks the feed up **by key**, as `poll` does, so an old
thread may poll its successor's channel.

*Poll.* Fetch samples the window's end and the page; each bar is retained in one
transaction, after asking whether the channel was stopped; then the watermark is published. Provider,
configuration or database failures, conflicts and stops end a poll at any of these
points. "connected" and "catching up" are one status; "stale" is computed on reading.
The lookup under `_lock` and the acquisition of `poll_lock` are one step, and time is
sampled with the page.

*Sessions.* `launch` commits the bootstrap and the input under the feed's row lock and
subscribes; the first advance is a step of its own under the manager's lock. Callbacks run one
by one in the polling thread. An API restart drops channels and
sessions, not the journal or sealed hours. Inputs of dead sessions are dropped by the model: nobody
writes them again.

*Packaging.* A pass takes the first `Budget` pending hours in the order of their last
attempt and commits the attempt before making it. Stamps are compared only, so their ranks are kept.

### Browser replay

*State.* `rows` are the `replay_runs` rows, each with the detector events stored under it:
`status`, `cursor` (`cursor_index`) and `evidence`, the bars whose events it holds.
`active` is the run of `BrowserReplayManager._session`; `pipe` is its pipeline: `index` is the
clock's, `latched` stands for `_failure_context`.

*Calls.* One request runs several statements in one transaction under the manager's lock, so a
request is one action, and a pipeline call is an operator from a *work record* (row and
pipeline) to the set of its outcomes, each saying whether it raised. `WalkTo` is the loop over
`step`: every bar may fail in its savepoint after the clock has consumed it, the pinned context may stop
to verify between two bars, and the FAILED status may itself not be written. `step_visible` and `next_event`
keep their exception until the transaction has been committed; `play`, `stop` and `replace` let it roll back.

*Commits.* A transaction is committed, rolled back, or committed without the caller learning of it
(`Commits`, `CommitsSession`). The pipeline is never rolled back; the session changes only after an
acknowledged commit. This is where memory and row part, and what `LostStepIsFinal` is about.

*Abstractions.* Detectors are the set `Emitting` of bars on which they emit, warm-up bars
included; a filter is the subset of those it matches. Continuity of the runtime
(`_validate_continuity`) is that of the clock, as nothing else drives the runtime of a browser replay. Preflight and the
composition of the bars are the success of `Launch`.

### Workspace sessions and reviews

*State.* `sessions` are the manager's replay and history sessions: source minutes and the index of the next one, the
watermark `revealed`, one aggregator and its candles per timeframe, one stream (runtime, event store, shown events,
counters) per detector binding. `db` is what their runs stored, `revisions` the manifests of
`analysis_session_revisions`, `history` the order of the history cache.

*Calls.* The manager holds `_lock` for a whole command inside `engine.begin()`, so a command is one action. What it does is an operator
from `[ok, session, db]` to the same: the loop of `step`, `tick` and `next-event` over source minutes, `AdvanceClosed` past closed minutes,
candles of all timeframes dispatched by availability, each to its streams in turn. The action then chooses: work that
succeeded is committed; work that raised goes through the handler, which restores what is *shown* while runtimes, stores and
aggregators stay where they failed and the evidence is rolled back; work that succeeded may fail to commit, and then
no handler runs (`lost`).

*Evidence.* `Persist` is `advance_pattern_instance` with its optimistic revision for rows the store has cached and the
insertion of new rows, one context per event, all or nothing for the bar. `Loadable` is everything a load demands of a row.

*Reviews.* A request reads the scope under the manager's lock and then opens its own transaction, so it is two actions with the world moving
between them. An edit reads the annotation and inserts revision `expected + 1`; the primary key refuses the second of two edits that
answer one revision. Clocks of processes disagree (`Times`).

*Abstractions.* The detector of a stream is a script of the conditions it observes on its n-th candle, run through the lifecycle of the
compression pattern, or an exception. Labels and notes are who wrote them. A view has candles, events and coverage, not
indicator values.

### Market analysis and outcomes

*One bar at a time.* `MarketUpdate` is `MarketStateAggregator.update`: averages, swings, structure, legs, qualification and range state in the order of
the code, each on what the one before it made of the bar; then the events the frame publishes. `Consume` hands bar and
frame to the runtime (`Step`), which takes all outputs of the three detectors or none and latches on a refusal.

*Numbers.* A price is a whole number of ticks, and a `Decimal` that is not a price a whole number of 1/65536 ticks, rounded as the
integer division does where the code's context rounds to its precision. The choppiness score is a logarithm of a ratio; it is only compared
with thresholds, so the ratio is compared with the rational the threshold is the logarithm of.

*Outcomes.* The stream is of one-minute bars, `DayMinutes` to a day, with one minute missing. Each event is frozen with its frame; the
event set decides from the frozen context alone; `Window` is clipped by the day, the horizon and the source, and each metric is an operator
over the bars and inventory of that window. The caller's preselection of candidates by availability and end of day
(`evaluation_outcomes.py:149`) only shortens the inventory the window clips anyway, and is left out.

*Abstractions.* Payload fields that only describe (percentages for display, identifiers) are left out. Bars
start after an opening (`Scenarios`) that reaches legs and compressions, and are then free.

## 3. Findings

Two documented statements do not hold of the code; each has a run that shows how.

* **A stop that was accepted may end COMPLETED** (`evaluation_stop_race`). `cancel_job` accepts
  a stop while the job row is RUNNING, also after the run has committed COMPLETED and before `finish_job`
  copies that status. `docs/core/mvp-scope.md:270` says the job is marked CANCELLED. The queue is
  paused all the same (theorem `StopPauses`).
* **A gap at the head of an hour is not repaired** (`live_gap_conflict`). The hour is sealed
  from its first retained minute; the late minute is then refused and freezes the feed.

An observation that is not a finding: a disconnect and reconnect during a poll leave the old polling thread beside the
new one, so for the rest of that poll two provider clients serve one feed. Nothing that is retained or confirmed suffers:
`ConfirmedPrefix`, `LiveInputIsContiguous` and `NeverRewinds` hold over these very interleavings. Another: a workspace
command whose commit fails leaves its session showing events that were not stored; `EvidenceAgrees` says
exactly that and no more, and a later restoration never shows less than is stored.

## 4. Runs

| Run | Instance | Properties |
|---|---|---|
| `evaluation_service` | 2 workers, 2 evaluations (one of them only explicit processes can run), two chunks, two lease ages | `TypeOK`, `OwnershipInv`, `JobAgreesWithRun`, `CompletedIsWhole`, `ChunksExactlyOnce`, `TerminalForever`, `PauseAfterAbnormalEnd`, `FrozenOutput`, `CancelledOnRequest` |
| `evaluation_liveness` | 1 worker, 2 evaluations, reordering, crashes anywhere | `ServiceKeepsMoving`, `ImplementsSerialQueue` |
| `evaluation_stop_race` | 1 worker, 1 evaluation | `StoppedJobIsNotCompleted` (violated) |
| `import_service` | 2 workers, 2 jobs, a manual import inside a request, pages that repeat a bar, an untraded and a closed minute | `ExactAcquisition`, `EndedImportStays` |
| `history_ranges` | 1 worker, 3 jobs, 2 overlapping requests behind a manual import, a scan limit of 1 | `ServedOnce`, `RetryFindsItsOwn`, `RequestsSettle` |
| `live_packaging` | 4 hours of 2 minutes, budget 2, one hour that never publishes | `SealedIsJournal`, `WholeHoursArePublished` |
| `live_service` | 2 clients, 2 channels, 1 hour of 2 minutes, restarts | `ConfirmedPrefix`, `LiveInputIsContiguous`, `SessionsAreSubscribed`, `NeverRewinds` |
| `live_catch_up` | 2 clients, 1 channel, an hour of 3 minutes with a closed and a corrected one | `SessionCatchesUp` |
| `live_gap_conflict` | as `live_service` | `GapsAreRepaired` (violated) |
| `browser_replay` | 3 runs, 5 bars, 2 of them warm-up, events on a warm-up bar, inside and on the last bar | `EvidenceIsPrefix`, `RunsOnlyAdvance`, `LostStepIsFinal` |
| `analysis_sessions` | 6 source minutes around a closure, timeframes of 1 and 3 minutes, 2 datasets (one with a hole), 6 requests, 2 reviewers | `CandlesAreReference`, `EvidenceAgrees`, `EvictedScopeIsKept`, `HistoriesAreLinear`, `NoFutureReview`, `RevealedViewIsFixed`, `ReviewsStayListed` |
| `market_analysis` | 4 openings, then 5 bars of 4 shapes each | `NoBarIsRefused`, `SwingsAreReference`, `LegsAreReference`, `CompressionIsStreak`, `CandidatesAreDecidedOnce`, `OutcomesSeeOnlyTheirWindow`, `TouchesFollowThePath` |

What the less obvious of them show. `ImplementsSerialQueue` is a refinement: the tables and all processes, crashes included, do only
what `SerialQueue` allows. `ServiceKeepsMoving` says that every execution ends, every active job gets its receipt and an automatic queue
never stalls. `CandlesAreReference`, `SwingsAreReference`, `LegsAreReference` and `CompressionIsStreak` compare state that is
carried from bar to bar with a definition over all the bars, which is written independently of the code's order of updates.
`CandidatesAreDecidedOnce` says that a pattern occurrence ends by the first thing that decides it, by precedence if
several come on one bar. `RevealedViewIsFixed` is the promise that charts do not repaint: the view up to an earlier cutoff
does not change with what happens later, failed commands included.
`ServedOnce` says of every state that no two scheduled imports overlap, and of the step that settles a request that each of its open
minutes is delivered by a completed import or that all imports asked for it have stopped. A settled request may hold minutes that
failed or were interrupted: coverage reports them, and a user may resume or repeat such an import.

Bounds, and why they are enough. Every constant that bounds a model is named in its cfg.

* *Evaluations.* Two evaluations and two workers are what a race over one active slot
  needs; a third actor would have to wait for one of the two. `LeaseTimeout` 0 distinguishes fresh from expired leases, which is what the
  liveness run needs; 1 adds an age between, and with it heartbeats that write one. `MaxPosition` bounds reorderings: with
  three positions, two waiting jobs can be submitted and swapped.
* *Imports.* Six minutes with a window of two give first, overlapping and last pages; two jobs give an import beside
  another, and `MaxManual` bounds how often clients add one. The liveness instance is shorter, with three jobs so that a
  request can be split in two, and with a minute whose import is a single page without bars.
* *Live.* Two minutes and a window of two reach every page shape (empty, partial, full,
  out of order); the third minute of `live_catch_up` makes a window end before the present. Two channels per process are the
  old and the new thread of a race; more would need a third disconnect inside the same poll. `CHECK_DEADLOCK FALSE` is set
  where time is bounded and the sets of channels and clients are used up: the real system then simply waits.

* *Sessions.* The closure lies inside the second three-minute bucket, the first is truncated by the source and the last is shortened by the end
  of the day. Capacities of one make every second session evict, replace or be refused; `MaxSessions` 2 bounds what is ever
  opened, `MaxLost` the failing commits. One annotation with three revisions is what two edits of one revision need. `FewReviews` lets the annotation
  target what the first session stored first, and lets edits race while no session is open: an edit reads nothing of a
  session, so it commutes with every command. `CHECK_DEADLOCK FALSE`, because sessions, revisions and failing commits run out.
* *Market.* Periods of 1 to 4 bars keep the warm-up short; `MaxAge` 3 lets a candidate expire. The openings lead into an up-leg, its mirror image,
  the first extreme and a compression; five free bars of four shapes (both directions, one that reaches both ways from its open, one
  that gaps) then confirm, break, qualify, release and expire. The missing minute and the day's end lie among them. Prices start at one tick and
  nothing keeps them positive, so windows whose closes sum to zero, or to less, are among the inputs.
  `CHECK_DEADLOCK FALSE`, because the bars run out.
* *Replay.* Three runs let a replaced run be replaced again, with lost acknowledgements in between; five bars give warm-up
  with and without events, a visible bar without one, and a match on the last bar. When all run identities are used up
  only the active session goes on.

Fairness. Nobody owes restarts, retries by users, heartbeats or packaging.
Weak fairness is given to what the code runs in a loop of its own: a
live worker's polls and steps, polling threads, the clock. Liveness of workers is
conditional on one worker that stays up (`StaysUp`), that of sessions on polls that
eventually stop failing and on a provider that eventually offers every open minute.
`ServiceKeepsMoving` needs `Tick`: a dead process's run is only ended by the expiry of its lease.

## 5. Proofs

TLAPS proves the theorems below for every value of the constants that satisfies the named assumptions; TLC checks the same
formulas on the instances of section 4.

**Evaluations**, for any sets of evaluations and workers and any bounds (`ChunksAssumption`, `LeaseAssumption`,
`NoEvalAssumption`, and the bounds being natural numbers):

* `TypeCorrect`: `TypeInv` (types, plus the range of each process's evaluation and token) is inductive.
* `Ownership`, `ReceiptsAgree`: `OwnershipInv` is not inductive by itself. A receipt agrees
  with its run only because a job that is RUNNING has the same token as
  its run, that a run's output is whole once COMPLETED, and that a waiting job's run was
  never claimed; `TablesInv` is the conjunction of these. One lemma per transaction
  (`...Links`) shows that it preserves `TablesInv`, whatever process calls it, and the
  process steps reduce to those lemmas.
* `RefinesSerialQueue`: the step simulation under `TablesInv` and `PlacesInv` (waiting jobs have distinct positions below
  `next_position`; otherwise a submitted job could tie with another or overtake it). One lemma per transaction names the step of
  `SerialQueue` it is: a claim is `Start`, a rejected head `Refuse`, a receipt or the recovery of a stale job `End`, a
  stop of the active job or the recovery of an orphan `SetAutomatic`; every other step is a stutter. Recovery needs
  `OneExecution`: it may take away a set of stale jobs, the queue only one.
* `OutputFrozen`, `TerminalIsForever`, `CompletedWhole`, `AbnormalEndPauses`: step properties under `TablesInv`.
* `StopPauses`: from `StopInv`, which adds that a stop is only pending on RUNNING jobs.
* `ChunksOnce`, `CancelledWhenAsked`: from `ExecutionInv`. Tokens of different processes differ, so a process that owns
  its run is the only one that can have moved its cursor, and its memory agrees with the row; and a process
  that unwinds from a stop while it still owns its run was signalled or its job's stop is pending.

**Journal and packaging**, for any number of hours of any length, any calendar, budget and set of hours that never publish
(`HoursAssumption`, `OpenAssumption`):

* `SealedHours`: with the types of journal and revisions, `SealedIsJournal` is inductive. The point is arithmetic: a minute
  that is retained late belongs to exactly one hour (`HourUnique`), whose seal the conflict check has consulted.
* `NothingIsTakenBack`: `AcknowledgedForever`, from one lemma per transaction (`RetainOne`, `PackageOne`).

**Live ingress and analysis**, also for any number of channels, polling threads and clients:

* `WatermarksConfirm`, `InputsAreWhole`, `SessionsAreServed`, `NothingRewinds`: from `LiveInv`, which has three parts:
  types, `Acquired` (what threads hold and channels confirm is in the journal) and `Analysed` (what sessions consumed
  is what was confirmed from their start). No exclusion between threads is needed: the page of an overtaken thread is
  compared with the watermark when it is published, so publishing can only confirm what is retained without a hole before it.

**Imports and history**, for any number of workers, jobs, requests and pages, any market and any scan limit
(`JobsAssumption`, `HorizonAssumption`, `TradedAssumption`, `WindowAssumption`, `RequestsAssumption`, `ManualAssumption`):

* `AcquiredExactly`: `ExactAcquisition` is made inductive by `WorkerInv`, which says that everything a worker holds follows from the token it
  read, pages that repeat the last bar included (`PageWithoutRepeat`), and that once its checkpoint is open a row
  without a new batch still holds what precedes that token. That is why an UPDATE that repeats only `pages_committed`,
  and not the token, cannot lose or repeat a bar. (A checkpoint without new bars does not change `pages_committed` and
  may be repeated by a second worker; it then repeats the same token.)
* `EndedStays`: every statement on a status names the status it replaces, so a superseded worker cannot touch an ended job or its revision.
* `ServedAtMostOnce`: `ServedOnce`, in two parts. `SharedApart` is inductive: the span the scheduler takes is missing
  throughout (`SpanIsMissing`), what is missing is covered by no import (`MissingIsUncovered`), and rows keep their range.
  Of the steps only a scan settles; what it passes by is neither missing nor pending (`ScanStops`, `PassedAreAnswered`), and what is neither is answered (`MissingIsUncovered`).
* `OneWorkerRetries`: with one worker process at a time (`SingleWorker`), a retry finds its own directory (`PublicationInv`:
  a revision directory is that of a complete job, which no worker fetches for any more).

The least and greatest elements the provider's pages and the scheduler's spans are made of exist by the well-foundedness of strict inclusion on finite sets
(`LeastExists`).

**Browser replay**, for any number of replay runs, any interval, warm-up and set of bars with events (`BarsAssumption`):

* `EvidenceMatchesCursor`, `RunsAdvanceOnly`, `LostStepsAreFinal`: the properties of the run `browser_replay`;
  `CompletedRunsAreWhole`, `ReplacedRunsHaveEnded` (and `TypeCorrect`) go beyond it. The invariant `ReplayInv` says of each row what `RowInv` says; a request is
  a chain of calls, so the lemmas are compositional: one per call says that each outcome is a `WorkStep` from its work record,
  `StepTrans` chains them, and `CommitIsGood` and `SessionIsGood` say that committing, losing or rolling back the result is a good step.

**Annotations**, for any number of reviewers, annotations and revisions, whatever the sessions do:

* `AnnotationHistories`, `NothingSaidIsLost`: from `HistoryInv`, which adds that the revision an edit has read is still
  there with the time it had. Histories are only appended to, so an edit that finds its successor's key free extends the
  revision it read, and its clock check is against that very revision.

**Market analysis**, for any bars, periods, thresholds and candidate age (`IndicatorAssumption`, `SwingAssumption`,
`QualificationAssumption`, `CompressionAssumption`, `MaxAgeAssumption`, `BarsAssumption`, and `OutcomeAssumption` for the last):

* `NoBarIsEverRefused`: no guard of the chain rejects a frame or an output. `MarketInv` holds the types of every component; published
  events are dated no later than the bar (`MarketUpdateTyped`), a path that a detector proposes is a walk of its definition
  (`AdvanceIsWalk`), and so the runtime accepts what each detector puts out (`DetectorsAccepted`). A compression candidate remembers
  a bar that was reported (`Began`). The hypothesis is `ThresholdsDescend`: with state scores that do not descend the configuration is
  refused before any bar.
* `SwingsFollowDefinition`: `SwingsAreReference` from `SwingInv`, which relates the candidate to *all* bars since the search began: it is the
  earliest of the most extreme ones, and the opposite extreme is the one since that candidate. The averages are walks over the bars, so
  the reference's recursive function is reached without induction, one bar at a time.
* `CompressionsFollowStreaks`: `CompressionIsStreak` from `CompressionInv`. The range windows are the last records, closes and bandwidths
  (`RangeKeeps`, `RangeGoesOn`), the slot counts the qualifying bars since the last one that did not qualify (`StreakHeld`), and a bar that
  releases never qualifies (`ReleaseExcludes`). Stating this showed that a window whose closes sum to zero or less compares
  differently from what an unsigned quotient says; the property and `Narrower` cover it.
* `LegsFollowSwings`: `LegsAreReference` from `LegInv`, which adds `LegsHold` to `SwingInv`. The structure keeps the last classification of
  each side, so a label compares a swing with the one two before it (`StructureContinues`). A leg's first and protecting swings each
  found it (`FoundedBy`), and its extreme is measured since the swing *after* the first (`Tops`). What waits is always the classification of
  the last swing, and better than the level that protects (`Awaited`); a corrective last swing waits unless a leg is active or
  one has ended since (`Waits`), which is why a bar that completes it has a leg (`Establishes`). One lemma says what a bar publishes
  (`PublishedBy`), so that the property's silence about ended legs is about the legs themselves (`EndIsTold`).
* `CandidatesEndOnce`: `CandidatesAreDecidedOnce` from `CandidateInv`, which adds `CandidatesHold` to `LegInv`. The leg active is
  the one last published as started (`LegsStarted`). A slot's context remembers the leg and the swings that were the latest on its
  opening bar (`Scene`), and nothing but its reclaim has decided an open candidate since (`OnlyReclaimed`). Every event of the log fits
  the candidate its occurrence opened (`Explained`, `Fits`), and the last event of a slot says its state (`Traced`). A bar is taken in
  three parts: what the detectors read is what is published (`BarIsTold`), what they make of it (`ReversalDeals`, `ContinuationDeals`),
  and what the log says after it (`TracedGoesOn`). `DecisionsAre` then equates the context's tests with the definition over
  everything published, which the property is stated in.
* `OutcomesAreFinal`: `OutcomesSeeOnlyTheirWindow` from `CapturingInv`. What an event carries (log, seen times, references) was known at its bar
  (`KnownBy`, `StepKnown`), each event is frozen once and with no later time (`Frozen`), and the rest is arithmetic of windows
  clipped by day, horizon and source (`ExpectedCount`, `LacksIs`, `EventsOfWindow`).
* `TouchesAreFirst`: `TouchesFollowThePath` from the same `CapturingInv`, which also says what a snapshot holds (`Snapped`): the close of
  the bar of its event, at most one average, and a direction when its pattern has one, because an open continuation candidate always
  does (`ContinuationDirects`). `CategoryIs` then compares the first bars each side reaches with the sides every path of a bar touches
  first, `ShortestReaches` the offset with the excursions of ever longer windows, and `WindowStarts` places the window in the series.
  It needs every bar's open and close to lie in its range, which `BarOf` gives, and the default mode of threshold outcomes.

Only model-checked: all liveness (TLAPS has no rule for it here); `RetryFindsItsOwn` with two workers (that of one is `OneWorkerRetries`);
the sessions' candles, evidence, scopes and views with `NoFutureReview`, because a command is a fold over the bars of a session and what a
fold returns needs induction over data, which the installed provers cannot do.

## 6. What is left

In order of importance:

1. Replay: `PlaybackController` (pacing credit across pauses and rate changes), which no service uses yet, and the
   backward seek of the in-memory `ReplayCursor`, over `ReplayRuns`.
2. `HistoryInputs`: the composition of stored revisions into one input, as operators checked against the union of their bars.
3. A stored manifest that no longer validates: `recover_stale` (`application/evaluation_scheduler.py:344`) reads every expired run through
   `read_evaluation_run`, so one such row would fail the recovery of all. This needs a fault model of stored values.
4. More statements of one transaction under READ COMMITTED: `enqueue_evaluation` against an explicit claim, and the coverage reads of the
   scheduler against an import that ends between them.
5. Proofs: the sessions' invariants named in section 5, with a prover that does induction over data.

## 7. Not modelled

Backup and restore (run offline; what it verifies is stated as `SealedIsJournal` and
`LiveInputIsContiguous`); configuration, catalogue, demo data and lineage values; the composition, navigation and price series of stored history;
transport, logging and the
web client's view state; and `research/legacy`. Of modelled parts: `indicators/session.py`, the validation of values, JSON schemas and
content hashes (two payloads are the same when the model's values are), display payloads, and exact decimal arithmetic, which the
market model replaces by rounded integers. The limits of 20 clients and two feeds of the live service lie above the bounds of the model.
