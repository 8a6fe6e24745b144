-------------------------- MODULE CandleAggregation --------------------------
(* domain/aggregation.py: completed candles of one analytical timeframe, built *)
(* from finalized source minutes in order.  Minutes are natural numbers; a     *)
(* candle is the bucket it covers and the source minutes it was built from.    *)
(* Prices are left out: which minutes a candle holds decides them.             *)
EXTENDS Integers, Sequences, FiniteSets, Functions, FiniteSetsExt, SequencesExt

CONSTANTS
  Open,        \* minutes in which the calendar says the session is open
  DayLength,   \* a trading day is [k * DayLength, (k + 1) * DayLength)
  Length,      \* minutes of a timeframe
  Frames       \* the analytical timeframes, DOMAIN Length

ASSUME AggregationAssumption ==
  /\ Open \subseteq Nat
  /\ DayLength \in Nat \ {0}
  /\ Length \in [Frames -> Nat \ {0}]

Unset == -1

(* A bucket is aligned to the epoch and cut at the trading day's bounds. *)
BucketBounds(t, frame) ==
  LET day == (t \div DayLength) * DayLength
      start == (t \div Length[frame]) * Length[frame]
  IN <<Max({start, day}), Min({start + Length[frame], day + DayLength})>>

OpenFrom(a, b) == SelectSeq([i \in 1 .. b - a |-> a + i - 1], LAMBDA t : t \in Open)
OpenMinutes(bucket) == OpenFrom(bucket[1], bucket[2])

(* An aggregator: the first minute pushed, the last one, the watermark, the    *)
(* pending buckets with their minutes in arrival order, and the failure latch. *)
FreshAggregator ==
  [origin |-> Unset, previous |-> Unset, watermark |-> Unset, pending |-> <<>>, failed |-> FALSE]

(* CandleAggregator.pending_end *)
PendingEnd(agg) ==
  IF agg.pending = <<>> THEN Unset ELSE Min({b.bucket[2] : b \in Range(agg.pending)})

(* A pending bucket is emitted only when it holds every open minute of its     *)
(* bounds; one that began before the first pushed minute is skipped, one with  *)
(* a hole fails the aggregator.                                                *)
Truncated(agg, b) ==
  \/ OpenMinutes(b.bucket) = <<>>
  \/ OpenMinutes(b.bucket)[1] < agg.origin
Whole(b) == b.minutes = OpenMinutes(b.bucket)

(* advance: [ok, agg, candles] *)
AdvanceTo(agg, watermark) ==
  LET due == SelectSeq(agg.pending, LAMBDA b : b.bucket[2] <= watermark)
      kept == SelectSeq(due, LAMBDA b : ~Truncated(agg, b))
      moved == [agg EXCEPT !.watermark = watermark,
                           !.pending = SelectSeq(@, LAMBDA b : b.bucket[2] > watermark)]
  IN IF agg.failed \/ watermark < agg.watermark
     THEN [ok |-> FALSE, agg |-> agg, candles |-> <<>>]
     ELSE IF \E i \in DOMAIN kept : ~Whole(kept[i])
     THEN [ok |-> FALSE, agg |-> [moved EXCEPT !.failed = TRUE], candles |-> <<>>]
     ELSE [ok |-> TRUE, agg |-> moved, candles |-> kept]

Collect(pending, bucket, minute) ==
  IF \E i \in DOMAIN pending : pending[i].bucket = bucket
  THEN [i \in DOMAIN pending |->
          IF pending[i].bucket = bucket
          THEN [pending[i] EXCEPT !.minutes = Append(@, minute)] ELSE pending[i]]
  ELSE Append(pending, [bucket |-> bucket, minutes |-> <<minute>>])

(* push: a closed, repeated or skipped open minute fails the aggregator; else  *)
(* the watermark moves to the minute, the minute is collected, and the         *)
(* watermark moves past it.                                                    *)
Push(agg, minute, frame) ==
  LET first == AdvanceTo(agg, minute)
      collected == [first.agg EXCEPT
                      !.origin = IF @ = Unset THEN minute ELSE @,
                      !.previous = minute,
                      !.pending = Collect(@, BucketBounds(minute, frame), minute)]
      last == AdvanceTo(collected, minute + 1)
      valid == /\ minute \in Open
               /\ agg.previous # Unset =>
                    /\ minute > agg.previous
                    /\ \A t \in agg.previous + 1 .. minute - 1 : t \notin Open
  IN IF ~valid \/ agg.failed \/ ~first.ok \/ ~last.ok
     THEN [ok |-> FALSE, agg |-> [agg EXCEPT !.failed = TRUE], candles |-> <<>>]
     ELSE [ok |-> TRUE, agg |-> last.agg, candles |-> first.candles \o last.candles]

(* What the candles of a timeframe should be: every bucket that had ended by   *)
(* the watermark and whose first open minute the source has, once and in       *)
(* order, with exactly its open minutes.                                       *)
ReferenceCandles(origin, watermark, frame) ==
  LET Bucket(t) == BucketBounds(t, frame)
      first == SelectSeq(OpenFrom(origin, watermark), LAMBDA t :
                 Bucket(t)[2] <= watermark /\ t = OpenMinutes(Bucket(t))[1])
  IN [i \in DOMAIN first |->
        [bucket |-> Bucket(first[i]), minutes |-> OpenMinutes(Bucket(first[i]))]]
=============================================================================
