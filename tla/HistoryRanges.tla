----------------------------- MODULE HistoryRanges -----------------------------
(***************************************************************************)
(* history_range_requests and application/history_ranges.py: durable       *)
(* requests for chart history, what the retained imports cover of them,    *)
(* and the scheduler that fills the import slot with what is missing.      *)
(*                                                                         *)
(* All imports belong to the one configured feed (POST /imports and the    *)
(* scheduler use the same account, environment and profile); Foreign holds *)
(* the requests whose feed, account or calendar no longer applies.         *)
(***************************************************************************)
EXTENDS ImportJobs, Sequences

CONSTANTS Requests,      \* durable requests a client may make
          RequestRange,  \* [Requests -> [from, to]]
          Foreign,       \* requests the scheduler can only refuse
          Open,          \* minutes the calendar expects to be open
          ScanLimit      \* unsettled requests looked at in one poll (20)

ASSUME RequestsAssumption ==
    \A r \in Requests : /\ RequestRange[r].from \in 0..Horizon /\ RequestRange[r].to \in 0..Horizon
                        /\ RequestRange[r].from < RequestRange[r].to

VARIABLES asked,     \* rows of history_range_requests, by created_at
          settled,   \* settled
          refused    \* failure_reason is set

historyVars == <<asked, settled, refused>>

HistoryTypeOK ==
    /\ asked \in Seq(Requests)
    /\ settled \subseteq Requests
    /\ refused \subseteq settled

HistoryInit == asked = <<>> /\ settled = {} /\ refused = {}

RequestMinutes(r) == RequestRange[r].from..(RequestRange[r].to - 1)

-------------------------------------------------------------------------------
(* history_coverage, minute by minute (its spans join equal minutes).      *)

Covering(m) == {j \in Known : m \in Requested(j)}
Sources(m) == {j \in Covering(m) : status[j] = "completed"}
Unexpected(j) == ~(directory[j].bars \subseteq Open)
Available(m) == {j \in Sources(m) : m \in directory[j].bars /\ ~Unexpected(j)}

\* What makes two revisions the same source for a request: the checksum of
\* their bars and the part of the request they cover.
Identity(r, j) ==
    <<directory[j].bars, Max({from[j], RequestRange[r].from}), Min({to[j], RequestRange[r].to})>>

\* Mistake: what an import could not deliver counts as never asked for.
MinuteStatusRetrying(r, m) ==
    CASE m \notin Open -> "closed"
      [] m \in Open /\ Available(m) # {} -> "available"
      [] OTHER -> "missing"

MinuteStatus(r, m) ==
    CASE m \notin Open -> IF \E j \in Sources(m) : Unexpected(j) THEN "unexpected_gap" ELSE "closed"
      [] m \in Open /\ Available(m) # {} ->
            IF Cardinality({Identity(r, j) : j \in Available(m)}) > 1 THEN "conflict"
            ELSE "available"
      [] m \in Open /\ Available(m) = {} ->
            IF \E j \in Covering(m) : status[j] \in {"queued", "running"} THEN "pending"
            ELSE IF Sources(m) # {}
                 THEN IF \E j \in Sources(m) : directory[j].bars # {}
                      THEN "unexpected_gap" ELSE "unavailable"
            ELSE IF Covering(m) # {} \/ r \in refused THEN "failed" ELSE "missing"

Missing(r) == {m \in RequestMinutes(r) : MinuteStatus(r, m) = "missing"}

\* The first missing span: up to the first minute that is not missing.
MissingFrom(r) == Min(Missing(r))

MissingTo(r) == Min((MissingFrom(r)..RequestRange[r].to) \ Missing(r))

-------------------------------------------------------------------------------
RequestHistory(r) ==
    /\ \A i \in DOMAIN asked : asked[i] # r
    /\ asked' = Append(asked, r)
    /\ UNCHANGED <<importVars, settled, refused>>

\* schedule_history_import, after it found the slot free.  Requests are taken in
\* creation order; each is settled when nothing of it is missing or pending, up
\* to the first one with a missing span, which asks for the slot.  Coverage is
\* read by later statements than the slot, so another import may have taken it
\* meanwhile: what that covers is pending, and the span is not scheduled.
Unsettled == {i \in DOMAIN asked : asked[i] \notin settled}
Scan == {i \in Unsettled : Cardinality({k \in Unsettled : k <= i}) <= ScanLimit}
Wanting == {i \in Scan : asked[i] \notin Foreign /\ Missing(asked[i]) # {}}

\* Where the scan stops: at the first request that wants the slot, if any.
ScanEnd == IF Wanting = {} THEN Len(asked) + 1 ELSE Min(Wanting)

Pending(r) == \E m \in RequestMinutes(r) : MinuteStatus(r, m) = "pending"

SettleAll(passed) ==
    /\ settled' = settled \cup passed
    /\ refused' = refused \cup (passed \cap Foreign)
    /\ UNCHANGED asked

Settleable(r) == r \in Foreign \/ ~Pending(r)

\* Mistake: what an import is still fetching does not hold a request back.
SettleUnlessMissing(end) == SettleAll({asked[i] : i \in {k \in Scan : k < end}})

\* The requests the scan passes by before its end.
SettlePassed(end) ==
    SettleAll({asked[i] : i \in {k \in Scan : k < end /\ Settleable(asked[k])}})

\* Nothing is missing, or another import has won the slot.
ScheduleNothing ==
    /\ ~NoActiveImport \/ Wanting = {}
    /\ SettlePassed(ScanEnd)

\* The first missing span takes the slot as job j, which claim_import_job then
\* claims in the same transaction.
ScheduleHistoryImport(j) ==
    /\ Wanting # {}
    /\ LET r == asked[ScanEnd] IN
       CreateImportJob(j, "shared", MissingFrom(r), MissingTo(r), FALSE, "running")
    /\ SettlePassed(ScanEnd)

===============================================================================
