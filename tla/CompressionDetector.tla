------------------------ MODULE CompressionDetector -------------------------
(* The range compression pattern (detection/compression.py): a candidate      *)
(* opens when the range state is compressed and choppy enough, is active once *)
(* it has been so on ConfirmationBars bars in a row, and completes when       *)
(* either score falls below its lower release threshold.                      *)
EXTENDS MarketState, DetectorRuntime

CONSTANTS
  ConfirmationBars,
  CompressionEntry, CompressionRelease,   \* scores, in percent
  ChopEntry, ChopRelease                  \* scores, as the ratios <<a, b>> they stand for

ASSUME CompressionAssumption ==
  /\ ConfirmationBars \in Nat \ {0, 1}
  /\ {CompressionEntry, CompressionRelease} \subseteq 0 .. 100
  /\ {ChopEntry, ChopRelease} \subseteq Nat \X (Nat \ {0})

Edge(from, to, trigger) == [from |-> from, to |-> to, trigger |-> trigger]

(* COMPRESSION_V1 *)
CompressionPattern ==
  [states |-> <<"INACTIVE", "CANDIDATE", "ACTIVE", "INVALIDATED", "COMPLETED">>,
   edges |-> <<Edge("INACTIVE", "CANDIDATE", "compression_entry"),
               Edge("CANDIDATE", "ACTIVE", "persistence_confirmed"),
               Edge("CANDIDATE", "INVALIDATED", "candidate_interrupted"),
               Edge("ACTIVE", "COMPLETED", "compression_released")>>,
   conditions |-> {"compression_entry", "persistence_confirmed", "candidate_interrupted",
                   "compression_released"},
   terminal |-> {"INVALIDATED", "COMPLETED"},
   precedence |-> <<"persistence_confirmed", "candidate_interrupted">>,
   chains |-> {}]

(* What a detector returns: the occurrence as it stands, or moved along edges *)
(* observed at bar n.                                                         *)
Unmoved(slot, context) ==
  [raised |-> FALSE, ordinal |-> slot.ordinal, intents |-> <<>>, state |-> slot.state,
   context |-> context]

Intent(slot, edge, event, n, cites) ==
  [ordinal |-> slot.ordinal, edge |-> edge, event |-> event, detection |-> n, cites |-> cites]

Moved(slot, intents, context) ==
  [raised |-> FALSE, ordinal |-> slot.ordinal, intents |-> intents,
   state |-> intents[Len(intents)].edge.to, context |-> context]

-----------------------------------------------------------------------------
(* Scores are percentages of the ranked bandwidths that are not narrower, and *)
(* logarithms of the choppiness ratio.                                        *)
CompressionBelow(r, percent) ==
  100 * (ReferenceBars - 1 - r.lower) < percent * (ReferenceBars - 1)
ChopBelow(r, ratio) == r.score.sum * ratio[2] < ratio[1] * r.score.envelope
ChopAbove(r, ratio) == r.score.sum * ratio[2] > ratio[1] * r.score.envelope

(* _qualifies *)
Qualifies(r) ==
  /\ r.status = "AVAILABLE"
  /\ ~CompressionBelow(r, CompressionEntry)
  /\ ChopAbove(r, ChopEntry)

(* _interruption_cause *)
Interruption(r) ==
  CASE r.status # "AVAILABLE" -> "RANGE_STATE_UNAVAILABLE"
    [] CompressionBelow(r, CompressionEntry) /\ ~ChopAbove(r, ChopEntry) -> "BOTH_ENTRY_AXES_FAILED"
    [] CompressionBelow(r, CompressionEntry) -> "COMPRESSION_ENTRY_FAILED"
    [] OTHER -> "CHOPPINESS_ENTRY_FAILED"

Releases(r) ==
  {x \in {"COMPRESSION_RELEASE", "CHOPPINESS_RELEASE"} :
     IF x = "COMPRESSION_RELEASE" THEN CompressionBelow(r, CompressionRelease)
     ELSE ChopBelow(r, ChopRelease)}

(* _entry *)
CompressionOpens(slot, r, n) ==
  IF ~Qualifies(r) THEN Unmoved(slot, slot.context)
  ELSE Moved(slot, <<Intent(slot, CompressionPattern.edges[1], n, n, {})>>,
             [started |-> n, count |-> 1, observed |-> 0, cause |-> {}])

(* The mistake of counting back one bar too many to where it started. *)
CompressionDatedEarly(slot, r, n) ==
  LET context == [slot.context EXCEPT !.count = @ + 1]
  IN IF ~Qualifies(r)
     THEN Moved(slot, <<Intent(slot, CompressionPattern.edges[3], n, n, {})>>, slot.context)
     ELSE IF context.count < ConfirmationBars THEN Unmoved(slot, context)
     ELSE Moved(slot, <<Intent(slot, CompressionPattern.edges[2], n - ConfirmationBars, n, {})>>, context)

(* _candidate: the confirmation is dated at the bar the candidate started. *)
CompressionPersists(slot, r, n) ==
  LET count == slot.context.count + 1
      context == [slot.context EXCEPT !.count = count]
  IN IF ~Qualifies(r)
     THEN Moved(slot, <<Intent(slot, CompressionPattern.edges[3], n, n, {})>>,
                [slot.context EXCEPT !.cause = {Interruption(r)}])
     ELSE IF count < ConfirmationBars THEN Unmoved(slot, context)
     ELSE Moved(slot, <<Intent(slot, CompressionPattern.edges[2], context.started, n, {})>>,
                [context EXCEPT !.observed = 1])

(* The mistake of releasing at the entry thresholds. *)
CompressionReleasesAtEntry(slot, r, n) ==
  IF Qualifies(r) THEN Unmoved(slot, [slot.context EXCEPT !.observed = @ + 1])
  ELSE Moved(slot, <<Intent(slot, CompressionPattern.edges[4], n, n, {})>>, slot.context)

(* _active: an unavailable range state neither counts nor releases. *)
CompressionReleases(slot, r, n) ==
  CASE r.status # "AVAILABLE" -> Unmoved(slot, slot.context)
    [] r.status = "AVAILABLE" /\ Releases(r) # {} ->
         Moved(slot, <<Intent(slot, CompressionPattern.edges[4], n, n, {})>>,
               [slot.context EXCEPT !.cause = Releases(r)])
    [] OTHER -> Unmoved(slot, [slot.context EXCEPT !.observed = @ + 1])

(* process_bar: thresholds that do not descend are refused on every bar. *)
CompressionOutput(slot, m) ==
  IF ~(CompressionRelease < CompressionEntry /\ ChopRelease[1] * ChopEntry[2] < ChopEntry[1] * ChopRelease[2])
  THEN [Unmoved(slot, slot.context) EXCEPT !.raised = TRUE]
  ELSE CASE slot.state = "INACTIVE" -> CompressionOpens(slot, m.range, m.bars)
         [] slot.state = "CANDIDATE" -> CompressionPersists(slot, m.range, m.bars)
         [] slot.state = "ACTIVE" -> CompressionReleases(slot, m.range, m.bars)
         [] OTHER -> Unmoved(slot, slot.context)
=============================================================================
