------------------------- MODULE MCAnalysisSessions -------------------------
(* Six source minutes of one trading day with a scheduled closure in minute 4, *)
(* a one-minute and a three-minute timeframe: the first three-minute bucket is *)
(* truncated by the source, the second has the closure in it and the last is   *)
(* shortened by the end of the day.                                            *)
EXTENDS AnalysisReview

CONSTANTS u1, u2

MCOpen == 0 .. 7 \ {4}
MCLength == [m |-> 1, h |-> 3]
MCFrames == DOMAIN MCLength
MCSource == [full |-> <<1, 2, 3, 5, 6, 7>>, gapped |-> <<1, 2, 3, 6, 7>>]

Edge(a, b, t) == [from |-> a, to |-> b, trigger |-> t]
(* RANGE_COMPRESSION v1, detection/compression.py *)
Compression ==
  [states |-> <<"INACTIVE", "CANDIDATE", "ACTIVE", "INVALIDATED", "COMPLETED">>,
   edges |-> <<Edge("INACTIVE", "CANDIDATE", "compression_entry"),
               Edge("CANDIDATE", "ACTIVE", "persistence_confirmed"),
               Edge("CANDIDATE", "INVALIDATED", "candidate_interrupted"),
               Edge("ACTIVE", "COMPLETED", "compression_released")>>,
   conditions |-> {"compression_entry", "persistence_confirmed", "candidate_interrupted",
                   "compression_released"},
   precedence |-> <<"persistence_confirmed", "candidate_interrupted">>,
   terminal |-> {"INVALIDATED", "COMPLETED"}, chains |-> {}]

ASSUME CompressionIsValid == ValidDefinition(Compression)

(* Two occurrences, the first of them over before the replay starts; one that   *)
(* stays open; and a detector that raises on its fourth candle.                *)
MCScripts ==
  [twice |-> <<{"compression_entry"}, {"candidate_interrupted"}, {"compression_entry"},
               {}, {"candidate_interrupted"}>>,
   once |-> <<{}, {"compression_entry"}>>,
   broken |-> <<{}, {"compression_entry"}, {"persistence_confirmed"}, {Raise}>>]

Stream(frame, script, warmup, policy) ==
  [frame |-> frame, script |-> script, warmup |-> warmup, policy |-> policy]
Request(dataset, mode, start, automatic, streams) ==
  [dataset |-> dataset, mode |-> mode, start |-> start, end |-> 8,
   automatic |-> automatic, streams |-> streams]

MCIntervals == {<<3, 6>>}

(* Bound of the run: the annotation is made at the last tick of the clock, of   *)
(* evidence of the first session; and edits, which read and write nothing of a  *)
(* session, race while no session is open.                                      *)
FewReviews ==
  /\ \A u \in Creating :
       /\ request[u].time = 1
       /\ request[u].target.kind # "missed_pattern" =>
            /\ request[u].target.instance.run = <<1, 1>>
            /\ request[u].target.kind = "event" => request[u].target.sequence = 0
  /\ (\E u \in Reviewers : request[u].op = "edit") => sessions = << >>

ReviewSymmetry == Permutations(Reviewers)

MCRequests ==
  {Request("full", "replay", 3, FALSE,
           <<Stream("m", "twice", 2, "live"), Stream("h", "once", 0, "manual")>>),
   Request("gapped", "replay", 2, FALSE, <<Stream("m", "once", 0, "live")>>),
   Request("full", "replay", 2, FALSE, <<Stream("m", "broken", 1, "live")>>),
   Request("full", "history", 2, FALSE, <<Stream("m", "twice", 3, "live")>>),
   Request("full", "history", 3, TRUE,
           <<Stream("m", "once", 0, "live"), Stream("h", "once", 1, "always")>>),
   Request("gapped", "history", 2, FALSE, <<Stream("m", "once", 0, "live")>>)}
=============================================================================
