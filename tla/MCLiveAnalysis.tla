---------------------------- MODULE MCLiveAnalysis ----------------------------
(* A small live feed for TLC. *)
EXTENDS LiveAnalysis, TLC

MCOpen == {0, 1}
MCOpenClosed == {0, 2}
Symmetric == Permutations(Clients)

===============================================================================
