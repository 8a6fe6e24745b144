---------------------------- MODULE MCBrowserReplay ----------------------------
(* A short walkthrough for TLC: two bars of warm-up, events on three bars. *)
EXTENDS BrowserReplay, TLC

MCEmitting == {0, 2, 4}
Symmetric == Permutations(Runs)

===============================================================================
