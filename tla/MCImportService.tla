---------------------------- MODULE MCImportService ----------------------------
EXTENDS ImportService, TLC

CONSTANTS r1, r2, r3, w1, w2

\* Minute 2 is open but was not traded; minute 4 is closed and splits the request
\* r1 in two imports.  The first has two pages, the second of which repeats a bar.
\* The manual import overlaps both pages.
MCTraded == {0, 1, 3, 5}
MCOpen == {0, 1, 2, 3, 5}
MCRange == (r1 :> [from |-> 0, to |-> 6]) @@ (r3 :> [from |-> 0, to |-> 1])
MCManual == {[from |-> 1, to |-> 3]}

\* The short market of the liveness run.  Minute 1 has no bar; a manual import
\* of it splits what is missing of r1 in two.
ShortTraded == {0, 2}
ShortOpen == {0, 1, 2}
ShortRange == (r1 :> [from |-> 0, to |-> 3]) @@ (r2 :> [from |-> 1, to |-> 3])
ShortManual == {[from |-> 1, to |-> 2]}

WorkerSymmetry == Permutations(Workers)

===============================================================================
