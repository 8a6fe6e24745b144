---------------------------- MODULE MCLiveRetention ----------------------------
EXTENDS LiveRetention

\* Minutes 3 and 6 are closed: hours 1 and 3 have one open minute each.
MCOpen == {0, 1, 2, 4, 5, 7}

===============================================================================
