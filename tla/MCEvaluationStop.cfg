\* One worker, one queued evaluation: the smallest instance in which a stop is
\* accepted after the run completed and before its receipt was written.
SPECIFICATION Spec
CONSTANTS
  e1 = e1
  e2 = e2
  w1 = w1
  w2 = w2
  Evals = {e1}
  Workers = {w1}
  NoEval = NoEval
  Unregistered = {}
  Chunks = 1
  LeaseTimeout = 0
  MaxWaiting = 1
  MaxPosition = 1
INVARIANT StoppedJobIsNotCompleted
