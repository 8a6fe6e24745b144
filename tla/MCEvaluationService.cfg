\* Two workers and two evaluations: the first may be queued or executed
\* explicitly, the second has an unregistered outcome, so that it can only be
\* executed with --run-id and ends DETECTION_COMPLETED.  Two commit units per
\* execution, and a lease that is fresh, older or expired.
SPECIFICATION Spec
CONSTANTS
  e1 = e1
  e2 = e2
  w1 = w1
  w2 = w2
  Evals = {e1, e2}
  Workers = {w1, w2}
  NoEval = NoEval
  Unregistered = {e2}
  Chunks = 2
  LeaseTimeout = 1
  MaxWaiting = 2
  MaxPosition = 3
SYMMETRY WorkerSymmetry
INVARIANTS
  TypeOK
  OwnershipInv
  JobAgreesWithRun
  CompletedIsWhole
  ChunksExactlyOnce
PROPERTIES
  TerminalForever
  PauseAfterAbnormalEnd
  FrozenOutput
  CancelledOnRequest
