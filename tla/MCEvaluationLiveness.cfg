SPECIFICATION FairSpec
CONSTANTS
  e1 = e1
  e2 = e2
  w1 = w1
  w2 = w2
  Evals = {e1, e2}
  Workers = {w1}
  NoEval = NoEval
  Unregistered = {}
  Chunks = 1
  LeaseTimeout = 0
  MaxWaiting = 2
  MaxPosition = 3
PROPERTIES
  ServiceKeepsMoving
  ImplementsSerialQueue
