SPECIFICATION FairSpec
CONSTANTS
  r1 = r1
  r2 = r2
  r3 = r3
  w1 = w1
  w2 = w2
  MaxJobs = 3
  Horizon = 3
  Traded <- ShortTraded
  Window = 3
  Overlap = FALSE
  Requests = {r1, r2}
  RequestRange <- ShortRange
  Foreign = {}
  Open <- ShortOpen
  ScanLimit = 1
  Workers = {w1}
  ManualRanges <- ShortManual
  MaxManual = 1
INVARIANTS
  RetryFindsItsOwn
PROPERTIES
  ServedOnce
  RequestsSettle
