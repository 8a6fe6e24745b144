SPECIFICATION Spec
CONSTANTS
  r1 = r1
  r2 = r2
  r3 = r3
  w1 = w1
  w2 = w2
  MaxJobs = 2
  Horizon = 6
  Traded <- MCTraded
  Window = 2
  Overlap = TRUE
  Requests = {r1, r3}
  RequestRange <- MCRange
  Foreign = {r3}
  Open <- MCOpen
  ScanLimit = 2
  Workers = {w1, w2}
  ManualRanges <- MCManual
  MaxManual = 1
SYMMETRY WorkerSymmetry
INVARIANTS
  ExactAcquisition
PROPERTY EndedImportStays
