SPECIFICATION ReviewSpec
CONSTANTS
  Open <- MCOpen
  DayLength = 8
  Length <- MCLength
  Frames <- MCFrames
  Source <- MCSource
  Requests <- MCRequests
  Definition <- Compression
  Scripts <- MCScripts
  HistoryCapacity = 1
  ReplayCapacity = 1
  MaxSessions = 2
  MaxLost = 1
  u1 = u1
  u2 = u2
  Reviewers = {u1, u2}
  Intervals <- MCIntervals
  Times = {0, 1}
  MaxAnnotations = 1
  MaxRevisions = 3
CONSTRAINT FewReviews
SYMMETRY ReviewSymmetry
INVARIANTS
  CandlesAreReference
  EvidenceAgrees
  EvictedScopeIsKept
  HistoriesAreLinear
  NoFutureReview
PROPERTIES
  RevealedViewIsFixed
  ReviewsStayListed
CHECK_DEADLOCK FALSE
