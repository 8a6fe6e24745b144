SPECIFICATION CapturingSpec
CONSTANTS
  Unit = 65536
  EmaPeriod = 3
  AtrPeriod = 1
  ChopPeriod = 3
  BandwidthPeriod = 2
  ReferenceBars = 4
  ReversalPercent = 100
  EqualPercent = 25
  BufferPercent = 10
  MinDuration = 4
  MinMovement = 3
  ConfirmationBars = 2
  CompressionEntry = 60
  CompressionRelease = 30
  ChopEntry <- MCChopEntry
  ChopRelease <- MCChopRelease
  MaxAge = 3
  Scenarios <- MCScenarios
  Moves <- MCMoves
  FreeBars = 5
  Start = 1
  DayMinutes = 20
  MissingMinute = 21
  SelectedStart = 6
  SelectedEnd = 21
  Predicates <- MCPredicates
  Outcomes <- MCOutcomes
INVARIANTS
  NoBarIsRefused
  SwingsAreReference
  LegsAreReference
  CompressionIsStreak
  CandidatesAreDecidedOnce
  OutcomesSeeOnlyTheirWindow
  TouchesFollowThePath
CHECK_DEADLOCK FALSE
