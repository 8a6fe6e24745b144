\* Four hours of two minutes and two attempts per pass: hours with gaps, an hour
\* whose publication always raises, and late minutes compete for the budget.
SPECIFICATION RetentionFairSpec
CONSTANTS
  Hours = 4
  HourLength = 2
  Open <- MCOpen
  Budget = 2
  Broken = {0}
  Corrected = {2}
INVARIANT SealedIsJournal
PROPERTIES
  WholeHoursArePublished
