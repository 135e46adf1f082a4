SPECIFICATION Spec
CONSTANTS
  NumChan = 2
  Total = 2
  MaxSect = 2
  MaxRecs = 4
  MaxCrashes = 2
INVARIANTS
  OneOwner
  AlwaysAValidCopy
  KeptIsFound
  ShownUnderItsChannel
  OldestGoesFirst
CHECK_DEADLOCK FALSE
