SPECIFICATION Spec
CONSTANTS
  p1 = p1
  p2 = p2
  NumChan = 1
  Producer = {p1, p2}
  Cap = 2
  HighMark = 1
  LowMark = 1
  Patience = 0
  DelayOn = TRUE
  Events = {"manualOn"}
  MaxEvents = 1
  MaxCmds = 1
  MaxMsgs = 1
INVARIANT FlagHasMessage
PROPERTY SavingStarts
CHECK_DEADLOCK FALSE
