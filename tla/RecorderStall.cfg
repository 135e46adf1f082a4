SPECIFICATION Spec
CONSTANTS
  p1 = p1
  NumChan = 1
  Producer = {p1}
  Cap = 2
  HighMark = 1
  LowMark = 1
  Patience = 0
  DelayOn = TRUE
  Events = {"manualOn", "pause", "resume"}
  MaxEvents = 3
  MaxCmds = 2
  MaxMsgs = 6
PROPERTY SavingStarts
CHECK_DEADLOCK FALSE
