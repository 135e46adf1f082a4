SPECIFICATION Spec
CONSTANTS
  p1 = p1
  NumChan = 1
  Producer = {p1}
  Cap = 1
  HighMark = 0
  LowMark = 0
  Patience = 0
  DelayOn = TRUE
  Events = {"manualOn", "resume", "full"}
  MaxEvents = 3
  MaxCmds = 1
  MaxMsgs = 1
INVARIANT MessagesAreSignalled
PROPERTY DiskIsFollowed
CHECK_DEADLOCK FALSE
