SPECIFICATION Spec
CONSTANTS
  p1 = p1
  NumChan = 1
  Producer = {p1}
  Cap = 2
  HighMark = 1
  LowMark = 1
  Patience = 0
  DelayOn = TRUE
  Events = {"manualOn", "manualOff", "alarmOn", "alarmOff", "preOn", "preOff", "pause", "resume", "hotplug", "working", "format"}
  MaxEvents = 3
  MaxCmds = 2
  MaxMsgs = 2
INVARIANT TypeOK
INVARIANT PauseAgreement
INVARIANT ForcedMeansClosed
PROPERTY TransitionsAreTold
CHECK_DEADLOCK FALSE
