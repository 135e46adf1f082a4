\* Two channels, two failed upgrades, two events that make others pause or resume.
SPECIFICATION Spec
CONSTANTS
  NumChan = 2
  MaxUpgrades = 2
  MaxEvents = 2
INVARIANTS
  VideoRingsReturn
  RecordingHasRing
CHECK_DEADLOCK FALSE
