SPECIFICATION Spec
CONSTANTS
  Causes = {"format", "hotplug", "update"}
  NumChan = 2
  FileNums = 2
  PicNums = 3
  RingPics = 1
  BufTotal = 3
  MaxPics = 6
  MaxPauses = 2
  MaxFaults = 1
  MaxCrashes = 1
  MaxTroubles = 2
INVARIANTS
  TypeOK
  IndexedIsStored
  NothingLost
  StoppedMeansClosed
PROPERTIES
  IndexedStays
  SnapshotsResume
