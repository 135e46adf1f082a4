SPECIFICATION Spec
CONSTANTS
  Users = {u1, u2}
  NoUser = none
  NumChan = 3
  LastTime = 22
  Widest = 2
  Jump = 1
  Late = 1
  Recorded <- MCRecorded
  Asked <- MCAsked
INVARIANTS TypeOK OneExchange ThreadsFollow OpenFileIsListed
PROPERTIES JumpSkipsNothing Answered RunEnds
CHECK_DEADLOCK FALSE
