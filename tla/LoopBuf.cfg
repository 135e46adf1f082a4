CONSTANTS
    UnitNum = 5
    MsgNum = 2
    Writers = {w1, w2}
    Sizes = {1, 2, 4}
    Kinds = {"video", "audio"}
    MaxMsgs = 5
    None = none
SPECIFICATION Spec
INVARIANTS
    TypeOK
    RingAccounted
PROPERTIES
    ImplementsMessageFifo
    EveryMessageIsSent
CHECK_DEADLOCK FALSE
