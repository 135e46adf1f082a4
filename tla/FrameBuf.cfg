CONSTANTS
    Length = 7
    Byte <- Cell
    NoByte = noByte
    HeaderLen = 2
    Sizes = {1, 6}
    Producers = {p1, p2}
    PreTimes = {1}
    MaxFrames = 3
    None = none
SPECIFICATION Spec
INVARIANTS
    TypeOK
    Framed
PROPERTIES
    ImplementsFrameFifo
    EveryFrameIsDealtWith
CHECK_DEADLOCK FALSE
