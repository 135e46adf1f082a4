CONSTANTS
    Length = 4
    Byte = {b1, b2}
    NoByte = noByte
SPECIFICATION RingSpec
INVARIANTS
    Consistent
PROPERTIES
    OnlyTheEndsMove
