CONSTANTS
    Byte <- MCByte
    Block = 4
    PadTo = 2
    Bits = 2
    Word = 16
    ReadSize = 3
    Data <- MCData
SPECIFICATION Spec
INVARIANTS ContextHolds DigestRight
