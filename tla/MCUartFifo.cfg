SPECIFICATION FifoFairSpec
CONSTANTS
    Bytes <- MCBytes
    Zero = 0
    SizePlusOne = 3
    UintMod = 256
    MaxSent = 5
INVARIANTS
    FifoTypeOK
    NoSlotRace
    FirstInFirstOut
PROPERTIES
    ZeroMeansEmpty
    EveryByteHandedOut
    ImplementsQueue
