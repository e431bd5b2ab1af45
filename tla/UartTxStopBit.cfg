SPECIFICATION FairSpec
CONSTANTS
    Modes <- MCBuffered
    Formats <- MCFormats
    NumDataBits = 2
    Data <- MCData
    Capacity = 2
    BitTicks = 2
    CallTicks = 1
    TimeMod = 11
    MaxBytes = 3
PROPERTIES
    StopBitHeld
