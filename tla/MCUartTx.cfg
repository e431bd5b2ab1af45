SPECIFICATION FairSpec
CONSTANTS
    Modes <- MCModes
    Formats <- MCFormats
    NumDataBits = 2
    Data <- MCData
    Capacity = 2
    BitTicks = 2
    CallTicks = 1
    TimeMod = 11
    MaxBytes = 4
INVARIANTS
    TypeOK
    WireCarriesAccepted
PROPERTIES
    EmptyMeansSent
    BitsHeld
    EveryByteSent
    EmptyCallback
