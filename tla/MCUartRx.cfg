SPECIFICATION Spec
CONSTANTS
    Modes <- MCModes
    Parities <- MCParities
    NumDataBits = 2
    Data <- MCData
    Capacity = 2
    BitTicks = 12
    SenderTicks <- MCSenderTicks
    GlitchTicks = 5
    Kinds <- MCKinds
INVARIANTS
    TypeOK
    FramesReported
PROPERTY
    ToldHolds
