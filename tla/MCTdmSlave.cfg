SPECIFICATION Spec
CONSTANTS
    Channels = 3
    WordBits = 3
    FsyncLens <- MCFsyncLens
    TxOffsets <- MCTxOffsets
    TdmCommands <- MCCommands
    ArmBits = 1
    Frames = 3
    MaxSlips = 2
INVARIANTS
    TypeOK
    SlipSeen
    ErrorFlagTells
PROPERTIES
    WordsInPlace
    Recovers
