SPECIFICATION Spec
CONSTANTS
    Frames = 4
    MasterCommands <- MCCommands
    SlaveCommands <- MCCommands
INVARIANTS
    TypeOK
    WholeFrames
    MasterInStep
PROPERTIES
    NoFrameMissed
    SlaveRecovers
CHECK_DEADLOCK FALSE
