SPECIFICATION Spec
CONSTANTS
    ByteBits = 3
    Devices <- MCDevices
    Absent <- MCAbsent
    Written <- MCWritten
    Supplied <- MCSupplied
    MaxLen = 2
    StopsTogether = TRUE
INVARIANTS
    TypeOK
    BusAtRest
PROPERTIES
    ImplementsTransfer
    StartsAndStops
    CallsReturn
