SPECIFICATION Spec
CONSTANTS
    Devices <- MCDevices
    Absent <- MCAbsent
    Written <- MCWritten
    Supplied <- MCSupplied
    MaxLen = 4
INVARIANTS
    TypeOK
    ResultTells
    BusFreed
