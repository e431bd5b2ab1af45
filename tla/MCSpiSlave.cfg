SPECIFICATION Spec
CONSTANTS
    ByteBits = 2
    WordBytes = 2
    InLens <- MCLens
    OutLens <- MCLens
    Duplex = {TRUE, FALSE}
    MaxBits = 15
INVARIANTS
    TypeOK
    ReportExact
    MisoExact
