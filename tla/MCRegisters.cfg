SPECIFICATION GdbSpec
CONSTANTS
    MaxWork = 3
    Packets <- MCPackets
    Reg <- MCReg
    Values <- MCValues
    StatusWords <- MCStatusWords
    TraceModes <- MCTraceModes
    HostBigEndian = FALSE
INVARIANTS
    TypeOK
    GWritesItsMode
    RoundTrip
PROPERTIES
    WriteIsolation
CHECK_DEADLOCK FALSE
