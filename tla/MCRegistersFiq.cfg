SPECIFICATION GdbSpec
CONSTANTS
    MaxWork = 3
    Packets <- AllPackets
    Reg <- MCReg
    Values <- MCValues
    StatusWords <- AllStatusWords
    TraceModes <- NoTrace
    HostBigEndian = FALSE
INVARIANTS
    NoOverflow
