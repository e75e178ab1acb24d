SPECIFICATION Spec
CONSTANTS
    ByteSize = 4
    MemorySize = 20
    BigEndian = TRUE
    MaxShift = 7
    Regs = {0, 1, 13, 15}
    Programs <- MCPrograms
    Files <- MCFiles
    Statuses <- MCStatuses
    Contents <- MCContents
    Garbage <- MCGarbage
INVARIANTS
    TypeOK
    AbortIsPrecise
    AddressingModes
    BlockAddress
    StackRestores
PROPERTIES
    BanksUndisturbed
CHECK_DEADLOCK FALSE
