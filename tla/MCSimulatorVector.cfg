SPECIFICATION Safety
CONSTANTS
    WordSize = 4096
    MemorySize = 60
    Programs <- MCPrograms
    BreakAddresses = {36}
    PcValues = {4092}
    Inputs = {1}
    IrqBytes = {1, 4, 8}
    MAX_BREAKPOINTS_NUMBER = 1
    MaxRequests = 1
    MaxInterrupts = 1
PROPERTIES
    StartsAtVector
