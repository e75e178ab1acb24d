SPECIFICATION Spec
CONSTANTS
    Size = 5
    Byte = {0, 1}
    Addresses <- MCAddresses
    Values <- MCValues
INVARIANTS
    TypeOK
PROPERTIES
    WriteReadsBack
CHECK_DEADLOCK FALSE
