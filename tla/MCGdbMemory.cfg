SPECIFICATION GdbSpec
CONSTANTS
    Size = 5
    Byte = {0, 93, 125}
    Addresses <- MCAddresses
    Values <- MCValues
    Contents <- MCContents
    MaxSize = 5
    MAX_PACKET_SIZE = 8
    TableSize = 1
    PointerSize = 2
    PacketSize = 2
PROPERTIES
    LoadIsExact
    
    AnswerFits
CHECK_DEADLOCK FALSE
