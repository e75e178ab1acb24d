SPECIFICATION Spec
CONSTANTS
    YY_BUF_SIZE = 2
    YY_READ_BUF_SIZE = 3
    Streams <- MCStreams
INVARIANTS
    TypeOK
    NoInternalError
    NothingLost
    NoTokenHeldBack
PROPERTIES
    TokensOfTheInput
    EverythingScanned
CHECK_DEADLOCK FALSE
