SPECIFICATION Spec
CONSTANTS
    MAX_ERROR_SIZE = 3
    MaxRequests = 4
    MaxDamaged = 4
    MaxInterrupts = 4
INVARIANTS
    TypeOK
    ExecutedOnce
    AnswersMatch
PROPERTIES
    RequestCompletes
CHECK_DEADLOCK FALSE
