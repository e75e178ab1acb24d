SPECIFICATION Spec
CONSTANTS
    Address = {0, 4, 8, 12}
    MAX_BREAKPOINTS_NUMBER = 3
INVARIANTS
    TypeOK
    Sorted
    SearchWindow
    ShiftGap
PROPERTIES
    ImplementsSet
    EveryRequestAnswered
