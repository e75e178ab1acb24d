SPECIFICATION Spec
CONSTANTS
    W = 4
    MaxAmount = 9
INVARIANTS
    CarryOfTrueResult
