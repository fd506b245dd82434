SPECIFICATION Spec
CONSTANTS
    M = 3
    E = 0
    Plans <- MCPlans
INVARIANTS
    WellFormed
    IndexAgrees
    AppendAgrees
CHECK_DEADLOCK FALSE
