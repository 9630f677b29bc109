CONSTANTS
    tick1 = tick1
    tick2 = tick2
    MAX_TRIES = 3
    Healthy = 2
    RestartSeconds = 3
    Ticks <- MCTwoTicks
    Operator = TRUE
    Reality = FALSE
SPECIFICATION Spec
INVARIANTS
    ConfigIsApplied
SYMMETRY MCSymmetry
