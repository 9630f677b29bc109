CONSTANTS
    tick1 = tick1
    tick2 = tick2
    MAX_TRIES = 3
    Healthy = 5
    RestartSeconds = 3
    Ticks <- MCOneTick
    Operator = FALSE
    Reality = FALSE
SPECIFICATION Spec
PROPERTIES
    TicksEnd
    BlackoutEngages
    BlackoutEnds
