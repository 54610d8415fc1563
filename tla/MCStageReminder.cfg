CONSTANTS
    LastDay = 3
    Ahead = 2
SPECIFICATION Spec
INVARIANT ReasonIsTrue
CHECK_DEADLOCK FALSE
