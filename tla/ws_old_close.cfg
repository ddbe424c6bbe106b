SPECIFICATION Spec
CONSTANTS
    MaxConns = 3
    MaxStarts = 1
CHECK_DEADLOCK FALSE
INVARIANT OpenIsReported
