SPECIFICATION Spec
CONSTANTS
    MaxConns = 3
    MaxStarts = 2
INVARIANTS
    ActiveIsOpen
    ConnectedHasActive
    StartedListens
PROPERTY
    StopReturns
CHECK_DEADLOCK FALSE
