SPECIFICATION Spec
CONSTANTS
    user = user
    other = other
    null = null
    Callers <- TwoCallers
    Retries = 2
    NoObject <- null
    MaxCalls = 3
CONSTRAINT
    WhileApart
INVARIANTS
    HandlersAreKnown
    ConnectedIsWhole
    RaceIsMisuse
CHECK_DEADLOCK FALSE
