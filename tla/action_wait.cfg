SPECIFICATION Spec
CONSTANTS
    user = user
    Callers <- OneCaller
    MaxActions = 2
    MaxReports = 5
PROPERTIES
    TrueMeansOver
    KilledIsOwn
    EveryCallReturns
CHECK_DEADLOCK FALSE
