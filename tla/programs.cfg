SPECIFICATION ProgramSpec
CONSTANTS
    ProgramNames <- AllNames
    MaxFails = 2
INVARIANTS
    TidiedKeepsPromise
    WalksInsideMovement
    AdjustmentsJoin
    BleExitIsSent
CHECK_DEADLOCK FALSE
