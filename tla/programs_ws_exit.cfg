SPECIFICATION ProgramSpec
CONSTANTS
    ProgramNames <- AllNames
    MaxFails = 2
INVARIANTS
    ExitIsSent
CHECK_DEADLOCK FALSE
