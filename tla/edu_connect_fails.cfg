SPECIFICATION FairSpec
CONSTANTS
    user = user
    other = other
    host = host
    Callers <- RobotConnectsCallers
    May <- RobotConnectsMay
    Detached <- HostThreads
    Outcomes <- AllOutcomes
    MaxCalls = 3
INVARIANT NoTerminate
CHECK_DEADLOCK FALSE
