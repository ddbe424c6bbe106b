SPECIFICATION FairSpec
CONSTANTS
    user = user
    other = other
    host = host
    Callers <- StaleExitCallers
    May <- StaleExitMay
    Detached <- HostThreads
    Outcomes <- Reliable
    MaxCalls = 3
INVARIANT RobotInSession
CHECK_DEADLOCK FALSE
