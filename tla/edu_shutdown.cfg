SPECIFICATION FairSpec
CONSTANTS
    user = user
    other = other
    host = host
    Callers <- SequentialCallers
    May <- SequentialMay
    Detached <- NoThreads
    Outcomes <- Reliable
    MaxCalls = 3
PROPERTY ShutdownStopsHeartbeat
CHECK_DEADLOCK FALSE
