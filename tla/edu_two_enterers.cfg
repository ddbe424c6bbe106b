SPECIFICATION FairSpec
CONSTANTS
    user = user
    other = other
    host = host
    Callers <- TwoEnterersCallers
    May <- TwoEnterersMay
    Detached <- HostThreads
    Outcomes <- Reliable
    MaxCalls = 3
INVARIANT NoTerminate
CHECK_DEADLOCK FALSE
