SPECIFICATION FairSpec
CONSTANTS
    user = user
    other = other
    host = host
    Callers <- OneEntererCallers
    May <- OneEntererMay
    Detached <- HostThreads
    Outcomes <- AllOutcomes
    MaxCalls = 4
INVARIANTS
    NoTerminate
    OneOwner
    NoHeartbeatAfterExit
    CurrentKeptAlive
    NoForgottenSession
PROPERTIES
    EveryCallReturns
    ContractSpec
CHECK_DEADLOCK FALSE
