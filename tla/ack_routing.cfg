SPECIFICATION Spec
CONSTANTS
    user = user
    heartbeat = heartbeat
    edu = edu
    move = move
    ear = ear
    Threads <- TwoThreads
    Kinds <- AllKinds
    KindsOf <- TwoThreadsKinds
    Unawaited <- EarPercentage
    MaxSends = 3
INVARIANTS
    LeftoverIsAbandoned
    AcceptedById
    OwnUnlessOverlapped
CHECK_DEADLOCK FALSE
