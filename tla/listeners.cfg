SPECIFICATION Spec
CONSTANTS
    notify = notify
    io = io
    Dispatchers <- TwoDispatchers
    MaxSamples = 3
    MaxListeners = 2
SYMMETRY Interchangeable
INVARIANTS
    ServesThoseListed
    SeenInOrder
CHECK_DEADLOCK FALSE
