SPECIFICATION Spec
CONSTANTS
    forward = forward
    left = left
    Still = still
    low = low
    high = high
    NoPercent = none
    Movement <- TwoDirections
    Percent <- TwoPositions
    MaxEvents = 6
INVARIANT
    NeverCrashes
CHECK_DEADLOCK FALSE
