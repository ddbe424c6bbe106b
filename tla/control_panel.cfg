SPECIFICATION Spec
CONSTANTS
    forward = forward
    left = left
    Still = still
    low = low
    high = high
    NoPercent = none
    Movement <- TwoDirections
    Percent <- TwoPositions
    MaxEvents = 5
INVARIANTS
    PanelMatchesRobot
    EarsFollowSlider
    ClosedIsDone
    LeftIsStopped
PROPERTY
    CloseEnds
CHECK_DEADLOCK FALSE
