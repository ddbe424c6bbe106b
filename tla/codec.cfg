SPECIFICATION Spec
CONSTANTS
    NoValue = NoValue
    Refused = Refused
    Invalid = Invalid
    AddressBytes = 2
    Addresses <- MCAddresses
    Absent = Absent
    Numbers <- MCNumbers
    Timeouts <- MCTimeouts
    Ids <- MCIds
    MaxItems = 3
    Durations <- MCDurations
    Angles <- MCAngles
    IntHalf = 4
    Wholes <- MCWholes
    Offsets <- MCOffsets
INVARIANTS
    ActionsAsAsked
    FramesReadBack
    NotifyReadsBack
    ControlsDoAsLabelled
CHECK_DEADLOCK FALSE
