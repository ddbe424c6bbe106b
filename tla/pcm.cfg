SPECIFICATION PcmSpec
CONSTANTS
    in1 = in1
    in2 = in2
    none = none
    Playback <- TwoPlayback
    Capture <- TwoCapture
    NoHeader <- none
    QueueLimit = 1
    MaxChunks = 4
INVARIANTS
    PlayedInOrder
    CaptureGoesRound
PROPERTIES
    PlaybackContractSpec
    PlaybackGoesOn
    MainReturns
CHECK_DEADLOCK FALSE
