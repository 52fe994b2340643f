SPECIFICATION FairSpec
CONSTANTS
    FrameCounts = {0, 1, 3}
    Wanted = 2
    MaxGrant = 3
INVARIANTS FrameIsOurs NoBufferLost SuccessIsComplete
PROPERTY RunEnds
CHECK_DEADLOCK FALSE
