CONSTANTS
    Frames <- MCStopFrames
    MaxFrames = 2
    Baud = 115200
    Segmented = FALSE
SPECIFICATION Spec
CHECK_DEADLOCK FALSE
INVARIANT RepliesMatch
