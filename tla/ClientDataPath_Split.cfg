CONSTANTS
    Frames <- MCResetFrames
    MaxFrames = 3
    Baud = 115200
    Segmented = TRUE
SPECIFICATION Spec
CHECK_DEADLOCK FALSE
INVARIANT SerialDataMatches
