CONSTANTS
    Frames <- MCFrames
    MaxFrames = 4
    Baud = 115200
    Segmented = FALSE
SPECIFICATION Spec
CHECK_DEADLOCK FALSE
INVARIANT TypeOK SerialDataMatches SerialLineMatches
