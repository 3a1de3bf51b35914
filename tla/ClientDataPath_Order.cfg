CONSTANTS
    Frames <- MCResetFrames
    MaxFrames = 3
    Baud = 115200
    Segmented = FALSE
SPECIFICATION Spec
CHECK_DEADLOCK FALSE
INVARIANT SerialEffectOrder
