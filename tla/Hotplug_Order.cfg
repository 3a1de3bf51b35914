CONSTANTS
    s1 = s1
    s2 = s2
    ttyUSB0 = ttyUSB0
    ttyUSB1 = ttyUSB1
    Slots <- MCHotplugSlots
    Malformed = Malformed
    NoFile = NoFile
    Devnodes = {ttyUSB0, ttyUSB1}
    TcpPort <- MCHotplugPort
    MaxPid = 3
    MaxGen = 3
    MaxEvents = 3
    NoPid = NoPid
    NoDev = NoDev

SPECIFICATION HSpec
CHECK_DEADLOCK FALSE

INVARIANT SlotFollowsDevice
