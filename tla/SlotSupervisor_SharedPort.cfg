CONSTANTS
    s1 = s1
    s2 = s2
    ttyUSB0 = ttyUSB0
    ttyUSB1 = ttyUSB1
    Slots <- MCSlots
    Malformed = Malformed
    NoFile = NoFile
    Devnodes = {ttyUSB0, ttyUSB1}
    TcpPort <- MCTcpPortShared
    MaxPid = 4
    MaxGen = 3
    NoPid = NoPid
    NoDev = NoDev


SPECIFICATION Spec
PROPERTY StartCommitsListeningChild
