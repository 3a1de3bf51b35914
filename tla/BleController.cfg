CONSTANTS
    t1 = t1
    t2 = t2
    a1 = a1
    a2 = a2
    NoAddr = NoAddr
    Callers = {t1, t2}
    Addrs = {a1, a2}
    MaxClients = 2
    MaxStray = 1
    MaxLoops = 2
SPECIFICATION Spec
INVARIANT TypeOK
PROPERTY ScanStateReleased CallsReturn
