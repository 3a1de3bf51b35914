CONSTANTS
    c1 = c1
    c2 = c2
    c3 = c3
    None = None
    Conns = {c1, c2, c3}
    MaxRx = 3
    MaxAcceptFail = 1
SPECIFICATION Spec
CHECK_DEADLOCK FALSE
INVARIANT TypeOK
PROPERTY SessionRefinement EofClosed
