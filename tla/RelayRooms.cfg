SPECIFICATION RelaySpec
CONSTANTS
    Conn = {c1, c2, c3}
    NoConn = NoConn
    Code = {k1}
    NoCode = NoCode
    Frames <- MCFrames
    Outs <- MCOuts
    MaxIn = 1
    MaxOut = 1
INVARIANTS
    SeatsAgree
    HostToldInOrder
CONSTRAINT
    InBounds
SYMMETRY
    AnyNames
CHECK_DEADLOCK FALSE
