SPECIFICATION Spec
CONSTANTS
    Streams = {s1, s2}
    Conns = {c1, c2}
    Ids = {1}
    NoConn = NoConn
    NoStream = NoStream
    MaxQueue = 0
SYMMETRY StreamSymmetry
INVARIANTS
    AssertionsHold
    ForwardConnIsUp
CHECK_DEADLOCK FALSE
