SPECIFICATION Spec
CONSTANTS
    Streams = {s1, s2}
    Conns = {c1}
    Ids = {1, 2}
    NoConn = NoConn
    NoStream = NoStream
    MaxQueue = 1
INVARIANT UpdateSkipsClosing
CHECK_DEADLOCK FALSE
