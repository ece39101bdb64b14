SPECIFICATION FairSpec
CONSTANTS
    Streams = {s1, s2}
    Conns = {c1}
    Ids = {1, 2}
    NoConn = NoConn
    NoStream = NoStream
    MaxQueue = 1
INVARIANTS
    TypeOK
    FlushReadsLiveStream
    FlushHasMessage
    MessagesReachOwner
    OneClientInv
PROPERTY CloseCompletes
CHECK_DEADLOCK FALSE
