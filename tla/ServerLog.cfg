SPECIFICATION Spec
CONSTANTS
    Threads = {srv, app1, app2}
    Server = srv
    MaxLog = 2
    MaxMsgs = 6
INVARIANTS
    CopyFits
    SentInOrder
    NothingVanishes
CHECK_DEADLOCK FALSE
