SPECIFICATION FairSpec
CONSTANTS
    Size = 8
    Word = 16
    MaxRecord = 5
    MaxLen = 5
    MaxHead = 36
INVARIANTS
    UnreadIntact
PROPERTIES
    Implements
    EverythingForwarded
CHECK_DEADLOCK FALSE
