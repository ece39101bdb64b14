SPECIFICATION Spec
CONSTANTS
    Names = {t1, t2}
    Addrs = {a1}
    NCpus = 1
    None = None
    NConns = 3
    MaxId = 4
    MaxClicks = 3
    MaxDown = 1
INVARIANTS
    NoOrphans
    ListedStreamsOpen
    FindStreamEnds
    TableInStep
    EndsOnlyAfter
SYMMETRY NameSymmetry
CHECK_DEADLOCK FALSE
