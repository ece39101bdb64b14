SPECIFICATION Spec
CONSTANTS
    Names = {t1, t2}
    Addrs = {a1}
    NCpus = 1
    None = None
    NConns = 3
    MaxId = 4
    MaxClicks = 4
    MaxDown = 1
INVARIANT ResetFindsNoStream
CHECK_DEADLOCK FALSE
