SPECIFICATION Spec
CONSTANTS
    CpuCounts = {1, 4, 12}
    Periods = {100, 80}
    Overwrites = {TRUE, FALSE}
    Absent = {{}, {0}}
    MaxSamples = 11
INVARIANTS
    FlushSendsNewest
CHECK_DEADLOCK FALSE
