SPECIFICATION Spec
CONSTANTS
    Cpus = {c1, c2}
    Tracepoints = {add, create, flip}
    Correlating = {add, create}
    Identifying = {add}
    Pids = {1, 2}
    HwIds = {h1}
    Windows = {1, 3}
    Steps = {0, 2}
    None = None
    MaxSamples = 3
    MaxStarts = 2
INVARIANTS
    TypeOK
    Reunified
    ProcessesLive
    NamesFollow
    OwnerIsNewest
    ProcessesAsked
SYMMETRY CpuSymmetry
CHECK_DEADLOCK FALSE
