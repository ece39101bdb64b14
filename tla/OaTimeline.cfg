SPECIFICATION Spec
CONSTANTS
    HwIds = {h1, h2}
    INVALID = INVALID
    None = None
    NChunks = 2
    Period = 2
    Window = 3
    U32 = 4
    U64 = 64
    Steps = {1, 3}
    MaxReports = 5
INVARIANTS CountsAreExact ContextsInStep Attributed
           IntervalsCountedOnce TimeSpentIsShown TimelineInWindow
SYMMETRY HwSymmetry
