SPECIFICATION Spec
CONSTANTS
    Size = 16
    Sizes = {3, 5}
    HdrLen = 4
    MaxHead = 48
INVARIANTS
    TrackedIntact
    DropsOverwritten
    SearchStopsAtKept
CHECK_DEADLOCK FALSE
