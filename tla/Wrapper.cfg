SPECIFICATION Spec
CONSTANTS
    MaxDown = 5
INVARIANTS
    StreamsClosedFirst
    ProgramObserved
PROPERTIES
    QuitEnds
    ChildExitQuits
    ProgramStarts
CHECK_DEADLOCK FALSE
