SPECIFICATION Spec
CONSTANTS
    Targets = {"manual", "farming"}
    CapSets <- MCCapSets
    DayLength = 3
    WeekLength = 6
    MaxNow = 4
    MaxQueue = 2
    None = None
INVARIANTS
    TypeOK
    TimeIsCounted
PROPERTY CapsAreEnforced
CHECK_DEADLOCK FALSE
