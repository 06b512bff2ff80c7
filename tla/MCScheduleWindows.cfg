SPECIFICATION Spec

CONSTANTS
    Schedules  = {1, 2}
    Plans     <- MCPlans
    DayLength  = 4
    WeekLength = 2
    MaxDelay   = 2
    MinNow     = 2
    MaxNow     = 6
    PauseLengths = {2}
    MaxChanges = 1
    None       = None

INVARIANTS
    TypeOK
    WindowsAgree

PROPERTIES
    TicksRespectUsers
    TimedPauseEnds
