SPECIFICATION FairSpec
CONSTANTS
    MaxQueue = 2
    Requests = {"start", "stop", "pause", "resume", "update", "auto_start", "auto_resume", "safety_pause", "import", "farm_resume", "farm_empty", "farm_games", "farm_end"}
INVARIANTS
    TypeOK
    OneRetryTimer
    RecoveryArmed
    PausedIsQuiet
    GamesAreShown
PROPERTIES
    LateEventsAreHarmless
    RecoversWhenSteamAccepts
CHECK_DEADLOCK FALSE
