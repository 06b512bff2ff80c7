SPECIFICATION FairSpec

CONSTANTS
    Games   <- MCGames
    Recent  <- MCRecent
    Configs <- MCConfigs
    Limit    = 2
    MaxCalls = 2

INVARIANTS
    TypeOK
    SteamFollowsSession

PROPERTIES
    OneAdvance
    FarmingEnds

CHECK_DEADLOCK FALSE
