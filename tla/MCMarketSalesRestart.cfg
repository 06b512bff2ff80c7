SPECIFICATION Spec

CONSTANTS
    Assets <- MCAssets
    Copies <- MCCopies
    Baskets <- MCBaskets
    MayForget = TRUE
    Singles   = {"sell"}
    MaxTasks  = 2
    MaxSaves  = 1

INVARIANT OneCopyStays
