SPECIFICATION Spec

CONSTANTS
    Assets <- MCAssets
    Copies <- MCCopies
    Baskets <- MCBaskets
    MayForget = FALSE
    Singles   = {"sell"}
    MaxTasks  = 2
    MaxSaves  = 1

INVARIANTS
    TypeOK
    OneCopyStays
    RowsAreTrue

PROPERTIES
    SoldOnceAsReviewed

