SPECIFICATION Spec
CONSTANTS
    Servers    = {"s1", "s2"}
    Restores   = {"t1", "t2"}
    MaxVersion = 5
    None       = None
    Torn       = Torn
INVARIANTS
    TypeOK
    PreviousIsKept
PROPERTY DirectoryIsGuarded
CHECK_DEADLOCK FALSE
