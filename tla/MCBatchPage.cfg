SPECIFICATION Spec
CONSTANTS
    Sizes <- MCSizes
    Times <- MCTimes
    None    = None
INVARIANTS
    TypeOK
PROPERTIES
    PageIsTrue
    ShownEnds
CHECK_DEADLOCK FALSE
