SPECIFICATION Spec
CONSTANTS
    MaxSetups   = 2
    QrLogins    = {"q1"}
    Credentials = {"c1"}
    MaxRenewals = 1
    MaxFaults   = 1
    None        = None
PROPERTY
    LoginsEnd
INVARIANTS
    TypeOK
    OneAdministrator
    LoginsAreTrue
CHECK_DEADLOCK FALSE
