SPECIFICATION Spec
CONSTANTS
    Variants   = {"v1", "v2"}
    Flights    = {"f1", "f2"}
    MaxChanges = 2
    None       = None
    Wallets   <- MCWallets
    Rates     <- MCRates
    References <- MCReferences
    RuleSets  <- MCRuleSets
    Limit      = 2900
    Unset      = None
INVARIANTS
    TypeOK
    QuotesAreBest
PROPERTIES
    OneBasis
    PricesSettle
CHECK_DEADLOCK FALSE
