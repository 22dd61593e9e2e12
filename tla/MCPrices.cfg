SPECIFICATION FairSpec
CONSTANTS
    MAX_U64 = 2147483647
    ONE_SUI = 1
    PRICE_DECIMALS = 2
    TWAP_PRESETS <- MCPresets
    PythPrices <- BothSides
    Strikes <- OneFloor
    Fetches = {f1, f2}
    MAX_PRICE_AGE_SECS = 2
    PublishPeriod = 1
    ComparedStrikes <- EveryStrike
    ComparedPrices <- PythRange
INVARIANTS
    TypeOK
    VerdictsAgree
PROPERTIES
    
    BreachIsHedged
