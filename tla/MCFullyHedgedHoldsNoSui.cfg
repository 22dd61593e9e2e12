SPECIFICATION Spec
CONSTANTS
    Streams = {s1}
    Accounts = {employer}
    Offers <- FloorOffers
    MAX_U64 = 2147483647
    ONE_SUI = 1
    PRICE_DECIMALS = 8
    TWAP_PRESETS <- MCPresets
    MAX_PRICE_AGE_SECS = 1
    FALLBACK_MAX_PRICE_AGE_SECS = 4
    FALLBACK_DELAY_MS = 2
    DEFAULT_MIN_LOT_SIZE = 150
    MS_PER_SEC = 1
    PythPrices <- BothSides
    PublishSkew = 0
    PoolLot = 20
    PoolDepths = {1000}
    PoolRates = {20}
    PoolRateScale = 1
    MinOutputGuards = {0}
    WithdrawAmounts = {0}
    MaxClock = 5
INVARIANTS
    FullyHedgedHoldsNoSui
