SPECIFICATION Spec
CONSTANTS
    Streams = {s1, s2}
    Accounts = {employer}
    Offers <- PayrollOffers
    MAX_U64 = 2147483647
    ONE_SUI = 1
    PRICE_DECIMALS = 8
    TWAP_PRESETS <- MCPresets
    MAX_PRICE_AGE_SECS = 1
    FALLBACK_MAX_PRICE_AGE_SECS = 4
    FALLBACK_DELAY_MS = 2
    DEFAULT_MIN_LOT_SIZE = 150
    MS_PER_SEC = 2
    PythPrices <- BothSides
    PublishSkew = 1
    PoolLot = 1
    PoolDepths = {1000}
    PoolRates = {2}
    PoolRateScale = 3
    MinOutputGuards = {0}
    WithdrawAmounts = {3}
    MaxClock = 3
SYMMETRY StreamSymmetry
INVARIANTS
    StateBookkept
    UnhedgedIsFullyBacked
    RegistryTotals
