SPECIFICATION FairSpecKeeper
CONSTANTS
    Streams = {s1}
    Terms <- ThreeTranches
    MaxClock = 2
    Refreshers = {r1}
    ApiIds = {}
    BATCH = 1
    Faults = {}
    MaxCrashes = 0
    Ticks = {t1}
PROPERTIES
    LiquidationFinishes
