SPECIFICATION FairSpec
CONSTANTS
    Streams = {s1}
    Terms <- OneTranche
    MaxClock = 0
    Refreshers = {r1, r2}
    ApiIds = {s1}
    BATCH = 1
    Faults = {"crash", "torn", "disk"}
    MaxCrashes = 1
INVARIANTS
    TypeOK
PROPERTIES
    TrackedUntilDrained
    FileKeepsFunded
    CacheConverges
