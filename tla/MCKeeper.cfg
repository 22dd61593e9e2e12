SPECIFICATION FairSpecKeeper
CONSTANTS
    Streams = {s1}
    Terms <- MaturedAtOnce
    MaxClock = 0
    Refreshers = {r1}
    ApiIds = {}
    BATCH = 1
    Faults = {"crash"}
    MaxCrashes = 1
    Ticks = {t1, t2}
INVARIANTS
    TypeOKKeeper
    OneClaimAtATime
PROPERTIES
    TrackedUntilDrained
    MarksAreReleased
    
