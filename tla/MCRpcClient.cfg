SPECIFICATION FairSpec
CONSTANTS
    N = 2
    Weight <- MCWeight
    Callers = {c1, c2}
    AnswerPatterns <- MCPatterns
    maxRetries = 3
    requestTimeout = 1
    baseRetryDelay = 1
    maxRetryDelay = 1
    UNHEALTHY_THRESHOLD = 2
    RECOVERY_COOLDOWN = 1
    HealthTimeout = 0
INVARIANTS
    TypeOK
    HealthFollowsFailures
    
PROPERTIES
    QuarantineHolds
    CallsKeepPromise
