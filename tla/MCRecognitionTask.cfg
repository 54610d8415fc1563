\* Two handlers, one retry, a crash; a claim is stale before its job expires.
CONSTANTS
    Handlers = {h1, h2}
    RetryLimit = 1
    StaleAfter = 1
    ExpireAfter = 2
    RetryDelay = 1
    JobRetries = 2
    MaxCrashes = 1
SPECIFICATION FairSpec
INVARIANTS TypeOK AttemptsBounded VerificationOfResult
PROPERTIES ResultIsFinal NeverDropped EventuallySettles
CHECK_DEADLOCK FALSE
