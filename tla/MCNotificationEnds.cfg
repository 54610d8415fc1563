SPECIFICATION FairSpec
CONSTANTS
    w1 = w1  w2 = w2  j1 = j1  j2 = j2  j3 = j3  j4 = j4  a1 = a1  a2 = a2
    Workers <- TwoWorkers
    Jobs <- FourJobs
    Admins <- OneAdmin
    RetryLimit = 1
    Backoff <- LinearBackoff
    StaleAfter = 2
    ExpireAfter = 3
    RetryDelay = 1
    JobRetries = 2
    Receipts = 0
    MaxCycle = 0
    MaxCrashes = 2
    MaxFailures = 0
INVARIANT NeverStranded
PROPERTIES EventuallyEnds
CHECK_DEADLOCK FALSE
