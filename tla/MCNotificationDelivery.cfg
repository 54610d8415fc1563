SPECIFICATION Spec
CONSTANTS
    w1 = w1  w2 = w2  j1 = j1  j2 = j2  j3 = j3  j4 = j4  a1 = a1  a2 = a2
    Workers <- TwoWorkers
    Jobs <- FourJobs
    Admins <- TwoAdmins
    RetryLimit = 1
    Backoff <- LinearBackoff
    StaleAfter = 2
    ExpireAfter = 3
    RetryDelay = 1
    JobRetries = 2
    Receipts = 1
    MaxCycle = 1
    MaxCrashes = 1
    MaxFailures = 1
SYMMETRY NotificationSymmetry
INVARIANTS TypeOK OneSender AcceptedOnce
PROPERTIES OutboxIsKept
CHECK_DEADLOCK FALSE
