\* Two installations of three releases; three failures and one death.
CONSTANTS
    LastRelease = 3
    MaxUpdates = 2
    MaxWrites = 2
    MaxFaults = 3
    MaxDeaths = 1
SPECIFICATION Spec
INVARIANTS TypeOK ServicesMatchDatabase JobsTellTheTruth
CHECK_DEADLOCK FALSE
