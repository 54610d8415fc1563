SPECIFICATION Spec
CONSTANTS
    Uploads = {u1, u2, u3, u4}
    Concurrent = 2
    WindowCount = 3
    DailyCount = 3
    DailyBytes = 5
    TotalBytes = 6
    MaxOrphans = 2
    LeaseTicks = 2
    WindowTicks = 2
    DayTicks = 3
    MaxBytes = 2
    Sizes = {1, 2}
    TimelyUploads = TRUE
    MaxTime = 5
SYMMETRY UploadSymmetry
INVARIANTS
    TypeOK
    LimitsHold
CHECK_DEADLOCK FALSE
