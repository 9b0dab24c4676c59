SPECIFICATION MCFairSpec
CONSTANTS
    N = 2
    PageSize = 2
    Recipients = {"tenant", "client"}
    Runs = {r1, r2}
    MaxAttempts = 3
    Isolated = TRUE
    SubIds = {"s"}
    WorkerIds = {"w"}
    JobIds = {"j", "k"}
    LateJobs = {"k"}
    OverlapTime = 3
    Day = 2
    Period = 1
    Grace = 1
    Keep = 1
    MaxTime = 4
    Horizon = 3
INVARIANTS AtMostOnce
  
CHECK_DEADLOCK FALSE
