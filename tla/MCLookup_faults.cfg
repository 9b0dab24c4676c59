SPECIFICATION FairSpec
CONSTANTS
    Jobs = {j1}
    Executors = {e1}
    Procs = {p1}
    Codes = {c1}
    Slots = 1
    Budget = 2
    LeaseTtl = 3
    LockTtl = 1
    JobTtl = 4
    CooldownTtl = 4
    FailureThreshold = 1
    NoJob = NoJob
    NoExec = NoExec
    NoCode = NoCode
    MaxTime = 8
    LastCreate = 0
    MaxLease = 2
    MaxFaults = 1
PROPERTIES  EventuallySettled
CHECK_DEADLOCK FALSE
