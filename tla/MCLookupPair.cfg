SPECIFICATION MCSpec
CONSTANTS
    Jobs = {j1, j2}
    Executors = {e1}
    Procs = {p1}
    Codes = {c1, c2}
    Slots = 1
    Budget = 2
    LeaseTtl = 3
    LockTtl = 1
    JobTtl = 4
    CooldownTtl = 4
    FailureThreshold = 2
    NoJob = NoJob
    NoExec = NoExec
    NoCode = NoCode
    MaxTime = 2
    LastCreate = 0
    MaxLease = 2
    MaxFaults = 2
    PairTime = 1
INVARIANTS OneDelivery ResultMatchesDelivery 
PROPERTIES NeverReopened
SYMMETRY Symmetry
CHECK_DEADLOCK FALSE
