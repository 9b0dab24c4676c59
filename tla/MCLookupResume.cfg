SPECIFICATION MCFairSpec
CONSTANTS
    Tasks = {t1, t2, t3}
    MaxTries = 2
    Jobs = {j1, j2, j3}
    Procs = {p1}
    PumpTasks = {t1, t2}
    NoTask = NoTask
    NoJob = NoJob
    BatchSize = 2
    MaxCalls = 1
    MaxRefusals = 2
    MaxRetries = 1
    MaxFaults = 1
INVARIANTS NotStranded CancelledInTime OnePump
PROPERTIES AnswerReaches QueueFlows
CHECK_DEADLOCK FALSE
