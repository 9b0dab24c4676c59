SPECIFICATION MCFairSpec
CONSTANTS
    MaxJobs = 2
    MaxKeys = 4
    Workers = {w1}
    Callers = {c1}
    MaxAttempts = 2
    Prompt = TRUE
    Scenarios <- MCScenarios
    StoreTenants = {"a", "b"}
    StoreRequests = 3
    StoreJobs = 2
    StoreFailures = 1
    OrderedTenant = "a"
    FreeRequests = 2
    FreeJobs = 1
INVARIANTS  PollingSound
PROPERTIES  FailingRequestsDecided Follows
CHECK_DEADLOCK FALSE
