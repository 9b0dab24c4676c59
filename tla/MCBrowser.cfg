SPECIFICATION MCFairSpec
CONSTANTS
    Polls = {p1}
    Timeout = 3
    Refresh = 2
    MaxAsks = 3
    Prompt = TRUE
    TabIds = {"t"}
    Demos = {"A"}
    Tenants = {"P", "Q"}
    MaxRequests = 3
    MaxFailures = 1
    MaxRotations = 1
    PromptTabs = TRUE
INVARIANTS CodeIsWatched ConnectingIsPolled 
PROPERTIES   EndedDemoLeaves PagesSettle
CHECK_DEADLOCK FALSE
