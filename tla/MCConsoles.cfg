SPECIFICATION MCSpec
CONSTANTS
    MaxId = 3
    Scenarios <- MCScenarios
    Subscriptions = 2
    MaxDialogues = 2
    SubscriptionPage = 1
    SubscriptionScenarios <- MCSubscriptionScenarios
    Tenants = {"a", "b"}
    Resources = {"publicApiKey", "mailbox"}
    Calls = {1, 2}
    NoTenant = "none"
    NoCall = 0
    MaxSessions = 2
    MaxVersion = 1
    MaxFailures = 1
    R = 1
    Length = 3
    Conditional = {1, 3}
    Demo = FALSE
    Upgrades = TRUE
    MaxBeats = 0
 
PROPERTIES ConsolesAct CachesSound TourSound
CHECK_DEADLOCK FALSE
