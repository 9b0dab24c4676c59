SPECIFICATION MCFairSpec
CONSTANTS
    Parts = {"turn", "redis"}
    Callers = {"m", "n"}
    Urls = {"a"}
    Offered = {"verify", "test", "rotate", "enable"}
    KeyVersions = {1, 2}
    MaxSecrets = 2
    Master = "m"
    TurnUrls = {"a", "b"}
    TurnOffered = {"update", "verify", "test", "enable", "disable", "rotate", "delete"}
    TurnVersions = {1, 2, 3}
    TurnSecrets = 2
    RedisCallers = {"chat", "x"}
    RedisChat = "chat"
    Threshold = 3
    SlowStores = {"primary"}
    MaxOutages = 1
    MaxTimeouts = 2
INVARIANTS EarnedInTurn OpenIsTimed
PROPERTIES FailoverShields 
CHECK_DEADLOCK FALSE
