SPECIFICATION MCFairSpec
CONSTANTS
    Clients = {c1, c2}
    Masters = {m1}
    Tokens = {t1, t2}
    NoToken = NoToken
    MaxTime = 3
    Duration = 2
    MaxPw = 2
    Overlap = FALSE
    ClientIds = {"c1", "c2"}
    ServiceIds = {"v1", "v2"}
    PlanIds = {"p1", "p2"}
    SubIds = {"u1", "u2"}
    Names = {"n1", "n2"}
    Emails = {"e1"}
    Releases = {"r1"}
    Base <- MCBaseline
INVARIANTS OneWindow 
PROPERTIES EndedIsDeleted WorkspaceSound
CHECK_DEADLOCK FALSE
