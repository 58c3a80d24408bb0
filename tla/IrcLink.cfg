SPECIFICATION FairSpec
CONSTANTS
    Server = {"a", "b"}
    InitList <- MCList
    Texts <- MCTexts
    Good = {"a"}
    MaxCommands = 3
    MAX_SERVERS = 2
    MinInterval = 1
    RegisterTimeout = 1
    DeadTimeout = 2
    LagTimeout = 1
    ThrottleBackoff = 1
    ThrottleMax = 1
    BanBackoff = 1
    BanMax = 2
    Stated = 1
    MaxStrikes = 2
INVARIANT HoldsFollowServers
PROPERTIES HeldNotDialled GoodServerReached
CHECK_DEADLOCK FALSE
