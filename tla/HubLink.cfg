SPECIFICATION FairSpec
CONSTANTS
    Hub = {"a", "b", "c"}
    Pinned = {"a", "b"}
    Delay = 2
    HoldOff = 2
    Zombie = 2
    MaxKey = 4
    Budget = 4
    Loss = FALSE
    Kill = FALSE
INVARIANT AuthenticatedIsVerified
PROPERTY Authenticates
