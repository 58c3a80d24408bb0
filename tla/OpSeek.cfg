SPECIFICATION FairSpec
CONSTANTS
    Chan = {"c1", "c2"}
    Bitch = {"c1"}
    EmptyWho = 1
    Refresh = 4
    Pending = 2
    Backdate = 1
    Reset = 10
    MaxTries = 5
    MaxEvents = 2
    MaxLost = 1
PROPERTY GetsOps
