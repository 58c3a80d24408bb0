SPECIFICATION FairSpec
CONSTANTS
    Chans <- MCChans
    Why <- MCWhy
    Mask = {"both", "mine", "strange"}
    Hits <- MCHits
    Keys = {"k1", "k2"}
    Trusted <- MCTrusted
    JoinRetry = 0
    MinInterval = 1
    RetryTime = 2
    MaxRetries = 2
    Cooloff = 3
    AcceptWindow = 1
    JobTTL = 1
    MaxJobs = 1
    MaxRemovals = 1
    MaxEvents = 3
    MaxLost = 1
    NoKey = NoKey
    Idle = Idle
PROPERTIES GetsIn AskedAgain
