SPECIFICATION FairSpec
CONSTANTS
    Line <- MCLines
    MAX_SENDQ = 3
    Limits <- MCLimits
    ModesTokens = {1, 5}
    ModesDefault = 3
    ModesMax = 2
    PackBudget = 3
    MaxHold = 1
    MaxElapsed = 2
    MaxWindow = 2
INVARIANTS TypeOK QueueBounded Paced NothingQueuedOffline
PROPERTIES ProtocolNeverEvicted EventuallyDrained
