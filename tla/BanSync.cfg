SPECIFICATION Spec
CONSTANTS
    Mask = {m1, m2, m3}
    CFG_MAX_BANS = 2
    MAX_BANS_PER_CHAN = 1
    PushCap = 1
    AdminMask = {m1}
    HubMask = {m1}
    MaxTs = 2
    MaxFrames = 1
INVARIANTS WithinLimits OwnBansReachHub
PROPERTY NeverOlder
SYMMETRY OwnSymmetry
VIEW BotView
