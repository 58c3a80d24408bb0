SPECIFICATION FairSpec
CONSTANTS
    b1 = b1
    b2 = b2
    Bot = {b1, b2}
    User = {"r", "r2", "f"}
    Mask = {"all", "rogue"}
    Deal <- MCDeal
    Host <- MCHost
    Cost <- MCCost
    Hits <- MCHits
    BanTypes <- MCBanTypes
    Rogue = {"r", "r2"}
    Active = {"r", "r2"}
    Present = {"r", "f"}
    Written = {"on"}
    Lifted = {"rogue"}
    Extra = {"protectops", "revenge", "enforcemodes", "enforcebans", "dynamicbans", "stopnethack"}
    MaxJobs = 3
    MaxAge = 2
    MaxActs = 4
INVARIANTS OneHolder BackupsQuiet
PROPERTIES AuthorisedSpared RogueOpsGo ModesRestored FriendsUnbanned
CHECK_DEADLOCK FALSE
