SPECIFICATION FairSpec
CONSTANTS
    Id = {u1}
    Val = {"x", "y"}
    HubVal = {"h"}
    MaxTs = 3
    MaxFrames = 1
INVARIANTS OfflineChangeRemembered ConfirmedChangeKept
PROPERTY Converges
