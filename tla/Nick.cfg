SPECIFICATION FairSpec
CONSTANTS
    Target = {"n", "m"}
    NAlt = 2
    Takeable <- MCTargetsTaken
    Invalid = {"m"}
    Renames <- MCRenames
    Givenick = TRUE
    Budget = 3
    MaxMsgs = 3
INVARIANT NickKnown
PROPERTY RegainsNick
