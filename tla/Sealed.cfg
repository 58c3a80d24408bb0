SPECIFICATION Spec
CONSTANTS
    Frame = {"auth", "cmd", "bot"}
    Sender = {"u", "b"}
    From <- MCFrom
    Kind <- MCKind
    Size <- MCSize
    Skew <- MCSkew
    Ahead <- MCAhead
    TTL = 2
    Behind = 1
    MaxTime = 3
    NoFrame = NoFrame
PROPERTY KeepsPromise
