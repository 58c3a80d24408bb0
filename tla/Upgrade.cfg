SPECIFICATION FairSpec
CONSTANTS
    Ver = {1, 2}
    Variant = {"rust"}
    Run = {r1, r2}
    MaxWatch = 1
    None = None
INVARIANTS NeverStranded ConfigFits OkIsTarget AbortTakesBackOwnRun
PROPERTY EveryRunAnswered
