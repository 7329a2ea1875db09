\* All cores online, chains of different heights.
SPECIFICATION FairSpec
CONSTANTS
    c1 = c1  c2 = c2  c3 = c3
    Core = {c1, c2, c3}
    MinApprove = 2
    METAHASH_PRIMARY_CORES_COUNT = 2
    ConfigList <- MCConfigList
    Running = {c1, c2}
    OnlineViews <- MCChangingViews
    Shuffle <- MCShuffle
    MAX_GENERATION = 1
    MAX_HEIGHT = 1
    MayRestart = {}
PROPERTY ListInstalled
\* clocks and chains are bounded
CHECK_DEADLOCK FALSE
