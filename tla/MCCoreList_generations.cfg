\* Two generations, whose messages mix, on clocks that are not in step.
SPECIFICATION Spec
CONSTANTS
    c1 = c1  c2 = c2  c3 = c3
    Core = {c1, c2, c3}
    MinApprove = 2
    METAHASH_PRIMARY_CORES_COUNT = 2
    ConfigList <- MCConfigList
    Running = {c1, c2}
    OnlineViews <- MCChangingViews
    Shuffle <- MCShuffle
    MAX_GENERATION = 2
    MAX_HEIGHT = 0
    MayRestart = {c1}
INVARIANTS
    IInv
    QuorumsMeet
    MembersWereOnline
    TwoListsTwoProposals
\* clocks and chains are bounded
CHECK_DEADLOCK FALSE
