\* All three approve; the first master is killed, loses its memory and restarts.
SPECIFICATION Spec
CONSTANTS
    c1 = c1  c2 = c2  c3 = c3
    a1 = a1  a2 = a2  b1 = b1
    Core = {c1, c2, c3}
    Block = {a1, a2}
    Genesis = Genesis
    Parent <- MCParent
    ConfigList <- MCConfigList
    Generation = {1, 2}
    ListsOf <- MCListsOf
    MinApprove = 3
    Disputed = {}
    MayCrash = {c1}
    Forgetful = {c1}
    LIST_SIZE = 1
INVARIANTS
    Agreement
    OneVotePerParent
PROPERTY SplitIsFinal
\* every node may be stopped, and the blocks are finite
CHECK_DEADLOCK FALSE
