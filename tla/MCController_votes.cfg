\* Two of three approve; the master moves while blocks are pending,
\* and the ledgers dispute a2, which they may refuse after others approved it.
SPECIFICATION Spec
CONSTANTS
    c1 = c1  c2 = c2  c3 = c3
    a1 = a1  a2 = a2  b1 = b1
    Core = {c1, c2, c3}
    Block = {a1, a2, b1}
    Genesis = Genesis
    Parent <- MCParent
    ConfigList <- MCConfigList
    Generation = {1, 2}
    ListsOf <- MCListsOf
    MinApprove = 2
    Disputed = {a2}
    MayCrash = {c1}
    Forgetful = {}
    LIST_SIZE = 1
INVARIANTS
    NoVoteAhead
    CreatedIsAwaited
    AppliedBySigners
    OneChain
PROPERTIES
    LeftBehindIsFinal
    ImplementsAgreedChain
\* every node may be stopped, and the blocks are finite
CHECK_DEADLOCK FALSE
