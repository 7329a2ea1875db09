SPECIFICATION FairSpec
CONSTANTS
    m = m  q = q
    Peer = {m, q}
    Primary = m
    NoPeer = NoPeer
    MAX_HEIGHT = 3
    States = {1}
    Made = 2
    Oldest <- MCOldest
    Starts <- MCStarts
    Connections = {{m}, {q}}
    MinApprove = 2
    MAX_LOST = 1
INVARIANTS
    GapNeedsPush
    
PROPERTIES
    GapStays
    CatchesUp
