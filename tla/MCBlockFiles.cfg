\* The rival r2 is made on the same parent as b2 and loses.
SPECIFICATION Spec
CONSTANTS
    s1 = s1  b1 = b1  s2 = s2  b2 = b2  r2 = r2
    Block = {s1, b1, s2, b2, r2}
    Zero = Zero
    Parent <- MCParent
    State = {s1, s2}
    File <- MCFile
    Decided = {s1, b1, s2, b2}
    ConfigProved = b1
    MAX_CRASHES = 3
INVARIANTS
    OnlyDecided
    StateOnDisk
    Recoverable
    IInv
PROPERTY NothingLost
\* the process is killed a bounded number of times, and may then have read all
CHECK_DEADLOCK FALSE
