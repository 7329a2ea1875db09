\* Two connections and four requests; the last ones may meet what the first left.
SPECIFICATION FairSpec
CONSTANTS
    s1 = s1  s2 = s2
    Conn = {s1, s2}
    MAX_TASKS = 4
INVARIANTS
    AnsweredOnce
    NoForeignAnswer
    ThreadKept
PROPERTIES
    AllAnswered
    ImplementsRequests
\* requests are bounded, and connections may wait for ever
CHECK_DEADLOCK FALSE
