SPECIFICATION FairSpec

CONSTANTS
    Workers = {w1, w2}
    Conns = {c1, c2}
    Handlers = Handlers
    Locks = {l1, l2, l3}
    NoLock = NoLock
    NoConn = NoConn
    NoWorker = NoWorker
    Async = TRUE

INVARIANTS
    RefsCounted
    LockAlive
    ReleasedAtExit

PROPERTIES
    DestroyReturns

\* An owner that has abandoned _glock blocks everybody.
CHECK_DEADLOCK FALSE
