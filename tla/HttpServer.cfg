SPECIFICATION FairSpec

CONSTANTS
    Workers = {w1, w2}
    NoWorker = NoWorker
    ReapThreshold = 1
    Mutexes = {log, cs}
    LogMutex = log
    NoMutex = NoMutex

INVARIANTS
    NoUseAfterFree
    ChangesAlone
    SocketsOwned
    ButtonsTellTheTruth

PROPERTIES
    StopReturns
    FinishedAreReaped
    ImplementsServerSession

\* The process ends.
CHECK_DEADLOCK FALSE
