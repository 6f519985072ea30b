SPECIFICATION FairSpec

CONSTANTS
    Tids = {t1, t2, t3}
    NoTid = NoTid
    BadTid = BadTid

INVARIANTS
    NoUseAfterFree
    RunningIsTrue
    JoinsOnce

PROPERTIES
    EndReturns
    ImplementsTaskLife

\* The owner may stop calling, and a freed object does nothing more.
CHECK_DEADLOCK FALSE
