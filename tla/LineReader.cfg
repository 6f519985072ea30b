SPECIFICATION Spec

CONSTANTS
    MaxStream = 4
    BufLen = 3
    TimeOut = 2
    MaxParts = 1

INVARIANTS
    LineExact
    FailsForCause
    InTime
