SPECIFICATION FairSpec

CONSTANTS
    MaxLines = 2
    MaxBody = 7
    ChunkLen = 3
    MaxBytes = 2
    Buffer = 3
    TimeOut = 2

INVARIANTS
    InTime

PROPERTIES
    ImplementsByteStream
    ResponseEnds

\* The response is written.
CHECK_DEADLOCK FALSE
