SPECIFICATION FairSpec

CONSTANTS
    MaxLen = 2
    Offsets = {0, 1, 3}
    Chunked = FALSE
    KeepAlive = TRUE

INVARIANTS
    Framed
    FieldsFit
    RefusedFirst

PROPERTIES
    RequestEnds
    ImplementsExchange

\* A connection that is over stays over.
CHECK_DEADLOCK FALSE
