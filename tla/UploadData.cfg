SPECIFICATION Spec

CONSTANTS
    MaxPayload = 2
    Delim = 2
    Gap = 1
    Trailer = 1
    MaxExtra = 1
    BufLen = 3

INVARIANTS
    SavedIsPayload
    RefusedForCause
    BodyTaken

\* SaveUpload returns.
CHECK_DEADLOCK FALSE
