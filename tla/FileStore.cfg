SPECIFICATION Spec

CONSTANTS
    Uploads = {u1, u2}
    NoUpload = NoUpload
    Gets = {g1, g2}
    Dirs = {d1, d2}
    Near = {d1}
    Pieces = 1
    MaxTime = 1

INVARIANTS
    AcceptedIsKept
    TempsAccounted
    FreshAnswer

\* Every request has been answered.
CHECK_DEADLOCK FALSE
