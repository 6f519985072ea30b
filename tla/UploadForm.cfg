SPECIFICATION FormSpec

CONSTANTS
    FieldNames = {"a", "b", "none"}
    NoName = "none"
    Words = {}
    MaxFields = 2
    MaxLines = 2
    MaxFile = 3
    MaxOdd = 1

INVARIANTS
    FormExact

\* The lines are read.
CHECK_DEADLOCK FALSE
