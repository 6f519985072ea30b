SPECIFICATION ArgumentsSpec

CONSTANTS
    Chars = {0, 32, 37, 38, 43, 50}
    Safe = {50}
    MaxArgName = 1
    MaxText = 7
    Bytes = {58, 97, 255}
    MaxBytes = 2

INVARIANTS
    ArgsExact
    CredentialsExact

\* The request has been answered.
CHECK_DEADLOCK FALSE
