SPECIFICATION Spec
CONSTANTS
    Ceiling = 3
    Longest = 7
    MaxChunks = 4
INVARIANTS
    TypeOK
    LoggedOnce
    LostForCause
CHECK_DEADLOCK FALSE
