SPECIFICATION Spec
CONSTANTS
    Ceiling = 3
    Longest = 4
    MaxChunks = 1
INVARIANTS
    ShutdownNotHeld
CHECK_DEADLOCK FALSE
