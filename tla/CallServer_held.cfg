SPECIFICATION Spec
CONSTANTS
    Conns = {k1}
    Calls = {c1}
    NoCall = NoCall
    NoConn = NoConn
    MaxChunks = 1
    MaxSpeaks = 1
    Meter = FALSE
INVARIANTS
    HeldUntilReturned
