SPECIFICATION Spec
CONSTANTS
    Conns = {k1, k2}
    Calls = {c1, c2}
    NoCall = NoCall
    NoConn = NoConn
    MaxChunks = 2
    MaxSpeaks = 1
    Meter = FALSE
SYMMETRY Symmetry
INVARIANTS
    TypeOK
    PendingExact
    NoLostWakeup
    FiredMeansDrained
    Answered
    InSpokenOrder
    FinalIsLast
    SentinelLast
    Routed
