SPECIFICATION Spec
CONSTANTS
    Capacity = 2
    MaxFrames = 2
    Replies = {r1}
    Conn = k1
    CallId = c1
    NoCall = NoCall
    NoConn = NoConn
    MaxChunks = 2
    MaxSpeaks = 1
    Meter = FALSE
    Drain = 1
    Grace = 4
INVARIANTS
    ServerClosesFirst
    LastWordsHeard
PROPERTIES
    ImplementsConversation
