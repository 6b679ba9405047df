SPECIFICATION LoopSpec
CONSTANTS
    Conns = {k1}
    Calls = {c1, c2}
    NoCall = NoCall
    NoConn = NoConn
    MaxChunks = 2
    MaxSpeaks = 1
    Meter = FALSE
PROPERTIES
    HangupCloses
    ChunksFinish
    ShutdownCompletes
