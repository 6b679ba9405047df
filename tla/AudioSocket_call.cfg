SPECIFICATION CallSpec
CONSTANTS
    Frame = 2
    MaxFrames = 3
    MaxReply = 2
    MaxLate = 2
INVARIANTS
    TypeOK
    EachOnce
    BufferBounded
PROPERTIES
    SilentAfterEnd
    CallEnds
