SPECIFICATION LinkSpec
CONSTANTS
    Capacity = 2
    MaxFrames = 4
    Replies = {r1, r2}
INVARIANTS
    TypeOK
    JoinExact
    CallFramed
    NoTruncation
    LossBounded
    WaitsForTheAnswer
PROPERTIES
    Attended
    HangupEnds
