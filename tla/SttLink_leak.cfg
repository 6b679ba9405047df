SPECIFICATION Spec
CONSTANTS
    Capacity = 2
    MaxFrames = 4
    Replies = {r1, r2}
INVARIANTS
    DoneMeansClosed
