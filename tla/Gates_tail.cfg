SPECIFICATION Spec
CONSTANTS
    Hop = 2
    Keep = 3
    Floor = 1
    ClickMax = 3
    RunFloor = 2
    MinSpeech = 3
    MinLevel = 3
    MaxFrames = 5
    MaxLevel = 3
INVARIANTS
    SpeechNeverTruncated
CHECK_DEADLOCK FALSE
