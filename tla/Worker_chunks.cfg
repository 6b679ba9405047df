SPECIFICATION WorkerSpec
CONSTANTS
    Hop = 2
    Keep = 3
    Floor = 1
    ClickMax = 3
    RunFloor = 2
    MinSpeech = 3
    MinLevel = 3
    MaxFrames = 6
    MaxLevel = 3
    Units = {0, 4, 15}
    Tens = {20}
    MaxWords = 3
INVARIANTS
    RunIsLongest
    TrimKeepsProfile
    NumbersReadOnce
    HintKept
CHECK_DEADLOCK FALSE
