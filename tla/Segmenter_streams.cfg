SPECIFICATION Spec
CONSTANTS
    Blocks = {2, 3, 4}
    Prerolls = {3, 4}
    Limits = {7, 8}
    Hangovers = {1, 2}
    MaxHeard = 24
INVARIANTS
    TypeOK
    PrerollFresh
    ChunkUnbroken
PROPERTIES
    NoStaleAudio
    ImplementsUtterances
