CONSTANTS
    MaxShort = 3
    Source <- NoTexts
    Document <- PrefixKeys
    MaxNesting = 3
    PathCap = 64
    GroupBits = 7
    MaxGroups = 10
    MaxDepth = 256
    WalkDepth = 256
    KeyCap = 64
    CountLimit = 65536
    MayRefuse = FALSE
    WordBits = 12
    NumberText = 64
    Spelled <- NoTexts
SPECIFICATION JsonSpec
INVARIANT RoundTripAll
