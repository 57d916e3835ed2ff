CONSTANTS
    MaxShort = 3
    Source <- Texts
    Document <- PlainOrNot
    MaxNesting = 3
    PathCap = 64
    GroupBits = 7
    MaxGroups = 10
    MaxDepth = 256
    WalkDepth = 256
    KeyCap = 64
    CountLimit = 65536
    MayRefuse = TRUE
    WordBits = 12
    NumberText = 64
    Spelled <- MCSpelled
SPECIFICATION JsonSpec
INVARIANTS TypeOK DepthIsNesting AcceptsGrammar FlattensDocument WalkInside RoundTrip PathsLead
           SpellingRead WrittenReads
PROPERTIES Terminates DecodeEnds
