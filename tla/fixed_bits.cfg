CONSTANTS
    ByteA = 97
    ByteB = 98
    ByteC = 99
    GroupBits = 7
    MaxGroups = 10
    MaxDepth = 256
    FixedBits = {0, 2, 3, 4, 8, 9, 15}
    Maps <- FewMaps
    QueryKeys <- MCQueries
SPECIFICATION Spec
INVARIANT BuiltIsReadable
