CONSTANTS
    ByteA = 97
    ByteB = 98
    ByteC = 99
    GroupBits = 7
    MaxGroups = 10
    MaxDepth = 256
    FixedBits = {0}
    Maps <- MCMaps
    QueryKeys <- MCQueries
SPECIFICATION Spec
INVARIANT AbsentIsNotFound
