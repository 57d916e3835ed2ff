CONSTANTS
    ByteA = 1
    ByteB = 2
    ByteC = 3
    GroupBits = 1
    MaxGroups = 10
    MaxDepth = 2
    FixedBits = {0, 4}
    Maps <- DeepMaps
    QueryKeys <- DeepQueries
SPECIFICATION Spec
INVARIANT TypeOK DryRunExact
PROPERTY ImplementsMap
