CONSTANTS
    MaxLines = 3
    Vectors = {}
    TailLists = {}
    SuperBits = 4
    BlockBits = 2
    LebBits = 1
    Sample = 2
    WordLists <- Files
    QueryWords <- Queries
SPECIFICATION V2Spec
INVARIANTS RankExact SelectExact RefsLead PoolMinimal LookupExact TreeInBits RadixForm
PROPERTY Builds
