CONSTANTS
    TextLength = 2
    BehindOpening = 3
    LebBits = 1
    MaxGroups = 4
    ClaimLimit = 8
    MaxDepth = 2
    Forests <- Trees
    Inputs <- AnyBytes
SPECIFICATION TsmlSpec
INVARIANTS RoundTrip TruncationRefused ShortestForm ReaderInside
PROPERTY Returns
CHECK_DEADLOCK FALSE
