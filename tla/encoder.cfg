CONSTANTS
    Key = {1, 2}
    Val = {nil, str}
    Pointing = {str}
    Block = {b1, b2, b3, b4, b5, b6}
    NoBlock = NoBlock
    Foreign = Foreign
    Garbage = Garbage
    InitialCap = 1
    StableSort = TRUE
SPECIFICATION Spec
SYMMETRY Addresses
CONSTRAINT ShortArray
INVARIANTS TypeOK Ownership NoBadFree StrictlySorted LastAddedWins
PROPERTIES ImplementsBuilder
