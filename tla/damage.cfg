CONSTANTS
    GroupBits = 7
    MaxGroups = 10
    MaxDepth = 256
    DefaultCap = 2
    FileCap = 4
    MaxPadding = 5
    Pieces = {}
    Caps <- MCCaps
    Growths <- MCGrowths
    Programs <- MCPrograms
    Stored <- MCStored
    Bursts <- MCBursts
SPECIFICATION Spec
INVARIANTS WriterExact ReadBack OneSpelling DamageRefused
PROPERTIES GrowthEnds StoredAsBuilt
