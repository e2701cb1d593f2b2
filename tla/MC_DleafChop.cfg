\* One leaf, extents of one block (so none straddles a keyhi boundary),
\* chops at every key an extent may start or end at.
CONSTANTS
    LoBase = 3
    MaxGroupEntries = 7
    BlockSize = 68
    Keys = {0, 1, 3, 4}
    Blocks = {10, 20}
    Counts = {1}
    ChopKeys = {0, 1, 2, 3, 4}
    MaxLeaves = 1
    MaxFreed = 2

SPECIFICATION SpecChop
CHECK_DEADLOCK FALSE
PROPERTY ImplementsExtentMap
