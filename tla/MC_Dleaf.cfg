\* Leaves of 68 bytes hold at most four one-extent entries, fewer than a
\* group can count (as a 256-byte block holds fewer than 255); keys per
\* keyhi are 3, and extents at keys 2 and 5 of two blocks run across a
\* keyhi boundary into the next group.
CONSTANTS
    LoBase = 3
    MaxGroupEntries = 7
    BlockSize = 68
    Keys = {0, 1, 2, 4, 5, 7}
    Blocks = {10, 20}
    Counts = {1, 2}
    ChopKeys = {}
    MaxLeaves = 2

SPECIFICATION Spec
CHECK_DEADLOCK FALSE
INVARIANT TypeOK
INVARIANT LeafChecks
INVARIANT WalkRoundTrip
INVARIANT WalkChecks
PROPERTY ImplementsExtentMap
