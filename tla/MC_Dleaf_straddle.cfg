\* One extent of two blocks at key 2 covers keys 2 and 3; with LoBase 3,
\* key 3 has keyhi 1.  dwalk_probe(3) passes keyhi group 0 whole and
\* reports no extent at or after the key.
CONSTANTS
    LoBase = 3
    MaxGroupEntries = 7
    BlockSize = 68
    Keys = {0, 2, 5}
    Blocks = {10, 20}
    Counts = {2}
    ChopKeys = {}
    MaxLeaves = 2

SPECIFICATION Spec
CHECK_DEADLOCK FALSE
INVARIANT ProbeLocates
