CONSTANTS
    i1 = i1
    i2 = i2
    Inodes <- MC_Inodes_two
    Digests <- MC_Digests_one
    EntriesPerBucket = 2
    EntriesPerLeaf = 2
    MaxLookups = 4
    MaxBlock = 12
SPECIFICATION Spec
SYMMETRY Symmetry
INVARIANT DedupUnique
