CONSTANTS
    i1 = i1
    i2 = i2
    Inodes <- MC_Inodes_one
    Digests <- MC_Digests_triple
    EntriesPerBucket = 2
    EntriesPerLeaf = 2
    MaxLookups = 6
    MaxBlock = 18
SPECIFICATION Spec
INVARIANT DedupIndexed
