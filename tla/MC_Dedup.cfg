CONSTANTS
    i1 = i1
    i2 = i2
    Inodes <- MC_Inodes_one
    Digests <- MC_Digests_keys
    EntriesPerBucket = 2
    EntriesPerLeaf = 3
    MaxLookups = 8
    MaxBlock = 24
SPECIFICATION Spec
INVARIANT TypeOK
INVARIANT DedupIndexed
INVARIANT RefcountExact
INVARIANT SeekPastCountMisses
