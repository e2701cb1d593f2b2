\* Two writers, three digests of one prefix, buckets of one entry: every
\* -1 path (insert, first collision, collision miss) rotates the write
\* bucket, and either inode may run between the other's -1 and its
\* make_hash_entry, including an inode whose write bucket is still 0.
CONSTANTS
    i1 = i1
    i2 = i2
    Inodes <- MC_Inodes_two
    Digests <- MC_Digests_triple
    EntriesPerBucket = 1
    EntriesPerLeaf = 2
    MaxLookups = 6
    MaxBlock = 24
SPECIFICATION Spec
SYMMETRY Symmetry
INVARIANT WriteBucketBounded
