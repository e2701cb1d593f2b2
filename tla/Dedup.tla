------------------------------- MODULE Dedup -------------------------------
(***************************************************************************)
(* The deduplication engine of src/user/kernel/dedup.c.                    *)
(*                                                                         *)
(* A digest is its 64-bit prefix 'key' (the first 8 bytes of the Sha-1,    *)
(* the hleaf key) and the identity of the full 20 bytes.  The hash B-tree  *)
(* is its run of hleaves, each a fixed array of EntriesPerLeaf slots of    *)
(* {key, block, offset} of which the first 'count' are live; slots past    *)
(* count keep what hleaf_split left there.  The B-tree driver (probe,      *)
(* tree_expand) is not in the source tree: its index is the sequence of    *)
(* separator keys, one per leaf, as the spec (section 4.G) describes it.   *)
(* A bucket is the sequence of its first 'count' entries                   *)
(* {sha_hash, block, refcount}; slots past count read as zeroes, as        *)
(* init_writebucket and handle_collision memset a new bucket.              *)
(*                                                                         *)
(* A writer inode calls hash_lookup(inode, hash); on -1 it writes the data *)
(* to a fresh block and calls make_hash_entry (the caller is not in the    *)
(* source tree; this is its use in the spec, section 4.I).  htree_lookup  *)
(* runs as one step, under btree->lock; bucket_lookup takes no lock, so    *)
(* the load and the store of its entry->refcount++ are two steps.  Other   *)
(* inodes' calls interleave there and between a -1 and make_hash_entry.    *)
(***************************************************************************)
EXTENDS Integers, Sequences, FiniteSets

CONSTANTS
    Inodes,            \* inodes writing through the dedup engine
    Digests,           \* Sha-1 digests: [key, id]; same key = same 8-byte prefix
    EntriesPerBucket,  \* sb->entries_per_bucket
    EntriesPerLeaf,    \* btree->entries_per_leaf
    MaxBlock,          \* bound: balloc hands out blocks 1 .. MaxBlock
    MaxLookups         \* bound: hash_lookup calls in a behaviour

ASSUME \A h \in Digests : h.key \in Nat \ {0}
ASSUME EntriesPerBucket \in Nat \ {0}
ASSUME EntriesPerLeaf \in Nat \ {0}
(* A lookup and its write allocate at most three blocks. *)
ASSUME MaxBlock >= 3 * MaxLookups

(* A zeroed digest, bucket entry and hleaf entry. *)
ZeroHash == [key |-> 0, id |-> 0]
ZeroEntry == [sha_hash |-> ZeroHash, block |-> 0, refcount |-> 0]
ZeroHleaf == [key |-> 0, block |-> 0, offset |-> 0]

Blocks == 0 .. MaxBlock

VARIABLES
    leaves,       \* leaves[i]: hleaf i, [count, entries]
    seps,         \* seps[i]: the least key the index routes to leaf i
    bucket,       \* bucket[b]: entries of the bucket at block b
    nextalloc,    \* the last block balloc handed out
    refbucket,    \* inode->refbucket (0: none)
    writebucket,  \* inode->writebucket (0: none)
    pc,           \* per inode: "idle", "bump" inside refcount++, "write" before make_hash_entry
    reg,          \* per inode: the refcount bucket_lookup loaded
    pending,      \* per inode: the digest being written
    stored,       \* history: <<digest, block>> pairs given to make_hash_entry
    hits,         \* history: per digest, hash_lookup calls that returned a block
    lookups       \* history: hash_lookup calls (bounded)

vars == <<leaves, seps, bucket, nextalloc, refbucket, writebucket, pc, reg, pending,
          stored, hits, lookups>>

Hash == Digests \cup {ZeroHash}
HleafEntry == [key : Nat, block : Blocks, offset : -1 .. EntriesPerBucket - 1]
(* entries[0 .. entries_per_leaf - 1], and the slot past them: with       *)
(* 24-byte entries after an 8-byte header, entries[entries_per_leaf].key  *)
(* is the block's unused tail, which a zeroed block leaves 0.             *)
Slots == 1 .. EntriesPerLeaf + 1
Entry == [sha_hash : Hash, block : Int, refcount : Int]

TypeOK ==
    /\ leaves \in Seq([count : 0 .. EntriesPerLeaf, entries : [Slots -> HleafEntry]])
    /\ seps \in Seq(Nat) /\ Len(seps) = Len(leaves)
    /\ bucket \in [Blocks -> Seq(Entry)]
    /\ nextalloc \in Blocks
    /\ refbucket \in [Inodes -> Blocks] /\ writebucket \in [Inodes -> Blocks]
    /\ pc \in [Inodes -> {"idle", "bump", "write"}]
    /\ reg \in [Inodes -> Int]
    /\ pending \in [Inodes -> Hash]
    /\ stored \subseteq Digests \X Blocks
    /\ hits \in [Digests -> Nat]
    /\ lookups \in 0 .. MaxLookups

-----------------------------------------------------------------------------
(* Reading the structures. *)

(* bck->entries + i, for a 0-based i. *)
EntryAt(b, i) == IF i \in 0 .. Len(bucket[b]) - 1 THEN bucket[b][i + 1] ELSE ZeroEntry

(* The first entry of bucket b whose 20 bytes equal hash (0-based), or -1. *)
ScanBucket(b, hash) ==
    LET hit == {i \in 1 .. Len(bucket[b]) : bucket[b][i].sha_hash = hash} IN
    IF hit = {} THEN -1 ELSE (CHOOSE i \in hit : \A j \in hit : i <= j) - 1

(* probe: the leaf whose separator is the greatest not above key. *)
Route(key) == CHOOSE i \in DOMAIN seps : seps[i] <= key /\ \A j \in DOMAIN seps : seps[j] <= key => j <= i

(* hleaf_seek: step past entries below key, stopping at count. *)
hleaf_seek(l, key) ==
    CHOOSE at \in 0 .. l.count :
        /\ at = l.count \/ l.entries[at + 1].key >= key
        /\ \A a \in 0 .. at - 1 : l.entries[a + 1].key < key

(* leaf->entries + at; at = count reads the slot past the last entry. *)
HleafAt(l, at) == l.entries[at + 1]

(* sh: the first 8 bytes of the digest. *)
Key(hash) == hash.key

-----------------------------------------------------------------------------
(* Writing the structures. *)

(* A store to bck->entries + i.  Past count the store is not visible: the  *)
(* slot only becomes an entry when make_hash_entry, which writes all of    *)
(* it, bumps count.                                                         *)
SetEntry(bkt, b, i, e) ==
    IF i \in 0 .. Len(bkt[b]) - 1 THEN [bkt EXCEPT ![b][i + 1] = e] ELSE bkt

(* init_writebucket: balloc the block after 'base' and zero it.             *)
init_writebucket(bkt, base) == [bkt EXCEPT ![base + 1] = <<>>]

(* Mutant: rotate only once the count is past entries_per_bucket. *)
WriteSlot_late_rotation(bkt, wb, base) ==
    IF Len(bkt[wb]) > EntriesPerBucket
    THEN [wb |-> base + 1, count |-> 0, oldcount |-> Len(bkt[wb]),
          bucket |-> init_writebucket(bkt, base), next |-> base + 1]
    ELSE [wb |-> wb, count |-> Len(bkt[wb]), oldcount |-> Len(bkt[wb]),
          bucket |-> bkt, next |-> base]

(* Mutant: after rotation, hand out the full bucket's count as the offset. *)
WriteSlot_stale_count(bkt, wb, base) ==
    IF Len(bkt[wb]) >= EntriesPerBucket
    THEN [wb |-> base + 1, count |-> Len(bkt[wb]), oldcount |-> Len(bkt[wb]),
          bucket |-> init_writebucket(bkt, base), next |-> base + 1]
    ELSE [wb |-> wb, count |-> Len(bkt[wb]), oldcount |-> Len(bkt[wb]),
          bucket |-> bkt, next |-> base]

(* The write-bucket slot of steps 4-6: read the write bucket's count; when *)
(* it has reached entries_per_bucket, brelse_dirty it, init_writebucket    *)
(* and use slot 0.  'base' is the last block allocated so far.             *)
WriteSlot(bkt, wb, base) ==
    IF Len(bkt[wb]) >= EntriesPerBucket
    THEN [wb |-> base + 1, count |-> 0, oldcount |-> Len(bkt[wb]),
          bucket |-> init_writebucket(bkt, base), next |-> base + 1]
    ELSE [wb |-> wb, count |-> Len(bkt[wb]), oldcount |-> Len(bkt[wb]),
          bucket |-> bkt, next |-> base]

(* The hleaf operations of the B-tree's leaf vtable. *)

(* hleaf_init on a new leaf block: count 0 over zeroed slots. *)
ZeroLeaf == [count |-> 0, entries |-> [s \in Slots |-> ZeroHleaf]]

hleaf_free(l) == EntriesPerLeaf - l.count

(* Mutant: room is made but leaf->count++ is lost. *)
hleaf_resize_no_count(l, key) ==
    LET at == hleaf_seek(l, key) IN
    CASE at < l.count /\ l.entries[at + 1].key = key -> [ok |-> TRUE, leaf |-> l, at |-> at]
      [] hleaf_free(l) < 1 -> [ok |-> FALSE, leaf |-> l, at |-> at]
      [] OTHER -> [ok |-> TRUE, at |-> at,
                   leaf |-> [count |-> l.count,
                             entries |-> [s \in Slots |->
                                 IF s > at + 1 /\ s <= l.count + 1 THEN l.entries[s - 1]
                                 ELSE l.entries[s]]]]

(* hleaf_resize(key, one = 1): the slot of an existing key, or room made   *)
(* at the seek position by moving the entries from there up one slot.     *)
(* [ok, leaf, at]; ok is FALSE (NULL) when the leaf is full.               *)
hleaf_resize(l, key) ==
    LET at == hleaf_seek(l, key) IN
    CASE at < l.count /\ l.entries[at + 1].key = key -> [ok |-> TRUE, leaf |-> l, at |-> at]
      [] hleaf_free(l) < 1 -> [ok |-> FALSE, leaf |-> l, at |-> at]
      [] OTHER -> [ok |-> TRUE, at |-> at,
                   leaf |-> [count |-> l.count + 1,
                             entries |-> [s \in Slots |->
                                 IF s > at + 1 /\ s <= l.count + 1 THEN l.entries[s - 1]
                                 ELSE l.entries[s]]]]

(* hleaf_split(key, from, into): the upper half (all of it stays when key  *)
(* is past the last entry) is copied to the fresh leaf; from keeps its     *)
(* slots, only its count drops.  The new separator is the first moved key, *)
(* or key when nothing moved.                                              *)
hleaf_split(l, key) ==
    LET at == IF l.count > 0 /\ key > l.entries[l.count].key THEN l.count ELSE l.count \div 2
        tail == l.count - at
        into == [count |-> tail,
                 entries |-> [s \in Slots |-> IF s <= tail THEN l.entries[at + s] ELSE ZeroHleaf]]
    IN [left |-> [l EXCEPT !.count = at], right |-> into,
        sep |-> IF tail > 0 THEN into.entries[1].key ELSE key]

(* tree_expand(key, 1) on the probed leaf (spec section 4.G): resize; when *)
(* the leaf is full, split it into a new leaf inserted after it, index the *)
(* returned key, and resize the half the key belongs to.  Yields the new   *)
(* leaves and separators, the (leaf, slot) to fill, and the blocks the new *)
(* leaf took from balloc.                                                  *)
tree_expand(key) ==
    LET i == Route(key)
        r == hleaf_resize(leaves[i], key)
        sp == hleaf_split(leaves[i], key)
        j == IF key >= sp.sep THEN i + 1 ELSE i
        ls == SubSeq(leaves, 1, i - 1) \o <<sp.left, sp.right>> \o SubSeq(leaves, i + 1, Len(leaves))
        r2 == hleaf_resize(ls[j], key)
    IN IF r.ok
       THEN [leaves |-> [leaves EXCEPT ![i] = r.leaf], seps |-> seps, i |-> i, at |-> r.at,
             alloc |-> 0]
       ELSE [leaves |-> [ls EXCEPT ![j] = r2.leaf],
             seps |-> SubSeq(seps, 1, i) \o <<sp.sep>> \o SubSeq(seps, i + 1, Len(seps)),
             i |-> j, at |-> r2.at, alloc |-> 1]

(* Bookkeeping of a hash_lookup call that returned blk. *)
Returned(i, h, blk) ==
    /\ lookups' = lookups + 1
    /\ IF blk = -1
          THEN /\ pc' = [pc EXCEPT ![i] = "write"]
               /\ pending' = [pending EXCEPT ![i] = h]
               /\ UNCHANGED hits
          ELSE /\ hits' = [hits EXCEPT ![h] = @ + 1]
               /\ UNCHANGED <<pc, pending>>

LookupAllowed(i) == pc[i] = "idle" /\ lookups < MaxLookups

(* bucket_lookup found no digest in the reference bucket (or there is none). *)
RefMiss(i, h) == refbucket[i] = 0 \/ ScanBucket(refbucket[i], h) = -1

(* Step 6 initialises a write bucket only when the inode has none. *)
NeedsWriteBucket(i) == writebucket[i] = 0

(* htree_lookup: the leaf probe lands on and the slot hleaf_seek picks. *)
LeafOf(h) == leaves[Route(Key(h))]
SeekAt(h) == hleaf_seek(LeafOf(h), Key(h))
Seek(h) == HleafAt(LeafOf(h), SeekAt(h))

-----------------------------------------------------------------------------
Init ==
    /\ leaves = <<ZeroLeaf>>
    /\ seps = <<0>>
    /\ bucket = [b \in Blocks |-> <<>>]
    /\ nextalloc = 0
    /\ refbucket = [i \in Inodes |-> 0]
    /\ writebucket = [i \in Inodes |-> 0]
    /\ pc = [i \in Inodes |-> "idle"]
    /\ reg = [i \in Inodes |-> 0]
    /\ pending = [i \in Inodes |-> ZeroHash]
    /\ stored = {}
    /\ hits = [h \in Digests |-> 0]
    /\ lookups = 0

(* Step 1, bucket_lookup: scan the reference bucket for the digest; on a  *)
(* match, load entry->refcount, the first half of the unlocked ++.          *)
bucket_lookup_load(i, h) ==
    /\ LookupAllowed(i)
    /\ refbucket[i] # 0
    /\ ScanBucket(refbucket[i], h) # -1
    /\ pc' = [pc EXCEPT ![i] = "bump"]
    /\ reg' = [reg EXCEPT ![i] = bucket[refbucket[i]][ScanBucket(refbucket[i], h) + 1].refcount]
    /\ pending' = [pending EXCEPT ![i] = h]
    /\ lookups' = lookups + 1
    /\ UNCHANGED <<leaves, seps, bucket, nextalloc, refbucket, writebucket, stored, hits>>

(* Mutant: the loaded refcount is stored back unincremented. *)
bucket_lookup_store_no_bump(i) ==
    /\ pc[i] = "bump"
    /\ LET rb == refbucket[i]
           k == ScanBucket(rb, pending[i])
       IN /\ bucket' = [bucket EXCEPT ![rb][k + 1].refcount = reg[i]]
          /\ hits' = [hits EXCEPT ![pending[i]] = @ + 1]
    /\ pc' = [pc EXCEPT ![i] = "idle"]
    /\ pending' = [pending EXCEPT ![i] = ZeroHash]
    /\ UNCHANGED <<leaves, seps, nextalloc, refbucket, writebucket, reg, stored, lookups>>

(* The store of entry->refcount++ (the loaded value plus one), then return *)
(* entry->block with brelse_dirty.  The entry does not move in between:    *)
(* a leaf bucket only grows at its end.                                    *)
bucket_lookup_store(i) ==
    /\ pc[i] = "bump"
    /\ LET rb == refbucket[i]
           k == ScanBucket(rb, pending[i])
       IN /\ bucket' = [bucket EXCEPT ![rb][k + 1].refcount = reg[i] + 1]
          /\ hits' = [hits EXCEPT ![pending[i]] = @ + 1]
    /\ pc' = [pc EXCEPT ![i] = "idle"]
    /\ pending' = [pending EXCEPT ![i] = ZeroHash]
    /\ UNCHANGED <<leaves, seps, nextalloc, refbucket, writebucket, reg, stored, lookups>>

(* Step 3: key match, offset # -1, full digest match at the offset: bump   *)
(* the refcount, make the bucket the reference bucket, return the block.   *)
htree_lookup_hit(i, h) ==
    /\ LookupAllowed(i)
    /\ RefMiss(i, h)
    /\ LET t == Seek(h)
           e == EntryAt(t.block, t.offset)
       IN /\ t.key = Key(h) /\ t.offset # -1
          /\ e.sha_hash = h
          /\ bucket' = SetEntry(bucket, t.block, t.offset, [e EXCEPT !.refcount = @ + 1])
          /\ refbucket' = [refbucket EXCEPT ![i] = t.block]
          /\ Returned(i, h, e.block)
    /\ UNCHANGED <<leaves, seps, nextalloc, writebucket, reg, stored>>

(* Step 4, handle_collision(first = 1): key match, offset # -1, digest     *)
(* mismatch.  balloc a collision bucket holding the existing entry         *)
(* {digest at the offset, leaf bucket, offset} and the new digest pointing *)
(* at the write-bucket slot (rotating a full write bucket); the hleaf      *)
(* entry becomes {collision bucket, -1}; return -1.                        *)
handle_collision_first(i, h) ==
    /\ LookupAllowed(i)
    /\ RefMiss(i, h)
    /\ LET at == SeekAt(h)
           t == Seek(h)
           e == EntryAt(t.block, t.offset)
           col == nextalloc + 1
           s == WriteSlot(bucket, writebucket[i], col)
       IN /\ t.key = Key(h) /\ t.offset # -1
          /\ e.sha_hash # h
          /\ bucket' = [s.bucket EXCEPT ![col] =
                          << [sha_hash |-> e.sha_hash, block |-> t.block, refcount |-> t.offset],
                             [sha_hash |-> h, block |-> s.wb, refcount |-> s.count] >>]
          /\ leaves' = [leaves EXCEPT ![Route(Key(h))].entries[at + 1] =
                           [key |-> t.key, block |-> col, offset |-> -1]]
          /\ writebucket' = [writebucket EXCEPT ![i] = s.wb]
          /\ nextalloc' = s.next
          /\ Returned(i, h, -1)
    /\ UNCHANGED <<seps, refbucket, reg, stored>>

(* Step 5 hit, handle_collision(first = 0): the collision bucket holds the *)
(* digest; bump the refcount of the leaf-bucket entry it points at (its    *)
(* refcount field is the offset) and return that entry's block.            *)
handle_collision_hit(i, h) ==
    /\ LookupAllowed(i)
    /\ RefMiss(i, h)
    /\ LET t == Seek(h)
           k == ScanBucket(t.block, h)
           ce == bucket[t.block][k + 1]
           org == EntryAt(ce.block, ce.refcount)
       IN /\ t.key = Key(h) /\ t.offset = -1
          /\ k # -1
          /\ bucket' = SetEntry(bucket, ce.block, ce.refcount, [org EXCEPT !.refcount = @ + 1])
          /\ Returned(i, h, org.block)
    /\ UNCHANGED <<leaves, seps, nextalloc, refbucket, writebucket, reg, stored>>

(* Step 5 miss, handle_collision(first = 0): the scan leaves 'entry' at    *)
(* the last entry, which gets the new digest and the write bucket as it    *)
(* was before rotation; count++ exposes a zeroed slot; the offset is the   *)
(* count read from the old write bucket's buffer.  Returns -1.             *)
handle_collision_miss(i, h) ==
    /\ LookupAllowed(i)
    /\ RefMiss(i, h)
    /\ LET t == Seek(h)
           n == Len(bucket[t.block])
           s == WriteSlot(bucket, writebucket[i], nextalloc)
       IN /\ t.key = Key(h) /\ t.offset = -1
          /\ ScanBucket(t.block, h) = -1
          /\ bucket' = [s.bucket EXCEPT ![t.block] =
                          Append([@ EXCEPT ![n] = [sha_hash |-> h, block |-> writebucket[i],
                                                  refcount |-> s.oldcount]],
                                 ZeroEntry)]
          /\ writebucket' = [writebucket EXCEPT ![i] = s.wb]
          /\ nextalloc' = s.next
          /\ Returned(i, h, -1)
    /\ UNCHANGED <<leaves, seps, refbucket, reg, stored>>

(* Step 6: no entry with the key.  tree_expand inserts an hleaf entry at   *)
(* the seek position, splitting a full leaf; a missing write bucket is     *)
(* initialised, a full one rotated; the entry is {key, write bucket, its  *)
(* count}.  Returns -1.                                                     *)
htree_lookup_insert(i, h) ==
    /\ LookupAllowed(i)
    /\ RefMiss(i, h)
    /\ Seek(h).key # Key(h)
    /\ LET x == tree_expand(Key(h))
           base == nextalloc + x.alloc
           init == NeedsWriteBucket(i)
           wb == IF init THEN base + 1 ELSE writebucket[i]
           s == WriteSlot(IF init THEN init_writebucket(bucket, base) ELSE bucket,
                          wb, IF init THEN base + 1 ELSE base)
       IN /\ leaves' = [x.leaves EXCEPT ![x.i].entries[x.at + 1] =
                           [key |-> Key(h), block |-> s.wb, offset |-> s.count]]
          /\ seps' = x.seps
          /\ bucket' = s.bucket
          /\ writebucket' = [writebucket EXCEPT ![i] = s.wb]
          /\ nextalloc' = s.next
          /\ Returned(i, h, -1)
    /\ UNCHANGED <<refbucket, reg, stored>>

(* The caller after -1: write the data to a freshly allocated block and    *)
(* make_hash_entry: append {digest, block, refcount 1} to the write bucket. *)
make_hash_entry(i) ==
    /\ pc[i] = "write"
    /\ LET blk == nextalloc + 1 IN
          /\ bucket' = [bucket EXCEPT ![writebucket[i]] =
                           Append(@, [sha_hash |-> pending[i], block |-> blk, refcount |-> 1])]
          /\ stored' = stored \cup {<<pending[i], blk>>}
          /\ nextalloc' = blk
    /\ pc' = [pc EXCEPT ![i] = "idle"]
    /\ pending' = [pending EXCEPT ![i] = ZeroHash]
    /\ UNCHANGED <<leaves, seps, refbucket, writebucket, reg, hits, lookups>>

(* Every writer has made its lookups. *)
Finished ==
    /\ lookups = MaxLookups
    /\ \A i \in Inodes : pc[i] = "idle"
    /\ UNCHANGED vars

Next ==
    \/ \E i \in Inodes :
          \/ make_hash_entry(i)
          \/ bucket_lookup_store(i)
          \/ \E h \in Digests :
                \/ bucket_lookup_load(i, h)
                \/ htree_lookup_hit(i, h)
                \/ handle_collision_first(i, h)
                \/ handle_collision_hit(i, h)
                \/ handle_collision_miss(i, h)
                \/ htree_lookup_insert(i, h)
    \/ Finished

Spec == Init /\ [][Next]_vars

-----------------------------------------------------------------------------
(* What the index says of a digest: where the hleaf entry, and through a   *)
(* collision bucket the entry it points at, leads; [found, block, offset]   *)
(* of the leaf-bucket entry holding the full digest.                        *)
Located(h) ==
    LET t == Seek(h)
        ce == IF t.offset = -1 /\ ScanBucket(t.block, h) # -1
              THEN bucket[t.block][ScanBucket(t.block, h) + 1]
              ELSE [block |-> t.block, refcount |-> t.offset]
        e == EntryAt(ce.block, ce.refcount)
    IN [found |-> t.key = Key(h) /\ e.sha_hash = h, block |-> ce.block, offset |-> ce.refcount]

(* Spec section 8: hashing a block whose digest was recorded resolves, via *)
(* the hleaf entry and any collision bucket, to the block make_hash_entry  *)
(* recorded for it.                                                          *)
DedupIndexed ==
    \A p \in stored :
        LET l == Located(p[1]) IN l.found /\ EntryAt(l.block, l.offset).block = p[2]

(* Spec section 8: every hash_lookup of a recorded digest increments its   *)
(* refcount by exactly one: the entry the index leads to counts the        *)
(* make_hash_entry plus every lookup that returned a block.                *)
RefcountExact ==
    \A p \in stored :
        LET l == Located(p[1]) IN
        l.found => EntryAt(l.block, l.offset).refcount = 1 + hits[p[1]]

(* Spec section 8: the same content is written once; no digest is given   *)
(* to make_hash_entry twice (a second -1 for it means a duplicate block).  *)
DedupUnique ==
    \A p, q \in stored : p[1] = q[1] => p = q

(* htree_lookup reads leaf->entries[at] even when hleaf_seek returns      *)
(* count (dedup.c:281): there hleaf_split left the entries it moved to the *)
(* new leaf.  The slot past the live entries never carries the probed key, *)
(* so a lookup never takes a moved (and later stale) copy for the entry:   *)
(* the separators the split returns route every moved key to the new leaf. *)
SeekPastCountMisses ==
    \A h \in Digests : SeekAt(h) = LeafOf(h).count => Seek(h).key # Key(h)

(* make_hash_entry (dedup.c:140) appends at entries + count with no check *)
(* against entries_per_bucket: it relies on the lookup step before it,     *)
(* whichever of the three -1 paths that was, to have rotated a full write   *)
(* bucket.  So while a caller is between its -1 and make_hash_entry, its    *)
(* write bucket has a free slot, and no write bucket ever holds more than   *)
(* entries_per_bucket entries.                                              *)
WriteBucketBounded ==
    \A i \in Inodes :
        /\ Len(bucket[writebucket[i]]) <= EntriesPerBucket
        /\ pc[i] = "write" => Len(bucket[writebucket[i]]) < EntriesPerBucket

=============================================================================
