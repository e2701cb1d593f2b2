# TLA+ models of the hammerspace storage engine

This directory holds TLA+ models of the storage engine in `src/user`, and the
TLC configurations that check them. Each module is translated from the C
source. `PROJECT.json` maps every modelled definition to the source lines it
stands for. It also lists the runs, the mutants that show each property can
fail, the findings, and the hazards the code is exposed to.

## The system

The repository is a user-space build of a versioning filesystem core (spec.md):

| Part | Source | Role |
|---|---|---|
| Buffer cache (B) | `buffer.h` (buffer.c absent) | Block buffers with a ring of dirty states `DIRTY + (delta & 3)`. |
| Log (C) | `kernel/log.c`, `replay` in `commit.c` | A write-ahead stream of ALLOC/FREE/UPDATE/IROOT/REDIRECT records in log blocks. `replay` decodes it back. |
| Deferred free | `kernel/log.c` | A page-linked vector of extents freed when a delta retires. |
| dleaf (D) | `kernel/dleaf.c` | The extent-index leaf: groups, entries, extents; `dwalk`, `chop`, `split`, `merge`. |
| ileaf (E) | `ileaf.c` (harness only) | The inode-table leaf; the kernel code is absent. |
| hleaf (F) | `kernel/dedup.c` | Sorted `(key -> bucket, offset)` entries of the dedup B-tree. |
| B-tree driver (G) | absent | `probe`, `tree_expand`, split. |
| Commit engine (H) | `commit.c` | `change_begin`/`change_end`, a reader/writer `delta_lock`, `stage_delta`, `commit_delta`. |
| Dedup engine (I) | `kernel/dedup.c` | Sha-1 -> reference bucket -> hleaf -> leaf or collision bucket. |

How the parts interact:
- A caller brackets each change with `change_begin`/`change_end`, which take the read half of `delta_lock`.
- Inside a change, the caller's mutations dirty buffers in the open delta and emit log records.
- On every tenth `change_end` (the counter of `need_delta`), the thread upgrades to the write half of the lock, re-checks the delta, increments it, and flushes the closed delta's dirty buffers.
- A file's extent tree is made of dleaf leaves, which the B-tree driver (absent) appends to, splits, merges and truncates through `dtree_ops`. A truncation hands every extent it drops to `bfree`.
- The dedup engine sits beside the write path. It turns a content digest either into an existing block, or into -1, which tells the caller to write a fresh block and record it with `make_hash_entry`.

## Modules

**Commit** (`Commit.tla`, `MC_Commit.tla`) models `commit.c` together with the dirty-state ring.
- State: `delta`, the holders of `delta_lock` (`readers`, `writer`), need_delta's static counter `crudehack` and each thread's register copy `tmp`, and each bitmap buffer's state.
  - The code uses `sb->delta` only as `delta & 3` and in change_end's equality test against the value it remembered. The model therefore keeps `delta & 3`, and, per thread, `moved`: whether `sb->delta` has changed since the thread remembered it.
  - Two history flags feed the properties. `fresh` records, per buffer, whether it was last dirtied in the open delta. `changed` records whether any change dirtied a buffer in the open delta.
  - The state space is finite without a bound on the number of changes. Each thread runs the loop body forever, as spec section 5's concurrent callers do, so safety is checked over behaviours of any length.
- Actions follow the loop body of `main`; `Step(t)` is one step of thread `t`:
  - `change_begin` takes the read half of the lock.
  - `Mutate` is the `balloc` that dirties a bitmap buffer.
  - `need_delta_load` and `change_end_up_read` split the unlocked `++crudehack` into its load and its store, so threads can interleave between them.
  - `change_end_down_write` takes the write half of the lock.
  - `change_end_commit` performs the whole locked commit as one step: the double check, `++delta`, `stage_delta` (write_bitmap on the first stageable buffer) and `commit_delta` (flush_state of the closed ring slot).
- With `DiskFaults`, each diskwrite may fail.
- `mark_buffer_dirty` comes from the spec, because buffer.c is absent.
- Which dirty buffer `stage_delta` meets first is nondeterministic, because the list order lives in buffer.c.

**Log** (`Log.tla`, `MC_Log.tla`) models `log.c` and `replay`.
- State:
  - the cursor `sb`: `lognext`, `logbuf`, and `logpos`/`logtop` as a block and offsets;
  - the log blocks in the cache (magic, `bytes`, data bytes);
  - the history of records written, and what replay applied.
- Each emitter (`log_alloc` ... `log_redirect`) is one step, because `loglock` is held from `log_begin` to `log_end`. It writes the real byte encoding, with `encode48` big-endian.
- `Finish` is main's `log_finish`.
- `Replay` decodes every block byte by byte with the same opcode switch as `replay` (`ReplayBlock` is RECURSIVE).
- `MainOrder` restricts the model to main's order (log, finish, replay). Without it, every order is allowed.

**Dedup** (`Dedup.tla`, `MC_Dedup.tla`) models `dedup.c` for several writer inodes.
- A digest is a record: `key` is its 8-byte prefix, the hleaf key, and `id` stands for the rest of its 20 bytes.
- The hash B-tree is a sequence of hleaves `leaves`, with `seps` the least key each leaf is routed for (spec 4.G's `probe`, as `Route`).
  - Each hleaf has `EntriesPerLeaf + 1` fixed slots. The extra slot is the block's slack past `entries_per_leaf`.
  - `hleaf_resize` shifts entries up and `hleaf_split` lowers `count`. Neither clears the slots past `count`, so stale entries stay there, as in the block.
  - `tree_expand` is taken from the spec because the B-tree driver is absent. It resizes the routed leaf; if the leaf is full, it splits it with `hleaf_split`, inserts the separator, and resizes the half that takes the key.
  - `htree_lookup` reads `entries[at]` at `at = hleaf_seek(...)`, including `at = count`.
- A bucket is the sequence of its first `count` entries. Slots past `count` read as zero, as the code memsets new buckets.
- Each branch of `hash_lookup` is its own action:
  - `bucket_lookup` hits the reference bucket. It takes no lock, so its `refcount++` is two steps: `bucket_lookup_load` saves the count in `reg` and sets `pc` to `"bump"`, and `bucket_lookup_store` writes `reg + 1` back. The call counts toward `MaxLookups` at the load, where it starts, so two inodes both inside `bucket_lookup` cannot overrun the bound. Another inode's `htree_lookup_hit` or `handle_collision_hit`, which bump under the B-tree lock, can run in between;
  - `htree_lookup_hit`;
  - `handle_collision_first`;
  - `handle_collision_hit`;
  - `handle_collision_miss`;
  - `htree_lookup_insert`.
- The caller's fresh write and `make_hash_entry` form a second step. Other inodes interleave in the gap between the two.
- `WriteSlot` is the read-count-and-rotate code that appears three times in the source. `init_writebucket` allocates from a counter standing in for `balloc`.

**Defree** (`Defree.tla`, `MC_Defree.tla`) models the deferred-free list of `log.c`.
- A page is an address; alloc_page may return any free address, so pointer comparisons between pages follow address order.
- `defreepos` is slot `idx` of page `cur`; `defreetop` is the end of `cur`.
- A freed page keeps its contents, so a reused page still holds old extents.
- Actions: `defer_free`, `retire_defree` (each linked page walked from its start up to `defreepos`), and `destroy_defree`.
- History variables record what was deferred, what was freed by bfree, and what destroy dropped.

**Dleaf** (`Dleaf.tla`) models `kernel/dleaf.c` for the leaves of one file's extent tree.
- A leaf is a record: `groups` (keyhi and count), `ent` (keylo and limit), `table` (the extents), and the header's `free` and `used` in bytes. The code stores groups and entries in reverse from the end of the block; the model keeps them in index order, so the code's pointer `gdict - 1 - i` is the model's position `i + 1`.
- A key is `hi * LoBase + lo`; `LoBase` stands for the code's 2^24. Counts and limits are 8-bit fields, kept modulo `MaxGroupEntries + 1`.
- The cursor `struct dwalk` is a record of indices (`g`, `gs`, `e`, `es`, `xb`, `x`, `xs` for group, gstop, entry, estop, exbase, extent, exstop). `dwalk_next`, `dwalk_back` and `dwalk_probe` are operators over it; the probe's group loop and entry scan are RECURSIVE (`ProbeGroups`, `ScanEntries`).
- Actions: `Add` (the caller's `dwalk_probe` to the end and `dwalk_add`), `Split` (`dleaf_split` of the last leaf into a fresh leaf) and `Merge` (`dleaf_merge` of the last leaf into the one before, when `dleaf_need` fits `dleaf_free`, the check the code leaves commented out). The B-tree driver that calls them is not in `src/`, so any sequence is explored.
- `dwalk_check` is the code's cursor assertion: on an empty leaf every pointer is at its stop; at the end the cursor is in the last group and entry; otherwise group, entry and extent are within their stops (`group >= gstop` is `g <= gs`).
- `Decode` reads a leaf back as a run of keyed extents the way `dleaf_dump` walks it.

**ExtentMap** (`ExtentMap.tla`) is the abstract specification of the leaves: each leaf is a sequence of keyed extents; append, split at any point, merge the last two, and chop at a key (keep what is below, trim the straddler, hand the rest to bfree in order). `Dleaf` implements it under the refinement mapping `leaves <- Decode` of every leaf, and `freed` maps to itself.

**DleafChop** (`DleafChop.tla`) extends `Dleaf` with `dleaf_chop` on the last leaf: the probe, the partial trim with its tail bfree, the `do/while` of bfrees (`FreeRest`), and `dwalk_chop` at the rewound cursor.

## Runs

| Run | Expect | What it shows |
|---|---|---|
| commit_ring | pass | 3 threads, 2 buffers, period 2, changes without bound. `NoStaleDirty`: after every commit, each dirty buffer was dirtied in the open delta. `NonEmptyCommit` (action property): the double check stops a second thread from committing an empty delta, even though need_delta's counter races. `CommitsRecur` (liveness): lost increments and lost double checks never starve commits; `sb->delta` advances infinitely often. |
| log_replay | pass | Records of ALLOC/FREE and UPDATE across 3 blocks of 20 data bytes, finished and replayed in main's order. `ReplayMatchesLog`: replay applies exactly the logged bitmap updates, in order. |
| log_cursor | pass | All five emitters, finish and replay in any order. `LogCursorInBlock`: `logpos` never passes `logtop`. |
| defree_page | pass | Pages of 2 extents, the list held to one page, 5 defers across retire cycles. `DeferredFreedOnce`: every deferred extent is on the list, bfree'd once, or dropped at destroy. |
| defree_pages | violation | With two pages on the list, retire_defree double-frees the newest page's extents, or skips an older page. |
| log_opcode | violation | An IROOT record's payload is decoded as ALLOC/FREE records by replay. |
| dleaf_map | pass | Up to two leaves of a 68-byte block, keys {0,1,2,4,5,7}, extents of 1 or 2 blocks, so extents at keys 2 and 5 run into the next keyhi group. `LeafChecks`: `dleaf_check` passes on every leaf. `WalkRoundTrip`: `dwalk_back` undoes `dwalk_next` from every probed position. `WalkChecks`: the cursors `dwalk_probe` leaves, and those `dwalk_next` and then `dwalk_back` move them to, pass `dwalk_check`. `ImplementsExtentMap`: every step is an `ExtentMap` step under `Decode`. |
| dleaf_chop | violation | `dleaf_chop(1)` on a leaf with extents at keys 0 and 1 bfrees the block of key 1, but `dwalk_chop` keeps the entry and extent of key 1 in the leaf, so the leaf still maps a freed block. |
| dedup_index | pass | One inode, two digests sharing a prefix plus three more (keys 1-4), hleaves of 3 entries, buckets of 2, 8 lookups. `DedupIndexed`: every recorded digest resolves through the index to its block. `RefcountExact`: the entry's refcount is 1 plus the lookups that returned it. `SeekPastCountMisses`: when `hleaf_seek` returns `count`, the slot `htree_lookup` reads there never holds the key looked up, even when a split or shift has left a stale entry in it. |
| dedup_paths | pass | Two inodes, three digests sharing a prefix, buckets of 1, 6 lookups. Every path, including collision misses and an inode whose write bucket is still 0. `WriteBucketBounded`: `make_hash_entry` appends with no bound check (dedup.c:140); every path that returns -1 has rotated a full write bucket, so while a caller is between its -1 and `make_hash_entry` its bucket has a free slot, whatever the other inode does in between. |
| dedup_refcount | violation | Two inodes, one digest, buckets of 2. Inode 1's unlocked `bucket_lookup` loads refcount 2, inode 2's `htree_lookup` bumps it to 3 under the lock, and inode 1 stores 3: after three hits `RefcountExact` fails. The action constraint `WriteCompletesFirst` makes each write and `make_hash_entry` follow its lookup at once, so the trace is the lost increment and not the dedup.c:348 race. |
| dedup_race | violation | Two inodes writing the same content get two blocks. |

Every property of a passing run has a mutant in `PROJECT.json`: a plausible bug in a mapped definition that TLC catches.

`MC_Dedup_collision.cfg` is kept but is not a run: with three digests of one prefix, `handle_collision_miss` overwrites the last collision entry and a recorded digest drops out of the index (`DedupIndexed` fails; hazard at dedup.c:236). It was replaced by dedup_refcount under the cap of 12 runs.

`MC_Dleaf_straddle.cfg` is kept the same way. `ProbeLocates` states what every caller of `dwalk_probe` assumes: the probe stops on the extent holding the key, or on the next one, and returns 0 exactly at the end of the leaf. It fails. The group loop (dleaf.c:484-500) compares keyhi only, so it passes a group whose keyhi is below the key's, along with its last extent. That extent can run across the keyhi boundary into the key. With one two-block extent at key 2 and `LoBase` 3, `dwalk_probe(3)` takes the "no group after this key" exit and returns 0 although key 3 is mapped. In the code the boundary is every 2^24 blocks, and an extent of up to 63 blocks can cross it. This is a code bug (hazard at dleaf.c:489). It is reproduced here rather than listed as a run because all 12 run slots are taken.


## Bounds

- **Commit.** Three threads are enough for one thread to be inside `need_delta` while another commits and a third dirties a buffer. A period of 2 makes commits frequent. With no bound on changes, `delta & 3` wraps and every ring slot is reused. The model has 20,605 states.
- **Log.** Blocks of 20 data bytes hold two ALLOC records, or one 19-byte record. This forces the `log_begin` boundary (`logpos + bytes > logtop`) with every record size. Three blocks let records span a finished block.
- **Defree.** Pages of 2 slots make `defreepos == defreetop` happen after two defers. Three addresses let a second page lie above or below the first. One page at a time (`MaxLinked = 1`) is the largest list `retire_defree` walks correctly.
- **Dedup.**
  - Buckets of 1 or 2 entries make write-bucket rotation happen in every path.
  - Two digests sharing a prefix reach the first collision; three reach the collision-bucket miss.
  - In dedup_paths, two inodes and 6 lookups let either inode run between the other's -1 and its `make_hash_entry`, and let an inode meet a collision before it has a write bucket.
  - The lookup bound (8) lets a digest be found again via the reference bucket, the tree and the collision bucket.
  - In dedup_index, four distinct keys fill a 3-entry hleaf and split it. An insert above the last key then splits with an empty right leaf. An insert below it leaves a stale entry at `entries[count]`. The other Dedup runs use hleaves of 2.

- **Dleaf.** A 68-byte block holds at most four entries, fewer than a group can count (7), as a 256-byte block holds fewer than 255: the 8-bit wrap is out of reach, as it is in the code's block sizes. Keys {0,1,2,4,5,7} with `LoBase` 3 give three keyhi groups, entries that share a group, and two-block extents at keys 2 and 5 that run into the next group; two leaves let every split point and the merge that folds a group back be reached.
- **DleafChop.** One leaf, one-block extents, chop keys 0..4 and at most two bfree calls are enough for the four-state counterexample.

## Fairness

`Commit.Spec` assumes weak fairness of each caller thread's step (`WF_vars(Step(t))`). The threads are OS threads, so a thread whose next step stays enabled is eventually scheduled. No fairness is assumed for `delta_lock`: its rwsem is not in the source tree. Weak fairness suffices for `CommitsRecur`. A thread waiting in `down_write` may be passed over while other threads hold the read half, but in that case those threads themselves opt in or commit.

The other modules state only safety properties. Their caller loops are bounded by a change or lookup count and end in a stuttering `Finished`/`Exit` step, mirroring `main`'s exit.

## Not modelled, and why

- **Block device and buffer-cache internals** (hash, LRU, free pool): these are I/O and code absent from `src/`.
- **B-tree driver and kernel ileaf**: absent from `src/`. Dedup takes `probe` and `tree_expand` from spec 4.G. The cursor, the index nodes and the B-tree lock are not modelled; each `htree_lookup` holds the tree for one step.
- **dleaf**: `dleaf_sniff`, `dwalk_dump` and `dwalk_mock` change no leaf; `dleaf_free2` is a second computation of free space that `dleaf_check` compares, and is left out. Several extents per entry (versions) are not produced, since every caller path in the code assumes one.
- **Dropped fault runs.** `Commit`'s `DiskFaults` and `Log`'s `MainOrder = FALSE` still model a failing diskwrite and a record logged after `log_finish`; both were violation runs and are now hazards in `PROJECT.json` with how to reproduce them.
- **iattr codec** (`src/user/test/iattr.c`): a pure encoder and decoder with no state across calls. Its own `main` already round-trips `encode_attrs` through `decode_attrs`, so a bounded TLC run would repeat that test; it is left out under the cap of 12 runs.
- **xattr and the ileaf harness**: test harnesses over kernel code that is absent from `src/`, out of the spec's scope.
- **dleaf**: `dwalk_mock` has no caller; `dwalk_update` is a `dleaf_chop` helper that is part of `DleafChop`'s step.

## Plan

The next module is a composition of `Commit` and `Log`, so that a change section's `log_alloc` is inside its delta. It needs a run of its own, and every run slot is in use.
