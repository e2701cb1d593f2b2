-------------------------------- MODULE Dleaf --------------------------------
(***************************************************************************)
(* The extent-index leaf of src/user/kernel/dleaf.c and its cursor.        *)
(*                                                                         *)
(* A leaf is a header, a table of extents growing up from the header, and *)
(* a two-level index growing down from the end of the block: groups       *)
(* (keyhi, 8-bit count) and, below them, entries (keylo, 8-bit limit).    *)
(* The model keeps the three tables as sequences in logical order: group  *)
(* g is the g-th group below gdict, entry e the e-th entry below edict,   *)
(* extent x the x-th extent above leaf->table.  The vecmove/memmove that  *)
(* slide the entry table when the group table grows or shrinks keep these *)
(* logical positions, so they are not steps of their own.  free and used  *)
(* are the header's byte offsets.  A key is keyhi * LoBase + keylo, where *)
(* LoBase stands for 2^24.                                                 *)
(*                                                                         *)
(* A cursor (struct dwalk) is a record of logical positions: g for        *)
(* walk->group (0 is gdict), gs for gstop, e and es for entry and estop,  *)
(* xb, x, xs for exbase, extent, exstop as extent offsets.                *)
(*                                                                         *)
(* The leaves of one file's tree are a sequence 'tree'; the caller        *)
(* appends through the last leaf, splits it, and merges the last two.     *)
(***************************************************************************)
EXTENDS Naturals, Sequences, SequencesExt

CONSTANTS
    LoBase,           \* 2^24: keys per keyhi
    MaxGroupEntries,  \* MAX_GROUP_ENTRIES, 255
    BlockSize,        \* sb->blocksize in bytes
    Keys,             \* logical keys the caller appends extents at
    Blocks,           \* physical blocks an appended extent starts at
    Counts,           \* lengths of appended extents
    ChopKeys,         \* keys dleaf_chop is called with
    MaxLeaves         \* leaves of the tree

(* Sizes from tux3.h: the header holds be_u16 magic, groups, free, used;  *)
(* a group and an entry are 4 bytes; a diskextent is 8.                   *)
DLEAF_SIZE == 8
GROUP_SIZE == 4
ENTRY_SIZE == 4
EXTENT_SIZE == 8
(* Group counts and entry limits are 8-bit fields. *)
CountMod == MaxGroupEntries + 1

VARIABLES
    tree,    \* tree[i]: leaf i, [groups, ent, table, free, used]
    freed    \* the extents given to bfree, in order

vars == <<tree, freed>>

Group == [hi : Nat, count : 0 .. CountMod - 1]
Entry == [lo : 0 .. LoBase - 1, limit : 0 .. CountMod - 1]
DiskExtent == [block : Nat, count : Nat]
Walk == [g : Nat, gs : Nat, e : Nat, es : Nat, xb : Int, x : Nat, xs : Nat]

TypeOK ==
    /\ tree \in Seq([groups : Seq(Group), ent : Seq(Entry), table : Seq(DiskExtent),
                     free : DLEAF_SIZE .. BlockSize, used : DLEAF_SIZE .. BlockSize])
    /\ \A i \in DOMAIN tree : tree[i].free <= tree[i].used
    /\ 1 <= Len(tree) /\ Len(tree) <= MaxLeaves
    /\ freed \in Seq(DiskExtent)

-----------------------------------------------------------------------------
(* Field access. *)
Count(l, g) == l.groups[g].count
Limit(l, e) == l.ent[e].limit

(* get_index: the key of entry e of group g. *)
get_index(l, g, e) == l.groups[g].hi * LoBase + l.ent[e].lo

(* Entries in groups 1 .. g; the extent offset where group g+1 starts. *)
GroupEnd(l, g) == SumFunctionOnSet([h \in 1 .. Len(l.groups) |-> Count(l, h)], 1 .. g)
GroupBase(l, g) ==
    SumFunctionOnSet([h \in 1 .. Len(l.groups) |-> Limit(l, GroupEnd(l, h))], 1 .. g - 1)

(* dleaf_init: no groups, free just past the header, used at the end. *)
EmptyLeaf ==
    [groups |-> <<>>, ent |-> <<>>, table |-> <<>>, free |-> DLEAF_SIZE, used |-> BlockSize]

dleaf_free(l) == l.used - l.free
dleaf_need(l) == BlockSize - dleaf_free(l) - DLEAF_SIZE

-----------------------------------------------------------------------------
(* The cursor. *)
dwalk_first(w) == w.x = 0
dwalk_end(w) == w.x = w.xs
dwalk_index(l, w) == get_index(l, w.g, w.e)
dwalk_block(l, w) == l.table[w.x + 1].block
dwalk_count(l, w) == l.table[w.x + 1].count

(* dwalk_check's assertions on a cursor: an empty leaf has every pointer  *)
(* at its stop and the extent at leaf->table; at the end the cursor is in *)
(* the last group and entry, past a non-empty run of extents; otherwise   *)
(* group, entry and extent lie within their stops.  (walk->group >=       *)
(* walk->gstop is g <= gs, as the tables grow down.)                      *)
dwalk_check(l, w) ==
    CASE l.groups = <<>> -> w.g = w.gs /\ w.e = w.es /\ w.xb = w.x /\ w.x = w.xs /\ w.xs = 0
      [] dwalk_end(w) -> w.g = w.gs /\ w.e = w.es /\ w.xb < w.x /\ w.x = w.xs
      [] OTHER -> w.g <= w.gs /\ w.e <= w.es /\ w.xb <= w.x /\ w.x < w.xs

(* Mutant: entering the next group, estop is not moved past its entries. *)
dwalk_next_no_estop(l, w) ==
    LET x == w.x + 1
        newgroup == w.e = w.es
        g == IF newgroup THEN w.g + 1 ELSE w.g
        xb == IF newgroup THEN w.xb + Limit(l, w.es) ELSE w.xb
    IN CASE dwalk_end(w) -> [ok |-> FALSE, w |-> w]
         [] x # w.xs -> [ok |-> TRUE, w |-> [w EXCEPT !.x = x]]
         [] newgroup /\ w.g = w.gs -> [ok |-> FALSE, w |-> [w EXCEPT !.x = x]]
         [] OTHER -> [ok |-> TRUE,
                      w |-> [w EXCEPT !.x = x, !.g = g, !.xb = xb,
                                      !.e = w.e + 1, !.xs = xb + Limit(l, w.e + 1)]]

(* dwalk_next: step to the next extent, into the next entry or group when *)
(* the entry's extents are used up.  Returns [ok, w].                      *)
dwalk_next(l, w) ==
    LET x == w.x + 1
        newgroup == w.e = w.es
        g == IF newgroup THEN w.g + 1 ELSE w.g
        xb == IF newgroup THEN w.xb + Limit(l, w.es) ELSE w.xb
        es == IF newgroup THEN w.es + Count(l, g) ELSE w.es
    IN CASE dwalk_end(w) -> [ok |-> FALSE, w |-> w]
         [] x # w.xs -> [ok |-> TRUE, w |-> [w EXCEPT !.x = x]]
         [] newgroup /\ w.g = w.gs -> [ok |-> FALSE, w |-> [w EXCEPT !.x = x]]
         [] OTHER -> [ok |-> TRUE,
                      w |-> [w EXCEPT !.x = x, !.g = g, !.xb = xb, !.es = es,
                                      !.e = w.e + 1, !.xs = xb + Limit(l, w.e + 1)]]

(* Mutant: the previous group's base is found from the current entry. *)
dwalk_back_wrong_base(l, w) ==
    LET first == w.e - 1 = w.es - Count(l, w.g)
        entry_exbase == IF first THEN w.xb ELSE w.xb + Limit(l, w.e - 1)
        x == w.x - 1
        prevgroup == x < w.xb
        xb == IF prevgroup THEN w.xb - Limit(l, w.e) ELSE w.xb
    IN CASE dwalk_first(w) -> [ok |-> FALSE, w |-> w]
         [] x >= entry_exbase \/ (prevgroup /\ w.g = 0) -> [ok |-> TRUE, w |-> [w EXCEPT !.x = x]]
         [] OTHER -> [ok |-> TRUE,
                      w |-> [w EXCEPT !.x = x, !.xb = xb, !.e = w.e - 1,
                                      !.g = IF prevgroup THEN w.g - 1 ELSE w.g,
                                      !.es = IF prevgroup THEN w.e - 1 ELSE w.es,
                                      !.xs = xb + Limit(l, w.e - 1)]]

(* dwalk_back: rewind one dwalk_next. *)
dwalk_back(l, w) ==
    LET first == w.e - 1 = w.es - Count(l, w.g)
        entry_exbase == IF first THEN w.xb ELSE w.xb + Limit(l, w.e - 1)
        x == w.x - 1
        prevgroup == x < w.xb
        xb == IF prevgroup THEN w.xb - Limit(l, w.e - 1) ELSE w.xb
    IN CASE dwalk_first(w) -> [ok |-> FALSE, w |-> w]
         [] x >= entry_exbase \/ (prevgroup /\ w.g = 0) -> [ok |-> TRUE, w |-> [w EXCEPT !.x = x]]
         [] OTHER -> [ok |-> TRUE,
                      w |-> [w EXCEPT !.x = x, !.xb = xb, !.e = w.e - 1,
                                      !.g = IF prevgroup THEN w.g - 1 ELSE w.g,
                                      !.es = IF prevgroup THEN w.e - 1 ELSE w.es,
                                      !.xs = xb + Limit(l, w.e - 1)]]

-----------------------------------------------------------------------------
(* The probe's scan of the entries of the group it settled on: the entry   *)
(* with the nearest keylo at or below the key.                             *)
RECURSIVE ScanEntries(_, _, _)
ScanEntries(l, keylo, w) ==
    IF w.e < w.es /\ l.ent[w.e + 1].lo <= keylo
       THEN ScanEntries(l, keylo, [w EXCEPT !.e = w.e + 1, !.x = w.xs,
                                            !.xs = w.xb + Limit(l, w.e + 1)])
       ELSE w

(* probe_entry: scan the entries, then keep the extent that holds the key  *)
(* or step to the next one.                                                *)
ProbeEntry(l, key, v) ==
    LET w == ScanEntries(l, key % LoBase, [v EXCEPT !.x = v.xb, !.xs = v.xb + Limit(l, v.e)])
        n == dwalk_next(l, w)
    IN IF key < dwalk_index(l, w) + dwalk_count(l, w)
          THEN [ok |-> TRUE, w |-> w]
          ELSE [ok |-> ~dwalk_end(n.w), w |-> n.w]

(* The probe's loop over the groups.  Each round moves to the next group  *)
(* and either stops in it (no_group, probe_entry) or passes it.            *)
RECURSIVE ProbeGroups(_, _, _)
ProbeGroups(l, key, w) ==
    LET keylo == key % LoBase
        keyhi == key \div LoBase
        g == w.g + 1
        es == w.es + Count(l, g)
        v == [w EXCEPT !.g = g, !.e = w.es + 1, !.es = es]
        hi == l.groups[g].hi
    IN CASE w.g = w.gs ->
              [ok |-> FALSE, w |-> [w EXCEPT !.e = w.es, !.xs = w.xb, !.x = w.xb,
                                             !.xb = w.xb - Limit(l, w.es)]]
         [] hi > keyhi \/ (hi = keyhi /\ l.ent[v.e].lo > keylo) ->
              [ok |-> TRUE, w |-> [v EXCEPT !.x = v.xb, !.xs = v.xb + Limit(l, v.e)]]
         [] hi = keyhi /\ (g = w.gs \/ l.groups[g + 1].hi > keyhi \/ l.ent[es + 1].lo > keylo) ->
              ProbeEntry(l, key, v)
         [] OTHER -> ProbeGroups(l, key, [v EXCEPT !.xb = v.xb + Limit(l, es)])

(* dwalk_probe: the extent holding the key, or the next one; ok is FALSE  *)
(* at the end of the leaf.                                                 *)
dwalk_probe(l, key) ==
    LET w == [g |-> 0, gs |-> Len(l.groups), e |-> 0, es |-> 0, xb |-> 0, x |-> 0, xs |-> 0]
    IN IF l.groups = <<>> THEN [ok |-> FALSE, w |-> w] ELSE ProbeGroups(l, key, w)
-----------------------------------------------------------------------------
(* Writing a leaf. *)

(* dwalk_add at the end of the leaf: a new group when the leaf has none,  *)
(* keyhi changes or the group is full, a new entry, then the extent.      *)
(* Yields the leaf; the cursor is not used again.                          *)
NewGroup(l, w, index) ==
    \/ l.groups = <<>>
    \/ l.groups[w.g].hi # index \div LoBase
    \/ Count(l, w.g) >= MaxGroupEntries

(* The asserts of dwalk_add on free and used: the space it writes fits.   *)
AddFits(l, w, index) ==
    l.free + EXTENT_SIZE + ENTRY_SIZE + (IF NewGroup(l, w, index) THEN GROUP_SIZE ELSE 0)
        <= l.used

(* Mutant: the new group's slot is not taken from used. *)
dwalk_add_no_group_space(l, w, index, extent) ==
    LET ng == NewGroup(l, w, index)
        xb == IF ng /\ l.groups # <<>> THEN w.xb + Limit(l, w.e) ELSE w.xb
        groups == IF ng THEN Append(l.groups, [hi |-> index \div LoBase, count |-> 0])
                        ELSE l.groups
        g == IF ng THEN w.g + 1 ELSE w.g
    IN [groups |-> [groups EXCEPT ![g].count = (@ + 1) % CountMod],
        ent |-> Append(l.ent, [lo |-> index % LoBase, limit |-> (w.x - xb + 1) % CountMod]),
        table |-> Append(l.table, extent),
        free |-> l.free + EXTENT_SIZE,
        used |-> l.used - ENTRY_SIZE]

dwalk_add(l, w, index, extent) ==
    LET ng == NewGroup(l, w, index)
        xb == IF ng /\ l.groups # <<>> THEN w.xb + Limit(l, w.e) ELSE w.xb
        groups == IF ng THEN Append(l.groups, [hi |-> index \div LoBase, count |-> 0])
                        ELSE l.groups
        g == IF ng THEN w.g + 1 ELSE w.g
        used == l.used - ENTRY_SIZE - (IF ng THEN GROUP_SIZE ELSE 0)
    IN [groups |-> [groups EXCEPT ![g].count = (@ + 1) % CountMod],
        ent |-> Append(l.ent, [lo |-> index % LoBase, limit |-> (w.x - xb + 1) % CountMod]),
        table |-> Append(l.table, extent),
        free |-> l.free + EXTENT_SIZE,
        used |-> used]

(* split_at's memcpy of the extents past exsplit into the new leaf. *)
(* Mutant: the copy starts at leaf->table rather than at exsplit.     *)
RightTable_from_start(l, exsplit, ntable) == SubSeq(l.table, 1, ntable - exsplit)

RightTable(l, exsplit, ntable) == SubSeq(l.table, exsplit + 1, ntable)

(* dleaf_split_at with 'split' entries staying in the left leaf: whole    *)
(* groups up to the split, a cut group shared, the right side's share of  *)
(* the cut group rebased by the limit at the cut.  Yields <<left, right>>.*)
dleaf_split_at(l, split) ==
    LET G == Len(l.groups)
        E == Len(l.ent)
        grsplit == CHOOSE k \in 0 .. G :
                       GroupEnd(l, k) <= split /\ (k = G \/ GroupEnd(l, k + 1) > split)
        cut == split - GroupEnd(l, grsplit)
        exsplit == GroupBase(l, grsplit + 1) + (IF cut > 0 THEN Limit(l, split) ELSE 0)
        ntable == (l.free - DLEAF_SIZE) \div EXTENT_SIZE
        groups2 == G - grsplit
        groups1 == grsplit + (IF cut > 0 THEN 1 ELSE 0)
        rgroups == [SubSeq(l.groups, grsplit + 1, G) EXCEPT ![1].count = (@ - cut) % CountMod]
        rent == [i \in 1 .. E - split |->
                    IF cut > 0 /\ i <= rgroups[1].count
                       THEN [l.ent[split + i] EXCEPT !.limit = (@ - Limit(l, split)) % CountMod]
                       ELSE l.ent[split + i]]
        right == [groups |-> rgroups,
                  ent |-> rent,
                  table |-> RightTable(l, exsplit, ntable),
                  free |-> l.free - exsplit * EXTENT_SIZE,
                  used |-> BlockSize - groups2 * GROUP_SIZE - (E - split) * ENTRY_SIZE]
        left == [groups |-> IF cut > 0
                               THEN [SubSeq(l.groups, 1, groups1) EXCEPT ![groups1].count = cut]
                               ELSE SubSeq(l.groups, 1, groups1),
                 ent |-> SubSeq(l.ent, 1, split),
                 table |-> SubSeq(l.table, 1, exsplit),
                 free |-> DLEAF_SIZE + exsplit * EXTENT_SIZE,
                 used |-> BlockSize - groups1 * GROUP_SIZE - split * ENTRY_SIZE]
    IN <<left, right>>

(* dleaf_split: split_at(edict - entries / 2), which leaves entries/2 - 1 *)
(* entries on the left.                                                    *)
dleaf_split(l) == dleaf_split_at(l, Len(l.ent) \div 2 - 1)

(* dleaf_merge(leaf, from): append from's extents, its groups (the first  *)
(* folded into leaf's last when keyhi matches) and its entries, rebasing  *)
(* the folded group's limits on leaf's last limit.                         *)
dleaf_merge(l, from) ==
    LET GL == Len(l.groups)
        uncut == GL > 0 /\ from.groups # <<>> /\ from.groups[1].hi = l.groups[GL].hi
        addgroups == Len(from.groups) - (IF uncut THEN 1 ELSE 0)
        size == from.free - DLEAF_SIZE
        esize == (BlockSize - Len(from.groups) * GROUP_SIZE) - from.used
        base == IF l.ent = <<>> THEN 0 ELSE Limit(l, Len(l.ent))
        groups == IF uncut
                     THEN [l.groups EXCEPT ![GL].count = (@ + from.groups[1].count) % CountMod]
                          \o Tail(from.groups)
                     ELSE l.groups \o from.groups
        fent == [i \in DOMAIN from.ent |->
                    IF uncut /\ i <= from.groups[1].count
                       THEN [from.ent[i] EXCEPT !.limit = (@ + base) % CountMod]
                       ELSE from.ent[i]]
    IN [groups |-> groups,
        ent |-> l.ent \o fent,
        table |-> l.table \o from.table,
        free |-> l.free + size,
        used |-> l.used - addgroups * GROUP_SIZE - esize]
-----------------------------------------------------------------------------
(* Reading a leaf back. *)

(* The extents of entry e of group g, each tagged with the entry's key:   *)
(* table[exbase + previous limit .. exbase + limit), as dleaf_dump walks. *)
EntryExtents(l, g, e) ==
    LET lo == IF e = GroupEnd(l, g - 1) + 1 THEN 0 ELSE Limit(l, e - 1)
        xb == GroupBase(l, g)
    IN [i \in 1 .. Limit(l, e) - lo |->
          [key |-> get_index(l, g, e),
           block |-> l.table[xb + lo + i].block,
           count |-> l.table[xb + lo + i].count]]

(* The leaf as the run of extents it indexes. *)
Decode(l) ==
    FlattenSeq([g \in 1 .. Len(l.groups) |->
        FlattenSeq([i \in 1 .. Count(l, g) |-> EntryExtents(l, g, GroupEnd(l, g - 1) + i)])])

(* dleaf_check: used and free agree with the entry and extent totals the  *)
(* group and entry tables give.                                            *)
dleaf_check(l) ==
    LET G == Len(l.groups) IN
    /\ l.used = BlockSize - G * GROUP_SIZE - GroupEnd(l, G) * ENTRY_SIZE
    /\ l.free = DLEAF_SIZE + GroupBase(l, G + 1) * EXTENT_SIZE

(* Where the caller's next append may start: past the leaf's last extent. *)
LeafEnd(l) ==
    IF l.ent = <<>> THEN 0
    ELSE get_index(l, Len(l.groups), Len(l.ent)) + Last(l.table).count

-----------------------------------------------------------------------------
Init ==
    /\ tree = <<EmptyLeaf>>
    /\ freed = <<>>

(* The caller appends extent (block, count) at key index: dwalk_probe to  *)
(* the end of the last leaf, then dwalk_add.  Keys ascend and the caller  *)
(* has checked dleaf_free, so the asserts of dwalk_add hold.               *)
Add(index, block, count) ==
    LET n == Len(tree)
        l == tree[n]
        p == dwalk_probe(l, index)
    IN /\ index >= LeafEnd(l)
       /\ ~p.ok
       /\ AddFits(l, p.w, index)
       /\ tree' = [tree EXCEPT ![n] = dwalk_add(l, p.w, index, [block |-> block, count |-> count])]
       /\ UNCHANGED freed

(* The tree splits its last leaf with leaf_split into a fresh dleaf_init  *)
(* leaf; split_at asserts the cut entry lies inside the leaf.              *)
Split ==
    LET n == Len(tree) IN
    /\ n < MaxLeaves
    /\ Len(tree[n].ent) >= 2
    /\ tree' = Front(tree) \o dleaf_split(tree[n])
    /\ UNCHANGED freed

(* Mutant: the tree merges without checking that the leaf has room. *)
Merge_unchecked ==
    LET n == Len(tree) IN
    /\ n >= 2
    /\ tree' = SubSeq(tree, 1, n - 2) \o <<dleaf_merge(tree[n - 1], tree[n])>>
    /\ UNCHANGED freed

(* The tree merges its last leaf into the one before when it fits.        *)
Merge ==
    LET n == Len(tree) IN
    /\ n >= 2
    /\ dleaf_need(tree[n]) <= dleaf_free(tree[n - 1])
    /\ tree' = SubSeq(tree, 1, n - 2) \o <<dleaf_merge(tree[n - 1], tree[n])>>
    /\ UNCHANGED freed

Next ==
    \/ \E k \in Keys, b \in Blocks, c \in Counts : Add(k, b, c)
    \/ Split
    \/ Merge

Spec == Init /\ [][Next]_vars

-----------------------------------------------------------------------------
(* Keys a lookup may ask for: every key an extent may cover. *)
ProbeKeys == 0 .. Max(Keys) + Max(Counts)

(* The position the probe should reach in the decoded run d: the first    *)
(* extent ending past k, or one past the end.                              *)
RefPos(d, k) == Min({j \in DOMAIN d : d[j].key + d[j].count > k} \cup {Len(d) + 1})

(* dwalk_probe, for every leaf and key, stops on the extent holding the   *)
(* key or, when none does, on the next one, and returns 0 exactly at the  *)
(* end of the leaf: the two-level search over groups, their look-ahead to *)
(* the next group and the entry scan agree with a linear search.  This is  *)
(* what the callers of dwalk_probe assume; the loop over groups compares   *)
(* keyhi only (dleaf.c:485-500), so it fails for a key inside an extent    *)
(* that runs from an earlier group across a keyhi boundary, as             *)
(* MC_Dleaf_straddle.cfg shows.                                            *)
ProbeLocates ==
    \A i \in DOMAIN tree, k \in ProbeKeys :
        LET d == Decode(tree[i])
            p == dwalk_probe(tree[i], k)
        IN /\ p.w.x + 1 = RefPos(d, k)
           /\ p.ok = (RefPos(d, k) <= Len(d))

(* dwalk_back undoes dwalk_next from every position a probe reaches,      *)
(* including the steps that cross into the next entry and the next group. *)
WalkRoundTrip ==
    \A i \in DOMAIN tree, k \in ProbeKeys :
        LET l == tree[i]
            w == dwalk_probe(l, k).w
        IN ~dwalk_end(w) => dwalk_back(l, dwalk_next(l, w).w).w = w

(* The cursor dwalk_probe leaves on every leaf for every key, and the     *)
(* cursors dwalk_next and then dwalk_back move it to when they return 1,  *)
(* pass the assertions of dwalk_check that those functions make: the      *)
(* pointer arithmetic over the reversed group and entry tables keeps      *)
(* group, entry and extent within their stops.                             *)
WalkChecks ==
    \A i \in DOMAIN tree, k \in ProbeKeys :
        LET l == tree[i]
            w == dwalk_probe(l, k).w
            n == dwalk_next(l, w)
            b == dwalk_back(l, n.w)
        IN /\ dwalk_check(l, w)
           /\ n.ok => dwalk_check(l, n.w)
           /\ n.ok /\ b.ok => dwalk_check(l, b.w)

(* Every leaf passes dleaf_check after any sequence of appends, splits    *)
(* and merges: the header's free and used match the index tables.        *)
LeafChecks == \A i \in DOMAIN tree : dleaf_check(tree[i])

(* The leaves implement ExtentMap: appends, splits and merges change the  *)
(* decoded runs of extents exactly as the abstract operations do, and     *)
(* bfree is called for exactly the extents a chop releases.               *)
Abstract == INSTANCE ExtentMap WITH leaves <- [i \in DOMAIN tree |-> Decode(tree[i])]

ImplementsExtentMap == Abstract!Spec
=============================================================================
