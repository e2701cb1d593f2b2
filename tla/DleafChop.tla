------------------------------ MODULE DleafChop ------------------------------
(***************************************************************************)
(* Truncation of a dleaf (src/user/kernel/dleaf.c): dleaf_chop probes for *)
(* the chop key, trims the extent that straddles it and bfrees the tail,  *)
(* bfrees every later extent while stepping with dwalk_next, then         *)
(* dwalk_chop cuts the index back at the rewound cursor.  The tree's      *)
(* other operations are those of Dleaf.                                   *)
(***************************************************************************)
EXTENDS Dleaf

CONSTANT MaxFreed   \* bound: bfree calls in a behaviour

(* The do/while of dleaf_chop: bfree the cursor's extent, then step.      *)
RECURSIVE FreeRest(_, _)
FreeRest(l, w) ==
    LET n == dwalk_next(l, w) IN
    <<[block |-> dwalk_block(l, w), count |-> dwalk_count(l, w)]>>
        \o (IF n.ok THEN FreeRest(l, n.w) ELSE <<>>)

(* dwalk_chop: cut the leaf at the cursor.  At the first extent the leaf  *)
(* is emptied; at the first extent of a group the cursor first backs into *)
(* the group before.  The group of the cursor keeps its entries up to and *)
(* including the cursor's entry; free and used are set from exstop and    *)
(* estop.                                                                  *)
dwalk_chop(l, w) ==
    LET v == IF w.xb = w.x THEN dwalk_back(l, w).w ELSE w
        kept == v.e - (v.es - Count(l, v.g))
        xs == v.xb + Limit(l, v.e)
    IN CASE dwalk_end(w) -> l
         [] dwalk_first(w) -> EmptyLeaf
         [] OTHER -> [groups |-> [SubSeq(l.groups, 1, v.g) EXCEPT ![v.g].count = kept],
                      ent |-> SubSeq(l.ent, 1, v.e),
                      table |-> SubSeq(l.table, 1, xs),
                      free |-> DLEAF_SIZE + xs * EXTENT_SIZE,
                      used |-> BlockSize - v.g * GROUP_SIZE - v.e * ENTRY_SIZE]

(* dleaf_chop(chop) on the last leaf.  Nothing happens when the probe     *)
(* finds no extent at or past the key.                                     *)
dleaf_chop(chop) ==
    LET n == Len(tree)
        l == tree[n]
        p == dwalk_probe(l, chop)
        w == p.w
        partial == dwalk_index(l, w) < chop
        count == chop - dwalk_index(l, w)
        l1 == IF partial
                 THEN [l EXCEPT !.table[w.x + 1] = [block |-> dwalk_block(l, w), count |-> count]]
                 ELSE l
        tail == IF partial
                   THEN <<[block |-> dwalk_block(l, w) + count,
                           count |-> dwalk_count(l, w) - count]>>
                   ELSE <<>>
        nx == dwalk_next(l1, w)
        rewind == IF partial THEN nx.w ELSE w
    IN /\ p.ok
       /\ Len(freed) < MaxFreed
       /\ IF partial /\ ~nx.ok
             THEN /\ tree' = [tree EXCEPT ![n] = l1]
                  /\ freed' = freed \o tail
             ELSE /\ tree' = [tree EXCEPT ![n] = dwalk_chop(l1, rewind)]
                  /\ freed' = freed \o tail \o FreeRest(l1, rewind)

NextChop ==
    \/ Next
    \/ \E k \in ChopKeys : dleaf_chop(k)

SpecChop == Init /\ [][NextChop]_vars
=============================================================================
