------------------------------ MODULE ExtentMap ------------------------------
(***************************************************************************)
(* What the dleaf leaves of one file's extent tree promise (spec.md 4.D):  *)
(* each leaf is an ordered run of extents, each extent tagged with the     *)
(* logical key it starts at.  Appending adds an extent past the end of the *)
(* last leaf; a split cuts the last leaf in two at some point; a merge     *)
(* concatenates the last two leaves; a chop at key k keeps the extents     *)
(* below k, trims the one that straddles k, and hands everything at or     *)
(* past k to bfree, in order.                                              *)
(***************************************************************************)
EXTENDS Naturals, Sequences, SequencesExt

CONSTANTS
    Keys,       \* logical keys an extent may start at
    Blocks,     \* physical block numbers an extent may start at
    Counts,     \* extent lengths
    ChopKeys,   \* keys a chop may be asked for
    MaxLeaves   \* leaves the tree may hold

VARIABLES
    leaves,     \* leaves[i]: the extents of leaf i, in key order
    freed       \* the (block, count) runs given to bfree, in order

vars == <<leaves, freed>>

Extent == [key : Nat, block : Nat, count : Nat]

End(x) == x.key + x.count

(* The extents of s wholly below k, the straddling one cut at k. *)
Below(s, k) ==
    LET keep == SelectSeq(s, LAMBDA x : x.key < k)
    IN [i \in DOMAIN keep |->
          IF End(keep[i]) > k THEN [keep[i] EXCEPT !.count = k - keep[i].key]
                              ELSE keep[i]]

(* What a chop at k hands to bfree: the tail of the straddling extent,    *)
(* then every extent at or past k, as (block, count).                      *)
Released(s, k) ==
    LET rest == SelectSeq(s, LAMBDA x : End(x) > k)
    IN [i \in DOMAIN rest |->
          IF rest[i].key < k
             THEN [block |-> rest[i].block + (k - rest[i].key), count |-> End(rest[i]) - k]
             ELSE [block |-> rest[i].block, count |-> rest[i].count]]

Init ==
    /\ leaves = <<<<>>>>
    /\ freed = <<>>

AppendExtent(k, b, c) ==
    LET n == Len(leaves) IN
    /\ leaves[n] = <<>> \/ End(Last(leaves[n])) <= k
    /\ leaves' = [leaves EXCEPT ![n] = Append(@, [key |-> k, block |-> b, count |-> c])]
    /\ UNCHANGED freed

Split ==
    LET n == Len(leaves) IN
    /\ n < MaxLeaves
    /\ \E i \in 0 .. Len(leaves[n]) :
          leaves' = Front(leaves) \o <<SubSeq(leaves[n], 1, i),
                                       SubSeq(leaves[n], i + 1, Len(leaves[n]))>>
    /\ UNCHANGED freed

Merge ==
    LET n == Len(leaves) IN
    /\ n > 1
    /\ leaves' = SubSeq(leaves, 1, n - 2) \o <<leaves[n - 1] \o leaves[n]>>
    /\ UNCHANGED freed

Chop(k) ==
    LET n == Len(leaves) IN
    /\ leaves' = [leaves EXCEPT ![n] = Below(@, k)]
    /\ freed' = freed \o Released(leaves[n], k)

Next ==
    \/ \E k \in Keys, b \in Blocks, c \in Counts : AppendExtent(k, b, c)
    \/ Split
    \/ Merge
    \/ \E k \in ChopKeys : Chop(k)

Spec == Init /\ [][Next]_vars
=============================================================================
