------------------------------ MODULE MC_Dedup ------------------------------
(* Instantiation of Dedup for TLC: digests sharing an 8-byte prefix are    *)
(* records with the same key.                                               *)
EXTENDS Dedup, TLC

CONSTANTS i1, i2

(* Two digests with one prefix and one with another. *)
MC_Digests_pair == {[key |-> 1, id |-> 1], [key |-> 1, id |-> 2], [key |-> 2, id |-> 3]}

(* Three digests with one prefix. *)
MC_Digests_triple == {[key |-> 1, id |-> 1], [key |-> 1, id |-> 2], [key |-> 1, id |-> 3]}

(* Two digests with one prefix and three more prefixes: four keys fill and *)
(* split a leaf of three entries. *)
MC_Digests_keys == {[key |-> 1, id |-> 1], [key |-> 1, id |-> 2], [key |-> 2, id |-> 3],
                    [key |-> 3, id |-> 4], [key |-> 4, id |-> 5]}

(* One digest. *)
MC_Digests_one == {[key |-> 1, id |-> 1]}

MC_Inodes_one == {i1}
MC_Inodes_two == {i1, i2}

Symmetry == Permutations(MC_Inodes_two)

(* Schedules in which a caller's write and make_hash_entry follow its -1  *)
(* before any other step: no lookup races a pending entry (the race of     *)
(* dedup.c:348), so what remains is the unlocked refcount update.          *)
WriteCompletesFirst ==
    (\E i \in Inodes : pc[i] = "write") => \E i \in Inodes : pc[i] = "write" /\ pc'[i] = "idle"

=============================================================================
