------------------------------ MODULE MC_Commit ------------------------------
(* Model-checking instance of Commit: three caller threads, two bitmap     *)
(* buffers, need_delta() opting in on every second call.                   *)
EXTENDS Commit, TLC

CONSTANTS t1, t2, t3, b1, b2

MC_Threads == {t1, t2, t3}
MC_Buffers == {b1, b2}

Symmetry == Permutations(MC_Threads) \cup Permutations(MC_Buffers)
=============================================================================
