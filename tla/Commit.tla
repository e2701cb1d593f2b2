------------------------------- MODULE Commit -------------------------------
(***************************************************************************)
(* The delta commit engine of src/user/commit.c together with the dirty-   *)
(* state ring of the buffer cache (src/user/buffer.h).                     *)
(*                                                                         *)
(* Caller threads run the loop body of main(): change_begin, a mutation    *)
(* (balloc dirties a bitmap buffer), change_end, for as long as they run:  *)
(* spec section 5 has any number of callers mutating concurrently, so the  *)
(* loop is not bounded here.  change_end asks                              *)
(* need_delta(), whose static counter is incremented without a lock; when  *)
(* it opts in, the thread drops the read half of delta_lock, takes the     *)
(* write half, and (double check) commits only if sb->delta has not moved: *)
(* ++delta, stage_delta, commit_delta.                                     *)
(*                                                                         *)
(* buffer.c (mark_buffer_dirty, set_buffer_clean, flush_state) is not in   *)
(* the source tree; its dirty-state behaviour is taken from the spec       *)
(* (section 4.B) and marked spec_modelled in PROJECT.json.                 *)
(*                                                                         *)
(* The code uses sb->delta only through delta & 3 and through change_end's *)
(* equality test against the value it remembered; the model keeps delta &  *)
(* 3 and, per thread, whether sb->delta has moved since it was remembered. *)
(* That keeps the state space finite over behaviours of any length.        *)
(***************************************************************************)
EXTENDS Naturals, FiniteSets

CONSTANTS
    Threads,          \* caller threads running change_begin .. change_end
    Buffers,          \* buffers of the bitmap mapping
    NoThread,         \* no thread holds the write half of delta_lock
    NeedDeltaPeriod,  \* need_delta() opts in on every N-th call (10 in the code)
    DiskFaults        \* whether diskwrite() may fail

ASSUME NoThread \notin Threads
ASSUME NeedDeltaPeriod \in Nat \ {0}
ASSUME DiskFaults \in BOOLEAN

(* Buffer states, buffer.h enum. *)
BUFFER_FREED == 0
BUFFER_EMPTY == 1
BUFFER_CLEAN == 2
BUFFER_DIRTY == 3
BUFFER_DIRTY_STATES == 4

(* BUFFER_DIRTY + (delta & (BUFFER_DIRTY_STATES - 1)) *)
DirtyState(d) == BUFFER_DIRTY + (d % BUFFER_DIRTY_STATES)

(* buffer_dirty(): state >= BUFFER_DIRTY *)
buffer_dirty(s) == s >= BUFFER_DIRTY

VARIABLES
    delta,       \* sb->delta & 3
    readers,     \* threads holding delta_lock for read
    writer,      \* thread holding delta_lock for write, or NoThread
    crudehack,   \* the static counter of need_delta(), modulo the period
    tmp,         \* per thread: the register value of ++crudehack
    moved,       \* per thread: sb->delta # the local 'delta' of change_end
    pc,          \* per thread: where it is in the loop body
    bstate,      \* per buffer: state
    fresh,       \* history: per buffer, last mark_buffer_dirty was in the open delta
    changed      \* history: some change section dirtied a buffer in the open delta

vars == <<delta, readers, writer, crudehack, tmp, moved, pc, bstate, fresh, changed>>

PC == {"idle", "change", "need_load", "need_store", "down_write", "commit"}

TypeOK ==
    /\ delta \in 0 .. BUFFER_DIRTY_STATES - 1
    /\ readers \subseteq Threads
    /\ writer \in Threads \cup {NoThread}
    /\ crudehack \in 0 .. NeedDeltaPeriod - 1
    /\ tmp \in [Threads -> 0 .. NeedDeltaPeriod - 1]
    /\ moved \in [Threads -> BOOLEAN]
    /\ pc \in [Threads -> PC]
    /\ bstate \in [Buffers -> BUFFER_CLEAN .. BUFFER_DIRTY + BUFFER_DIRTY_STATES - 1]
    /\ fresh \in [Buffers -> BOOLEAN]
    /\ changed \in BOOLEAN

-----------------------------------------------------------------------------
(* Buffer cache helpers (spec section 4.B). *)

(* mark_buffer_dirty in delta d: a no-op when already tagged for d,        *)
(* otherwise retag to DIRTY + (d & 3).                                     *)
mark_buffer_dirty(s, b, d) ==
    IF s[b] = DirtyState(d) THEN s ELSE [s EXCEPT ![b] = DirtyState(d)]

(* write_bitmap(buffer) under sb->delta = d, with 'ok' the outcome of      *)
(* diskwrite: a buffer tagged for the open delta is -EAGAIN and untouched; *)
(* otherwise it becomes clean iff diskwrite succeeded, and 0 is returned   *)
(* either way.                                                             *)
WriteBitmapEAGAIN(s, b, d) == s[b] - BUFFER_DIRTY = d % BUFFER_DIRTY_STATES

(* Mutant: the buffer set empty instead of clean after the write. *)
write_bitmap_empty(s, b, d, ok) ==
    IF WriteBitmapEAGAIN(s, b, d) \/ ~ok THEN s
    ELSE [s EXCEPT ![b] = BUFFER_EMPTY]

write_bitmap(s, b, d, ok) ==
    IF WriteBitmapEAGAIN(s, b, d) \/ ~ok THEN s
    ELSE [s EXCEPT ![b] = BUFFER_CLEAN]

(* stage_delta: walk the bitmap dirty list; the first buffer that is not   *)
(* -EAGAIN is written and its result (always 0 or an error) ends the walk. *)
(* The list order is not in the source tree, so any dirty buffer may come  *)
(* first.  'first' holds that buffer, or is empty when all are -EAGAIN.    *)
Stageable(s, d) == {b \in Buffers : buffer_dirty(s[b]) /\ ~WriteBitmapEAGAIN(s, b, d)}

StageFirst(s, d) ==
    IF Stageable(s, d) = {} THEN {{}} ELSE {{b} : b \in Stageable(s, d)}

stage_delta(s, d, first, ok) ==
    IF first = {} THEN s ELSE write_bitmap(s, CHOOSE b \in first : TRUE, d, ok)

(* commit_delta: flush_state(BUFFER_DIRTY + ((delta - 1) & 3)) writes every *)
(* buffer in that state through its io method, bitmap_io -> write_bitmap.   *)
(* 'failed' is the set of buffers whose diskwrite fails.                    *)
(* Mutant: flush the open delta's state instead of the one just closed. *)
commit_delta_open_state(s, d, failed) ==
    [b \in Buffers |->
        IF s[b] = DirtyState(d) /\ b \notin failed
        THEN write_bitmap(s, b, d, TRUE)[b]
        ELSE s[b]]

commit_delta(s, d, failed) ==
    [b \in Buffers |->
        IF s[b] = DirtyState(d - 1) /\ b \notin failed
        THEN write_bitmap(s, b, d, TRUE)[b]
        ELSE s[b]]

-----------------------------------------------------------------------------
Init ==
    /\ delta = 0
    /\ readers = {}
    /\ writer = NoThread
    /\ crudehack = 0
    /\ tmp = [t \in Threads |-> 0]
    /\ moved = [t \in Threads |-> FALSE]
    /\ pc = [t \in Threads |-> "idle"]
    /\ bstate = [b \in Buffers |-> BUFFER_CLEAN]
    /\ fresh = [b \in Buffers |-> FALSE]
    /\ changed = FALSE

(* change_begin: down_read(&sb->delta_lock). *)
change_begin(t) ==
    /\ pc[t] = "idle"
    /\ writer = NoThread
    /\ readers' = readers \cup {t}
    /\ pc' = [pc EXCEPT ![t] = "change"]
    /\ UNCHANGED <<delta, writer, crudehack, tmp, moved, bstate, fresh, changed>>

(* The mutation of main()'s loop: balloc() updates the bitmap, dirtying    *)
(* the bitmap buffer that holds the allocated bit in the current delta.    *)
Mutate(t) ==
    /\ pc[t] = "change"
    /\ \E b \in Buffers :
          /\ bstate' = mark_buffer_dirty(bstate, b, delta)
          /\ fresh' = [fresh EXCEPT ![b] = TRUE]
    /\ changed' = TRUE
    /\ pc' = [pc EXCEPT ![t] = "need_load"]
    /\ UNCHANGED <<delta, readers, writer, crudehack, tmp, moved>>

(* need_delta(): ++crudehack is a load and a store on a static shared by   *)
(* all threads under the read lock; the two steps interleave.              *)
need_delta_load(t) ==
    /\ pc[t] = "need_load"
    /\ tmp' = [tmp EXCEPT ![t] = (crudehack + 1) % NeedDeltaPeriod]
    /\ pc' = [pc EXCEPT ![t] = "need_store"]
    /\ UNCHANGED <<delta, readers, writer, crudehack, moved, bstate, fresh, changed>>

(* The store of ++crudehack and the rest of change_end up to up_read:      *)
(* when !(crudehack % 10), remember delta before dropping the read lock.   *)
change_end_up_read(t) ==
    /\ pc[t] = "need_store"
    /\ crudehack' = tmp[t]
    /\ readers' = readers \ {t}
    /\ IF tmp[t] = 0
          THEN /\ moved' = [moved EXCEPT ![t] = FALSE]
               /\ pc' = [pc EXCEPT ![t] = "down_write"]
          ELSE /\ pc' = [pc EXCEPT ![t] = "idle"]
               /\ UNCHANGED moved
    /\ UNCHANGED <<delta, writer, tmp, bstate, fresh, changed>>

(* down_write(&sb->delta_lock). *)
change_end_down_write(t) ==
    /\ pc[t] = "down_write"
    /\ readers = {}
    /\ writer = NoThread
    /\ writer' = t
    /\ pc' = [pc EXCEPT ![t] = "commit"]
    /\ UNCHANGED <<delta, readers, crudehack, tmp, moved, bstate, fresh, changed>>

(* The double check: commit only if sb->delta is still the remembered one. *)
(* Mutant: no double check after down_write. *)
DeltaUnchanged_no_recheck(t) == TRUE

(* Mutant: the double check inverted, sb->delta != delta. *)
DeltaUnchanged_inverted(t) == moved[t]

DeltaUnchanged(t) == ~moved[t]

(* Under the write lock: if the delta has not moved, ++delta, stage_delta, *)
(* commit_delta; then up_write.                                            *)
change_end_commit(t) ==
    /\ pc[t] = "commit"
    /\ writer = t
    /\ IF DeltaUnchanged(t)
          THEN LET d == delta + 1 IN
               \E first \in StageFirst(bstate, d),
                  ok \in (IF DiskFaults THEN BOOLEAN ELSE {TRUE}),
                  failed \in (IF DiskFaults THEN SUBSET Buffers ELSE {{}}) :
                  /\ delta' = d % BUFFER_DIRTY_STATES
                  /\ bstate' = commit_delta(stage_delta(bstate, d, first, ok), d, failed)
                  /\ moved' = [u \in Threads |-> TRUE]
                  /\ fresh' = [b \in Buffers |-> FALSE]
                  /\ changed' = FALSE
          ELSE UNCHANGED <<delta, bstate, moved, fresh, changed>>
    /\ writer' = NoThread
    /\ pc' = [pc EXCEPT ![t] = "idle"]
    /\ UNCHANGED <<readers, crudehack, tmp>>

(* One step of caller thread t. *)
Step(t) ==
    \/ change_begin(t)
    \/ Mutate(t)
    \/ need_delta_load(t)
    \/ change_end_up_read(t)
    \/ change_end_down_write(t)
    \/ change_end_commit(t)

Next == \E t \in Threads : Step(t)

(* Each caller thread is scheduled by the OS and keeps running its loop    *)
(* body: weak fairness per thread.  delta_lock is given no fairness of its *)
(* own (its rwsem is not in the source tree).                              *)
Spec == Init /\ [][Next]_vars /\ \A t \in Threads : WF_vars(Step(t))

-----------------------------------------------------------------------------
(* Safety.                                                                  *)

(* Every commit drains its delta: stage_delta and commit_delta, run after  *)
(* ++delta, leave no buffer dirty from a delta that is already closed, so  *)
(* every dirty buffer holds a change of the open delta sb->delta.          *)
NoStaleDirty ==
    \A b \in Buffers : buffer_dirty(bstate[b]) => fresh[b]

(* The double check in change_end: two threads that both saw need_delta()  *)
(* opt in during the same delta commit it once; a commit never closes a   *)
(* delta in which no change section dirtied anything.                      *)
NonEmptyCommit ==
    [][delta' # delta => changed]_vars

-----------------------------------------------------------------------------
(* Liveness.                                                                *)

(* need_delta's counter loses increments when two threads interleave the  *)
(* load and store of ++crudehack, and a thread that opts in may lose the   *)
(* double check; still, while callers keep making changes, deltas keep     *)
(* being committed: sb->delta advances infinitely often.                   *)
CommitsRecur ==
    []<><<delta' # delta>>_vars

=============================================================================
