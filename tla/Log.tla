-------------------------------- MODULE Log --------------------------------
(***************************************************************************)
(* The log stream of src/user/kernel/log.c and its replay in               *)
(* src/user/commit.c.                                                      *)
(*                                                                         *)
(* The log is a run of blocks of the log mapping.  sb->logbuf is the       *)
(* block being filled, sb->logpos/logtop the write cursor and the end of   *)
(* its data area, sb->lognext the next block index.  Each log_X call       *)
(* reserves bytes with log_begin (finishing the block and starting the     *)
(* next when they do not fit), writes its record and commits the cursor    *)
(* with log_end; loglock makes each call one atomic step.  log_finish      *)
(* stores the byte count in the block header and zeroes the tail.  replay  *)
(* walks blocks 0 .. lognext-1 and decodes records up to each block's      *)
(* byte count.                                                             *)
(*                                                                         *)
(* Data is kept at byte level, because replay reads bytes: a record is     *)
(* its opcode byte, its count byte and encode48 big-endian fields.  A      *)
(* 48-bit value is kept as its six bytes, so decoding never overflows.     *)
(***************************************************************************)
EXTENDS Integers, Sequences

CONSTANTS
    LOG_ALLOC, LOG_FREE, LOG_UPDATE, LOG_IROOT, LOG_REDIRECT,  \* opcode bytes
    LogData,        \* bytes in a log block after struct logblock
    MaxLogBlocks,   \* bound: log blocks the log mapping may grow to
    MaxRecords,     \* bound: records logged in a behaviour
    BlockVals,      \* 48-bit block numbers, parents and keys logged
    CountVals,      \* extent counts of log_alloc
    Ops,            \* the log calls the client makes
    MainOrder       \* TRUE: log, then log_finish, then replay (main())

Opcodes == {LOG_ALLOC, LOG_FREE, LOG_UPDATE, LOG_IROOT, LOG_REDIRECT}
Byte == 0 .. 255

ASSUME Opcodes \subseteq Byte
ASSUME LogData \in Nat \ {0}
ASSUME BlockVals \subseteq Nat /\ CountVals \subseteq Byte
ASSUME Ops \subseteq {"alloc", "update", "droot", "iroot", "redirect", "finish"}
ASSUME MainOrder \in BOOLEAN

NULL == -1

(* encode48: a 48-bit value as six big-endian bytes. *)
RECURSIVE BigEndian(_, _)
BigEndian(v, n) == IF n = 0 THEN <<>> ELSE BigEndian(v \div 256, n - 1) \o <<v % 256>>
encode48(v) == BigEndian(v, 6)

(* The bytes each log_X call writes after log_begin(sb, reserve). *)
AllocRecord(block, count, alloc) ==
    <<IF alloc THEN LOG_ALLOC ELSE LOG_FREE, count>> \o encode48(block)
UpdateRecord(child, parent, key) ==
    <<LOG_UPDATE>> \o encode48(child) \o encode48(parent) \o encode48(key)
DrootRecord(newroot, oldroot, key) ==
    <<LOG_IROOT>> \o encode48(newroot) \o encode48(oldroot) \o encode48(key)
IrootRecord(newroot, oldroot) == <<LOG_IROOT>> \o encode48(newroot) \o encode48(oldroot)
RedirectRecord(newblock, oldblock) ==
    <<LOG_REDIRECT>> \o encode48(newblock) \o encode48(oldblock)

VARIABLES
    sb,        \* [lognext, logbuf, posblk, off, top]: the log fields of struct sb;
               \* logpos is byte 'off' of block 'posblk', logtop is byte 'top'
    cache,     \* log mapping buffers: [magic, bytes, data] per block index
    written,   \* history: records logged, in order
    expected,  \* history: the bitmap records of 'written' when replay ran
    replayed,  \* update_bitmap calls replay made, in order
    phase      \* "logging", "finished", "replayed" (main()'s order)

vars == <<sb, cache, written, expected, replayed, phase>>

BlockIdx == 0 .. MaxLogBlocks - 1
EmptyBuffer == [magic |-> FALSE, bytes |-> 0, data |-> <<>>]
BitmapOp == [set : BOOLEAN, count : Byte, block : Seq(Byte)]
Logged == [kind : {"bitmap", "other"}, op : BitmapOp]

TypeOK ==
    /\ sb \in [lognext : 0 .. MaxLogBlocks, logbuf : BlockIdx \cup {NULL},
               posblk : BlockIdx \cup {NULL}, off : Nat, top : {0, LogData}]
    /\ \A i \in BlockIdx : cache[i].magic \in BOOLEAN /\ cache[i].bytes \in 0 .. LogData
                           /\ cache[i].data \in Seq(Byte)
    /\ written \in Seq(Logged) /\ expected \in Seq(BitmapOp)
    /\ replayed \in Seq(BitmapOp)
    /\ phase \in {"logging", "finished", "replayed"}

-----------------------------------------------------------------------------
(* Byte helpers. *)
WriteAt(data, off, bytes) ==
    [i \in 1 .. IF off + Len(bytes) > Len(data) THEN off + Len(bytes) ELSE Len(data) |->
        IF i > off /\ i <= off + Len(bytes) THEN bytes[i - off] ELSE data[i]]
ByteAt(data, i) == IF i \in 1 .. Len(data) THEN data[i] ELSE 0
BytesAt(data, i, n) == [k \in 1 .. n |-> ByteAt(data, i + k)]

(* log_next: blockget the next log block and point the cursor at its data. *)
log_next(s, c) ==
    <<[s EXCEPT !.logbuf = s.lognext, !.posblk = s.lognext, !.off = 0,
                !.top = LogData, !.lognext = s.lognext + 1], c>>

(* log_finish: header bytes = logpos - data, zero logpos .. logtop, brelse, *)
(* logbuf = NULL.  logpos and logtop are left as they are.                *)
(* Mutant: the byte count is not stored in the header. *)
log_finish_no_count(s, c) ==
    <<[s EXCEPT !.logbuf = NULL],
      [c EXCEPT ![s.logbuf].data = WriteAt(@, s.off, [i \in 1 .. s.top - s.off |-> 0])]>>

(* Mutant: the byte count taken from the start of the block, header     *)
(* (sizeof(struct logblock) = 4) included.                              *)
log_finish_counts_header(s, c) ==
    <<[s EXCEPT !.logbuf = NULL],
      [c EXCEPT ![s.logbuf].bytes = s.off + 4,
                ![s.logbuf].data = WriteAt(@, s.off, [i \in 1 .. s.top - s.off |-> 0])]>>

log_finish(s, c) ==
    <<[s EXCEPT !.logbuf = NULL],
      [c EXCEPT ![s.logbuf].bytes = s.off,
                ![s.logbuf].data = WriteAt(@, s.off, [i \in 1 .. s.top - s.off |-> 0])]>>

(* log_begin(bytes): when logpos + bytes > logtop, finish the current      *)
(* block if there is one, take the next and stamp its header.             *)
(* Mutant: only a full block makes log_begin move on. *)
LogBeginNeedsBlock_full_only(s, n) == s.off >= s.top

LogBeginNeedsBlock(s, n) == s.off + n > s.top

log_begin(s, c, n) ==
    IF LogBeginNeedsBlock(s, n)
    THEN LET f == IF s.logbuf # NULL THEN log_finish(s, c) ELSE <<s, c>>
             x == log_next(f[1], f[2])
         IN <<x[1], [x[2] EXCEPT ![x[1].logbuf] = [magic |-> TRUE, bytes |-> 0,
                                                   data |-> @.data]]>>
    ELSE <<s, c>>

(* log_begin(reserve); write the record at logpos; log_end(new logpos). *)
LogRecord(reserve, rec) ==
    LET b == log_begin(sb, cache, reserve) IN
       /\ LogBeginNeedsBlock(sb, reserve) => sb.lognext < MaxLogBlocks
       /\ sb' = [b[1] EXCEPT !.off = @ + Len(rec)]
       /\ cache' = [b[2] EXCEPT ![b[1].posblk].data = WriteAt(@, b[1].off, rec)]

CanLog ==
    /\ Len(written) < MaxRecords
    /\ MainOrder => phase = "logging"

Other == [kind |-> "other", op |-> [set |-> FALSE, count |-> 0, block |-> <<>>]]

log_alloc(block, count, alloc) ==
    /\ "alloc" \in Ops /\ CanLog
    /\ LogRecord(8, AllocRecord(block, count, alloc))
    /\ written' = Append(written, [kind |-> "bitmap",
                                   op |-> [set |-> alloc, count |-> count,
                                           block |-> encode48(block)]])
    /\ UNCHANGED <<expected, replayed, phase>>

log_update(child, parent, key) ==
    /\ "update" \in Ops /\ CanLog
    /\ LogRecord(19, UpdateRecord(child, parent, key))
    /\ written' = Append(written, Other)
    /\ UNCHANGED <<expected, replayed, phase>>

log_droot(newroot, oldroot, key) ==
    /\ "droot" \in Ops /\ CanLog
    /\ LogRecord(19, DrootRecord(newroot, oldroot, key))
    /\ written' = Append(written, Other)
    /\ UNCHANGED <<expected, replayed, phase>>

log_iroot(newroot, oldroot) ==
    /\ "iroot" \in Ops /\ CanLog
    /\ LogRecord(19, IrootRecord(newroot, oldroot))
    /\ written' = Append(written, Other)
    /\ UNCHANGED <<expected, replayed, phase>>

log_redirect(newblock, oldblock) ==
    /\ "redirect" \in Ops /\ CanLog
    /\ LogRecord(19, RedirectRecord(newblock, oldblock))
    /\ written' = Append(written, Other)
    /\ UNCHANGED <<expected, replayed, phase>>

(* The caller's log_finish (main() calls it once, before replay).  With   *)
(* logbuf NULL it would dereference NULL, so it is only taken with a      *)
(* current block.                                                         *)
Finish ==
    /\ sb.logbuf # NULL
    /\ MainOrder => phase = "logging"
    /\ LET f == log_finish(sb, cache) IN sb' = f[1] /\ cache' = f[2]
    /\ phase' = IF MainOrder THEN "finished" ELSE phase
    /\ UNCHANGED <<written, expected, replayed>>

-----------------------------------------------------------------------------
(* replay: decode one block's records up to its byte count.  ALLOC and    *)
(* FREE call update_bitmap; UPDATE is decoded and only traced; any other  *)
(* byte falls to 'default: break', which consumes the opcode byte only.   *)
RECURSIVE ReplayBlock(_, _, _)
ReplayBlock(data, i, end) ==
    IF i >= end THEN <<>>
    ELSE LET code == ByteAt(data, i + 1) IN
         CASE code \in {LOG_ALLOC, LOG_FREE} ->
                  <<[set |-> code = LOG_ALLOC, count |-> ByteAt(data, i + 2),
                     block |-> BytesAt(data, i + 2, 6)]>> \o ReplayBlock(data, i + 8, end)
           [] code = LOG_UPDATE -> ReplayBlock(data, i + 19, end)
           [] OTHER -> ReplayBlock(data, i + 1, end)

RECURSIVE ReplayBlocks(_, _)
ReplayBlocks(c, n) ==
    IF n = 0 THEN <<>> ELSE ReplayBlocks(c, n - 1) \o ReplayBlock(c[n - 1].data, 0, c[n - 1].bytes)

(* replay leaves the cursor where its last log_next put it. *)
ReplayCursor(s) ==
    IF s.lognext = 0 THEN s
    ELSE [s EXCEPT !.logbuf = s.lognext - 1, !.posblk = s.lognext - 1, !.off = 0,
                   !.top = LogData]

(* replay(): logblocks = lognext; log_next through blocks 0 .. logblocks-1 *)
(* applying each block's records.  main() runs it after log_finish.       *)
IsBitmap(r) == r.kind = "bitmap"

Replay ==
    /\ sb.logbuf = NULL
    /\ MainOrder => phase = "finished"
    /\ replayed' = ReplayBlocks(cache, sb.lognext)
    /\ expected' = [i \in 1 .. Len(SelectSeq(written, IsBitmap)) |->
                        SelectSeq(written, IsBitmap)[i].op]
    /\ sb' = ReplayCursor(sb)
    /\ phase' = "replayed"
    /\ UNCHANGED <<cache, written>>

(* main() exits after replay. *)
Exit ==
    /\ phase = "replayed"
    /\ UNCHANGED vars

Init ==
    /\ sb = [lognext |-> 0, logbuf |-> NULL, posblk |-> NULL, off |-> 0, top |-> 0]
    /\ cache = [i \in BlockIdx |-> EmptyBuffer]
    /\ written = <<>>
    /\ expected = <<>>
    /\ replayed = <<>>
    /\ phase = "logging"

Next ==
    \/ \E b \in BlockVals, n \in CountVals, a \in BOOLEAN : log_alloc(b, n, a)
    \/ \E x, y, z \in BlockVals : log_update(x, y, z) \/ log_droot(x, y, z)
    \/ \E x, y \in BlockVals : log_iroot(x, y) \/ log_redirect(x, y)
    \/ Finish
    \/ Replay
    \/ Exit

Spec == Init /\ [][Next]_vars

-----------------------------------------------------------------------------
(* Safety.                                                                  *)

(* Replay reproduces the bitmap journal: the update_bitmap calls replay    *)
(* makes are exactly the log_alloc records logged before it, in order,     *)
(* with their counts and blocks (spec 4.C, 6; replay in commit.c).         *)
ReplayMatchesLog ==
    phase = "replayed" => replayed = expected

(* log_begin reserves enough room for every record: the cursor never      *)
(* passes the end of the block (the assertion of log_finish).             *)
LogCursorInBlock ==
    sb.posblk # NULL => sb.off <= sb.top

=============================================================================
