------------------------------- MODULE Defree -------------------------------
(***************************************************************************)
(* The deferred-free list of src/user/kernel/log.c.                        *)
(*                                                                         *)
(* defer_free appends an extent at sb->defreepos, taking a fresh page from *)
(* alloc_page and linking it on sb->defree when defreepos reaches          *)
(* defreetop.  retire_defree walks the linked pages, calling bfree on      *)
(* each extent from the page start up to sb->defreepos, and unlinks and    *)
(* frees the page.  destroy_defree frees the pages without bfree.          *)
(*                                                                         *)
(* A page is an address of Addrs; defreepos is slot 'idx' of page 'cur'    *)
(* (cur = 0 is NULL) and defreetop is the end of page cur.  Pointer order  *)
(* between pages is the order of their addresses, which alloc_page picks   *)
(* freely.  Memory keeps its contents when a page is freed: a page handed  *)
(* out again still holds what was written in it.                           *)
(***************************************************************************)
EXTENDS Naturals, FiniteSets, Sequences

CONSTANTS
    Extents,    \* extent_t values defer_free is called with
    Garbage,    \* what a slot never written holds
    PerPage,    \* PAGE_SIZE / sizeof(extent_t)
    Addrs,      \* page addresses alloc_page may return (1 .. N, in page units)
    MaxLinked,  \* bound: pages on the list at once
    MaxDefer    \* bound: defer_free calls in a behaviour

ASSUME Garbage \notin Extents
ASSUME PerPage \in Nat \ {0}
ASSUME Addrs = 1 .. Cardinality(Addrs)

Slot == Extents \cup {Garbage}

VARIABLES
    mem,       \* mem[a][k]: slot k of the page at address a
    linked,    \* addresses of the pages on sb->defree
    cur,       \* the page holding defreepos and defreetop (0: both NULL)
    idx,       \* defreepos = page cur + idx slots
    deferred,  \* history: extents given to defer_free, in order
    freed,     \* history: bfree calls of retire_defree, in order
    dropped,   \* history: extents on pages destroy_defree freed unretired
    phase      \* "live" until destroy_defree

vars == <<mem, linked, cur, idx, deferred, freed, dropped, phase>>

TypeOK ==
    /\ mem \in [Addrs -> [1 .. PerPage -> Slot]]
    /\ linked \subseteq Addrs
    /\ cur \in Addrs \cup {0}
    /\ idx \in 0 .. PerPage
    /\ deferred \in Seq(Extents) /\ freed \in Seq(Slot) /\ dropped \in Seq(Slot)
    /\ phase \in {"live", "destroyed"}

-----------------------------------------------------------------------------
(* sb->defreepos == sb->defreetop: both NULL, or the page is full. *)
(* Mutant: a new page only when there is none; a full page overflows. *)
AtTop_null_only == cur = 0

AtTop == cur = 0 \/ idx = PerPage

(* The slots of pages lo .. hi-1 and the first n slots of page hi, as a   *)
(* pointer walking up from page lo reads them.                             *)
Walk(lo, hi, n) ==
    LET whole == [k \in 1 .. (hi - lo) * PerPage |->
                    mem[lo + (k - 1) \div PerPage][((k - 1) % PerPage) + 1]]
    IN whole \o [k \in 1 .. n |-> mem[hi][k]]

(* The loop 'for (vec = page_address(page); vec < sb->defreepos; vec++)'  *)
(* for the page at address a: nothing when a lies above defreepos' page.  *)
PageReads(a) == IF a > cur THEN <<>> ELSE Walk(a, cur, idx)

(* The extents a correct walk would find on the list: every linked page    *)
(* is full except cur, which holds idx.                                     *)
OnList ==
    LET full == {a \in linked : a # cur} IN
    [k \in 1 .. Cardinality(full) * PerPage |->
        LET a == CHOOSE x \in full :
                   Cardinality({y \in full : y < x}) = (k - 1) \div PerPage
        IN mem[a][((k - 1) % PerPage) + 1]]
    \o (IF cur \in linked THEN [k \in 1 .. idx |-> mem[cur][k]] ELSE <<>>)

(* Concatenation of PageReads over the linked pages, lowest address first. *)
RECURSIVE ReadAll(_)
ReadAll(S) ==
    IF S = {} THEN <<>>
    ELSE LET a == CHOOSE x \in S : \A y \in S : x <= y
         IN PageReads(a) \o ReadAll(S \ {a})

-----------------------------------------------------------------------------
(* init_defree: empty list, defreepos = defreetop = NULL. *)
Init ==
    /\ mem = [a \in Addrs |-> [k \in 1 .. PerPage |-> Garbage]]
    /\ linked = {}
    /\ cur = 0
    /\ idx = 0
    /\ deferred = <<>> /\ freed = <<>> /\ dropped = <<>>
    /\ phase = "live"

(* defer_free(block, count): at defreetop, alloc_page and link it; store   *)
(* the extent at defreepos++.                                              *)
defer_free(e) ==
    /\ phase = "live"
    /\ Len(deferred) < MaxDefer
    /\ deferred' = Append(deferred, e)
    /\ IF AtTop
          THEN /\ Cardinality(linked) < MaxLinked
               /\ \E a \in Addrs \ linked :
                     /\ linked' = linked \cup {a}
                     /\ cur' = a
                     /\ idx' = 1
                     /\ mem' = [mem EXCEPT ![a][1] = e]
          ELSE /\ mem' = [mem EXCEPT ![cur][idx + 1] = e]
               /\ idx' = idx + 1
               /\ UNCHANGED <<linked, cur>>
    /\ UNCHANGED <<freed, dropped, phase>>

(* retire_defree: bfree every extent each linked page's walk reads, free  *)
(* the pages, then defreepos = defreetop = NULL.                           *)
(* Mutant: defreepos and defreetop are left pointing into the freed page. *)
retire_defree_no_reset ==
    /\ phase = "live"
    /\ linked # {}
    /\ freed' = freed \o ReadAll(linked)
    /\ linked' = {}
    /\ UNCHANGED <<mem, cur, idx, deferred, dropped, phase>>

retire_defree ==
    /\ phase = "live"
    /\ linked # {}
    /\ freed' = freed \o ReadAll(linked)
    /\ linked' = {}
    /\ cur' = 0
    /\ idx' = 0
    /\ UNCHANGED <<mem, deferred, dropped, phase>>

(* destroy_defree: warn if the list is not empty, free its pages without  *)
(* bfree; defreepos and defreetop are not touched.                         *)
destroy_defree ==
    /\ phase = "live"
    /\ dropped' = OnList
    /\ linked' = {}
    /\ phase' = "destroyed"
    /\ UNCHANGED <<mem, cur, idx, deferred, freed>>

(* The filesystem is torn down. *)
Exit ==
    /\ phase = "destroyed"
    /\ UNCHANGED vars

Next ==
    \/ \E e \in Extents : defer_free(e)
    \/ retire_defree
    \/ destroy_defree
    \/ Exit

Spec == Init /\ [][Next]_vars

-----------------------------------------------------------------------------
Count(s, x) == Cardinality({k \in 1 .. Len(s) : s[k] = x})

(* Every extent given to defer_free is, at every moment, either still on  *)
(* the list, bfree'd exactly once by retire_defree, or dropped by          *)
(* destroy_defree; retire_defree never bfrees an extent twice, skips one,  *)
(* or bfrees memory that holds no deferred extent.                         *)
DeferredFreedOnce ==
    \A x \in Slot :
        Count(freed, x) + Count(OnList, x) + Count(dropped, x) = Count(deferred, x)

=============================================================================
