------------------------------ MODULE HotPages ------------------------------
(***************************************************************************)
(* Software-managed caching of hot NVM pages in DRAM (hot_monitor_tlb.h,   *)
(* page_table_walker.h, the filter of nvmain_mem_ctrl.cpp) without shared  *)
(* memory: TLBs that count the memory accesses of NVM pages, page tables   *)
(* per process, and DRAM blocks that cache pages.  A page whose count      *)
(* reaches the threshold is moved to a DRAM block; the page that was in    *)
(* the block is evicted at that time.                                      *)
(*                                                                         *)
(* A walk and the insertion of its result are two steps, and so are the    *)
(* parts of a caching operation, which runs under the lock of the memory   *)
(* controller.  Replacement in a TLB, and the block the DRAM manager       *)
(* returns, are any choice (FairAllocator models the manager).             *)
(***************************************************************************)
EXTENDS Integers, FiniteSets, TLC

CONSTANTS
    Cores, Kinds,       \* each core has one TLB of each kind
    Procs, ProcOf,      \* the process that runs on a core
    Vpns, Frames, Blocks,
    TlbSize, Threshold

ASSUME HotPagesAssumption ==
    /\ ProcOf \in [Cores -> Procs]
    /\ TlbSize \in Nat \ {0} /\ Threshold \in Nat
    /\ Frames \cap Blocks = {}

VARIABLES
    pt,         \* per process: page table, Unmapped, a frame or a block
    used,       \* frames that were allocated
    tlb,        \* per TLB: the resident entries by virtual page
    pa,         \* per TLB: tlb_trie_pa, the entry's page by physical page
    walk,       \* per core: the TLB miss in progress, or Idle
    block,      \* per DRAM block
    mc,         \* the caching operation in progress, or Idle
    lines,      \* physical pages with a dirty line in a cache
    written,    \* blocks written since a page was installed in them
    dropped     \* a written block was reused without a write-back

vars == <<pt, used, tlb, pa, walk, block, mc, lines, written, dropped>>

Unmapped == "unmapped"
ASSUME UnmappedAssumption == Unmapped \notin Frames \cup Blocks
Idle == [at |-> "idle"]
Tlbs == Cores \X Kinds
Free == [occ |-> FALSE, dirty |-> FALSE]

EntryOf(ppn, dram, dirty) == [ppn |-> ppn, dram |-> dram, dirty |-> dirty, cnt |-> 0]

\* remap: a new physical page, the counter restarts, the entry is clean.
remap(ppn, dram) == EntryOf(ppn, dram, FALSE)

set_invalid(e) == [e EXCEPT !.dram = FALSE, !.dirty = FALSE]

\* A function without, or with another value for, some argument.
Without(f, x) == [y \in DOMAIN f \ {x} |-> f[y]]
With(f, x, v) == [y \in DOMAIN f \cup {x} |-> IF y = x THEN v ELSE f[y]]

Init ==
    /\ pt = [p \in Procs |-> [v \in Vpns |-> Unmapped]]
    /\ used = {}
    /\ tlb = [t \in Tlbs |-> <<>>]
    /\ pa = [t \in Tlbs |-> <<>>]
    /\ walk = [c \in Cores |-> Idle]
    /\ block = [b \in Blocks |-> Free]
    /\ mc = Idle
    /\ lines = {} /\ written = {} /\ dropped = FALSE

-----------------------------------------------------------------------------
\* Address translation.

Runs(c) == walk[c].at = "idle" /\ (mc.at # "idle" => mc.core # c)

\* The access that follows the translation.
access_cache(ppn, write) ==
    /\ lines' = IF write THEN lines \cup {ppn} ELSE lines
    /\ written' = IF write /\ ppn \in Blocks THEN written \cup {ppn} ELSE written

convert_to_dirty(b) == block' = [block EXCEPT ![b].dirty = TRUE]

\* A hit; the first store to a DRAM page marks the entry, the page table and
\* the block.
tlb_hit(c, k, v, write) ==
    LET t == <<c, k>>
        e == tlb[t][v]
    IN  /\ Runs(c) /\ v \in DOMAIN tlb[t]
        /\ IF write /\ ~ e.dirty /\ e.dram
           THEN tlb' = [tlb EXCEPT ![t][v].dirty = TRUE] /\ convert_to_dirty(e.ppn)
           ELSE UNCHANGED <<tlb, block>>
        /\ access_cache(e.ppn, write)
        /\ UNCHANGED <<pt, used, pa, walk, mc, dropped>>

\* A miss that finds the page in the page table.
page_walk(c, k, v, write) ==
    LET ppn == pt[ProcOf[c]][v]
    IN  /\ Runs(c) /\ v \notin DOMAIN tlb[<<c, k>>]
        /\ ppn # Unmapped
        /\ walk' = [walk EXCEPT ![c] = [at |-> "insert", kind |-> k, v |-> v, ppn |-> ppn, write |-> write]]
        /\ UNCHANGED <<pt, used, tlb, pa, block, mc, lines, written, dropped>>

page_walk_fault(c, k, v, write) ==
    /\ Runs(c) /\ v \notin DOMAIN tlb[<<c, k>>]
    /\ pt[ProcOf[c]][v] = Unmapped
    /\ walk' = [walk EXCEPT ![c] = [at |-> "fault", kind |-> k, v |-> v, write |-> write]]
    /\ UNCHANGED <<pt, used, tlb, pa, block, mc, lines, written, dropped>>

\* A frame is allocated, the entries of the virtual page in all TLBs are
\* marked invalid (they stay resident), and the page is mapped.
do_page_fault(c) ==
    LET w == walk[c]
    IN  /\ w.at = "fault"
        /\ \E f \in Frames \ used :
              /\ used' = used \cup {f}
              /\ tlb' = [t \in Tlbs |->
                           IF w.v \in DOMAIN tlb[t] THEN [tlb[t] EXCEPT ![w.v] = set_invalid(@)] ELSE tlb[t]]
              /\ pt' = [pt EXCEPT ![ProcOf[c]][w.v] = f]
              /\ walk' = [walk EXCEPT ![c] = [at |-> "insert", kind |-> w.kind, v |-> w.v, ppn |-> f, write |-> w.write]]
        /\ UNCHANGED <<pa, block, mc, lines, written, dropped>>

\* Mutant: an evicted entry stays in the map by physical page.
insert_stale(t, v, ppn, victims) ==
    /\ tlb' = [tlb EXCEPT ![t] = With([y \in DOMAIN tlb[t] \ victims |-> tlb[t][y]], v, EntryOf(ppn, ppn \in Blocks, FALSE))]
    /\ pa' = [pa EXCEPT ![t] = With(@, ppn, v)]

\* A full TLB evicts an entry first.
insert(t, v, ppn, victims) ==
    /\ tlb' = [tlb EXCEPT ![t] = With([y \in DOMAIN tlb[t] \ victims |-> tlb[t][y]], v, EntryOf(ppn, ppn \in Blocks, FALSE))]
    /\ pa' = [pa EXCEPT ![t] = With([p \in DOMAIN pa[t] \ {tlb[t][y].ppn : y \in victims} |-> pa[t][p]], ppn, v)]

tlb_insert(c) ==
    LET w == walk[c]
        t == <<c, w.kind>>
    IN  /\ w.at = "insert"
        /\ \E victims \in SUBSET DOMAIN tlb[t] :
              /\ Cardinality(victims) = IF Cardinality(DOMAIN tlb[t]) < TlbSize THEN 0 ELSE 1
              /\ insert(t, w.v, w.ppn, victims)
        /\ walk' = [walk EXCEPT ![c] = Idle]
        /\ access_cache(w.ppn, w.write)
        /\ UNCHANGED <<pt, used, block, mc, dropped>>

-----------------------------------------------------------------------------
\* Memory accesses and caching.

\* The TLB of the core that has an entry of the physical page, the
\* instruction TLB first.
LookupTlb(c, p) ==
    {t \in {<<c, k>> : k \in Kinds} :
        /\ p \in DOMAIN pa[t]
        /\ t[2] = "d" => \A k \in Kinds \ {"d"} : p \notin DOMAIN pa[<<c, k>>]}

\* A dirty line of a DRAM page, or of a page no TLB of the core knows, is
\* written back.
writeback_uncounted(c, p) ==
    /\ mc = Idle /\ Runs(c) /\ p \in lines
    /\ p \in Blocks \/ LookupTlb(c, p) = {}
    /\ lines' = lines \ {p}
    /\ UNCHANGED <<pt, used, tlb, pa, walk, block, mc, written, dropped>>

\* A memory access of an NVM page that has an entry counts; a write counts twice.
access_counted(c, p, write) ==
    /\ mc = Idle /\ Runs(c) /\ p \in Frames
    /\ write => p \in lines
    /\ lines' = IF write THEN lines \ {p} ELSE lines
    /\ \E t \in LookupTlb(c, p) :
          LET v == pa[t][p]
              e == tlb[t][v]
              cnt == e.cnt + (IF write THEN 2 ELSE 1)
          IN  IF e.dram
              THEN UNCHANGED <<tlb, mc>>
              ELSE /\ tlb' = [tlb EXCEPT ![t][v].cnt = IF cnt >= Threshold THEN Threshold ELSE cnt]
                   /\ mc' = IF cnt < Threshold THEN mc
                            ELSE [at |-> "allocate", core |-> c, t |-> t, v |-> v, p |-> p]
    /\ UNCHANGED <<pt, used, pa, walk, block, written, dropped>>

\* Mutant: only the TLB of the core that caches the page is remapped.
tlb_shootdown_local(v, ppn, dram) ==
    LET hit == {t \in Tlbs : t = mc.t /\ v \in DOMAIN tlb[t]}
    IN  /\ tlb' = [t \in Tlbs |-> IF t \in hit THEN [tlb[t] EXCEPT ![v] = remap(ppn, dram)] ELSE tlb[t]]
        /\ pa' = [t \in Tlbs |-> IF t \in hit THEN With(Without(pa[t], tlb[t][v].ppn), ppn, v) ELSE pa[t]]

\* The TLB entries of a virtual page, of whatever process, are remapped.
tlb_shootdown_hscc(v, ppn, dram) ==
    LET hit == {t \in Tlbs : v \in DOMAIN tlb[t]}
    IN  /\ tlb' = [t \in Tlbs |-> IF t \in hit THEN [tlb[t] EXCEPT ![v] = remap(ppn, dram)] ELSE tlb[t]]
        /\ pa' = [t \in Tlbs |-> IF t \in hit THEN With(Without(pa[t], tlb[t][v].ppn), ppn, v) ELSE pa[t]]

\* The page's lines are flushed.  The lines of the page that is in the block
\* are flushed too, and its TLB entries go back to the frame.  The flush finds
\* a dirty line only in the core's filter array, so it may miss some.
allocate_block ==
    /\ mc.at = "allocate"
    /\ \E b \in Blocks, found \in SUBSET lines :
          /\ found \subseteq (IF block[b].occ THEN {mc.p, b} ELSE {mc.p})
          /\ block[b].occ => \A o \in Blocks : block[o].occ
          /\ mc' = [at |-> "map", core |-> mc.core, t |-> mc.t, v |-> mc.v, p |-> mc.p, b |-> b]
          /\ lines' = lines \ found
          /\ IF block[b].occ
             THEN /\ block' = [block EXCEPT ![b].dirty = @ \/ b \in found]
                  /\ tlb_shootdown_hscc(block[b].v, block[b].src, FALSE)
             ELSE UNCHANGED <<block, tlb, pa>>
    /\ UNCHANGED <<pt, used, walk, written, dropped>>

\* The DRAM manager has no block to give.
allocate_none ==
    /\ mc.at = "allocate"
    /\ mc' = Idle
    /\ UNCHANGED <<pt, used, tlb, pa, walk, block, lines, written, dropped>>

\* Mutant: the page table entry of the evicted page is left.
unmap_victim_not(p, b) == pt[p]

\* The evicted page is mapped to its frame again, in the page table of the
\* process that caches the new page.
unmap_victim(p, b) == IF block[b].occ THEN [pt[p] EXCEPT ![block[b].v] = block[b].src] ELSE pt[p]

\* Write-back of a dirty block, then the new page.
evict_and_fetch ==
    LET b == mc.b
        p == ProcOf[mc.core]
        e == tlb[mc.t][mc.v]
    IN  /\ mc.at = "map"
        /\ dropped' = (dropped \/ (block[b].occ /\ ~ block[b].dirty /\ b \in written))
        /\ written' = written \ {b}
        /\ pt' = [pt EXCEPT ![p] = [unmap_victim(p, b) EXCEPT ![mc.v] = b]]
        /\ block' = [block EXCEPT ![b] = [occ |-> TRUE, dirty |-> FALSE, src |-> e.ppn, v |-> mc.v]]
        /\ mc' = [mc EXCEPT !.at = "install"]
        /\ UNCHANGED <<used, tlb, pa, walk, lines>>

install ==
    /\ mc.at = "install"
    /\ tlb_shootdown_hscc(mc.v, mc.b, TRUE)
    /\ mc' = Idle
    /\ UNCHANGED <<pt, used, walk, block, lines, written, dropped>>

Next ==
    \/ \E c \in Cores, k \in Kinds, v \in Vpns :
        \E write \in IF k = "d" THEN BOOLEAN ELSE {FALSE} :
          \/ tlb_hit(c, k, v, write)
          \/ page_walk(c, k, v, write)
          \/ page_walk_fault(c, k, v, write)
    \/ \E c \in Cores : do_page_fault(c) \/ tlb_insert(c)
    \/ \E c \in Cores, p \in Frames \cup Blocks, write \in BOOLEAN :
          writeback_uncounted(c, p) \/ access_counted(c, p, write)
    \/ allocate_block \/ allocate_none \/ evict_and_fetch \/ install

Spec == Init /\ [][Next]_vars

-----------------------------------------------------------------------------
\* Every resident TLB entry translates as the page table of the core's
\* process does, and knows whether the page is in DRAM: the shootdowns of a
\* caching operation leave no stale translation.
TranslationAgrees ==
    mc = Idle => \A t \in Tlbs : \A v \in DOMAIN tlb[t] :
        LET e == tlb[t][v] IN e.ppn = pt[ProcOf[t[1]]][v] /\ (e.dram <=> e.ppn \in Blocks)

\* The map by physical page finds every resident entry, and nothing else, so
\* that every access of a page is counted.
MonitorFinds ==
    \A t \in Tlbs :
        /\ \A v \in DOMAIN tlb[t] : tlb[t][v].ppn \in DOMAIN pa[t] /\ pa[t][tlb[t][v].ppn] = v
        /\ \A p \in DOMAIN pa[t] : pa[t][p] \in DOMAIN tlb[t] /\ tlb[t][pa[t][p]].ppn = p

\* An occupied block is mapped by exactly one page, the one it records, and a
\* free block by none: eviction and installation leave the page tables and
\* the blocks in agreement.
BlocksMapped ==
    mc = Idle => \A b \in Blocks :
        LET mappings == {m \in Procs \X Vpns : pt[m[1]][m[2]] = b}
        IN  IF block[b].occ
            THEN Cardinality(mappings) = 1 /\ \A m \in mappings : m[2] = block[b].v
            ELSE mappings = {}

\* No block is reused with data that was written to it and not written back
\* ("write back dirty DRAM pages to NVM").
NoWriteDropped == ~ dropped
=============================================================================
