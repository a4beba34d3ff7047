---------------------------- MODULE FairAllocator ----------------------------
(***************************************************************************)
(* The allocator of the DRAM buffer (DRAM-buffer/FairAllocator.cpp) and    *)
(* its only client loop, PageTableWalker::allocate_page.                   *)
(*                                                                         *)
(* A DRAM block is in the clean or the dirty pool of a process, or in one  *)
(* of the two global lists of reclaimable blocks.  A memory controller     *)
(* that caches a hot page runs allocate_page: it looks whether the buffer  *)
(* is nearly full WITHOUT pool_lock, evicts if so, then takes a block.     *)
(* The eviction reads the pool sizes without pool_lock too, so the store   *)
(* path of any core (convert_to_dirty) can run between the two reads.      *)
(* Each controller holds its own access_lock during the whole of this, so  *)
(* a controller is one thread of control.                                  *)
(***************************************************************************)
EXTENDS Integers, Sequences, FiniteSets, Functions

CONSTANTS TotalPages,    \* total_page_count
          NumProcs,      \* process_count
          MinFreePages,  \* min_free_pages
          Controllers    \* the NVMainMemory instances (sys.mem.controllers)

\* min_free_pages is at least 2<<17 bytes, hence at least one page; a
\* configuration must keep the reserve below half of the buffer.
ASSUME PagesAssumption == TotalPages \in Nat /\ TotalPages >= 2
ASSUME ProcsAssumption == NumProcs \in Nat \ {0}
ASSUME MinFreeAssumption == /\ MinFreePages \in Nat \ {0}
                            /\ 2 * (MinFreePages - 1) < TotalPages

Blocks == 0 .. TotalPages - 1
Procs == 0 .. NumProcs - 1

VARIABLES busy_pages,         \* pages in the pools of processes
          clean_pools,        \* per process, a set
          dirty_pools,        \* per process, a set
          global_clean_pool,  \* list
          global_dirty_pool,  \* list
          pc,                 \* where each controller is in allocate_page
          proc,               \* the walker's procIdx, per controller
          reclaim_pages,      \* local of equal_evict
          i,                  \* loop index of equal_evict
          first_size,         \* the pool size equal_evict has read first
          release_size,       \* argument of Release
          otherCores          \* configuration: TRUE when cores that are not
                              \* inside a controller run while one is; FALSE
                              \* when the machine has one core

pools == <<busy_pages, clean_pools, dirty_pools, global_clean_pool, global_dirty_pool>>
locals == <<proc, reclaim_pages, i, first_size, release_size>>
vars == <<pools, pc, locals, otherCores>>

PCs == {"idle", "evict", "loop", "second", "release", "alloc"}

Free == TotalPages - busy_pages

should_reclaim == Free = 1

GoTo(c, l) == pc' = [pc EXCEPT ![c] = l]

-----------------------------------------------------------------------------
Init ==
    /\ busy_pages = 0
    /\ clean_pools = [p \in Procs |-> {}]
    /\ dirty_pools = [p \in Procs |-> {}]
    /\ global_clean_pool = [k \in 1 .. TotalPages |-> k - 1]
    /\ global_dirty_pool = <<>>
    /\ pc = [c \in Controllers |-> "idle"]
    /\ proc = [c \in Controllers |-> 0]
    /\ reclaim_pages = [c \in Controllers |-> 0]
    /\ i = [c \in Controllers |-> 0]
    /\ first_size = [c \in Controllers |-> [dirty |-> FALSE, size |-> 0]]
    /\ release_size = [c \in Controllers |-> 0]
    /\ otherCores \in BOOLEAN

\* Mutant: the reserve is never tested.
allocate_page_no_reclaim(c, p) ==
    /\ pc[c] = "idle"
    /\ proc' = [proc EXCEPT ![c] = p]
    /\ GoTo(c, "alloc")
    /\ UNCHANGED <<pools, reclaim_pages, i, first_size, release_size>>

\* PageTableWalker::allocate_page up to the unlocked test of should_reclaim.
allocate_page(c, p) ==
    /\ pc[c] = "idle"
    /\ proc' = [proc EXCEPT ![c] = p]
    /\ GoTo(c, IF should_reclaim THEN "evict" ELSE "alloc")
    /\ UNCHANGED <<pools, reclaim_pages, i, first_size, release_size>>

\* evict asserts should_reclaim again and enters equal_evict.
evict(c) ==
    /\ pc[c] = "evict"
    /\ should_reclaim
    /\ reclaim_pages' = [reclaim_pages EXCEPT ![c] = MinFreePages - Free]
    /\ i' = [i EXCEPT ![c] = 0]
    /\ GoTo(c, "loop")
    /\ UNCHANGED <<pools, proc, first_size, release_size>>

\* clean_pools[i].size() + dirty_pools[i].size(): two reads without the
\* lock, in an order the language leaves open.
read_first_size(c) ==
    /\ pc[c] = "loop"
    /\ i[c] < NumProcs
    /\ \/ first_size' = [first_size EXCEPT ![c] =
                            [dirty |-> FALSE, size |-> Cardinality(clean_pools[i[c]])]]
       \/ first_size' = [first_size EXCEPT ![c] =
                            [dirty |-> TRUE, size |-> Cardinality(dirty_pools[i[c]])]]
    /\ GoTo(c, "second")
    /\ UNCHANGED <<pools, proc, reclaim_pages, i, release_size>>

\* Mutant: the share is rounded up twice.
ReleaseSizes_up(busy, reclaim) == {(busy * reclaim) \div TotalPages + 2}

\* (int)(rate*reclaim_pages)+1 in doubles: when the exact product is a whole
\* number, rounding may leave it just below that number.
ReleaseSizes(busy, reclaim) ==
    LET exact == (busy * reclaim) \div TotalPages
    IN  {exact + 1} \cup
        (IF exact > 0 /\ (busy * reclaim) % TotalPages = 0 THEN {exact} ELSE {})

\* Mutant: a process without pages does not advance the loop.
read_second_size_stuck(c) ==
    LET p == i[c]
        second == IF first_size[c].dirty THEN clean_pools[p] ELSE dirty_pools[p]
        busy == first_size[c].size + Cardinality(second)
    IN  /\ pc[c] = "second"
        /\ \/ /\ busy = 0
              /\ GoTo(c, "loop")
              /\ UNCHANGED release_size
           \/ /\ busy > 0
              /\ \E r \in ReleaseSizes(busy, reclaim_pages[c]) :
                    release_size' = [release_size EXCEPT ![c] = r]
              /\ GoTo(c, "release")
        /\ UNCHANGED <<pools, proc, reclaim_pages, i, first_size>>


read_second_size(c) ==
    LET p == i[c]
        second == IF first_size[c].dirty THEN clean_pools[p] ELSE dirty_pools[p]
        busy == first_size[c].size + Cardinality(second)
    IN  /\ pc[c] = "second"
        /\ \/ /\ busy = 0
              /\ i' = [i EXCEPT ![c] = p + 1]
              /\ GoTo(c, "loop")
              /\ UNCHANGED release_size
           \/ /\ busy > 0
              /\ \E r \in ReleaseSizes(busy, reclaim_pages[c]) :
                    release_size' = [release_size EXCEPT ![c] = r]
              /\ GoTo(c, "release")
              /\ UNCHANGED i
        /\ UNCHANGED <<pools, proc, reclaim_pages, first_size>>

\* The blocks begin() of an unordered_set yields, n times: any n of them in
\* any order.
Victims(pool, n) == Injection(1 .. n, pool)

Smaller(a, b) == IF a < b THEN a ELSE b

\* Release(i, release_size), in one critical section of pool_lock: clean
\* blocks first, then dirty ones; the assertions of its beginning and of its
\* end are conjuncts, the program stops where they fail.
Release(c) ==
    LET p == i[c]
        nclean == Smaller(release_size[c], Cardinality(clean_pools[p]))
        ndirty == release_size[c] - nclean
    IN  /\ pc[c] = "release"
        /\ ndirty <= Cardinality(dirty_pools[p])
        /\ \E vc \in Victims(clean_pools[p], nclean), vd \in Victims(dirty_pools[p], ndirty) :
              /\ clean_pools' = [clean_pools EXCEPT ![p] = @ \ Range(vc)]
              /\ dirty_pools' = [dirty_pools EXCEPT ![p] = @ \ Range(vd)]
              /\ global_clean_pool' = global_clean_pool \o vc
              /\ global_dirty_pool' = global_dirty_pool \o vd
        /\ busy_pages' = busy_pages - release_size[c]
        /\ ~ should_reclaim'
        /\ i' = [i EXCEPT ![c] = p + 1]
        /\ GoTo(c, "loop")
        /\ UNCHANGED <<proc, reclaim_pages, first_size, release_size>>

end_evict(c) ==
    /\ pc[c] = "loop"
    /\ i[c] = NumProcs
    /\ GoTo(c, "alloc")
    /\ UNCHANGED <<pools, locals>>

\* allocate_one_page, in one critical section: a block of the global clean
\* list, else of the dirty one; it always enters the CLEAN pool.
allocate_one_page(c) ==
    /\ pc[c] = "alloc"
    /\ \/ /\ global_clean_pool # <<>>
          /\ clean_pools' = [clean_pools EXCEPT ![proc[c]] = @ \cup {Head(global_clean_pool)}]
          /\ global_clean_pool' = Tail(global_clean_pool)
          /\ UNCHANGED global_dirty_pool
       \/ /\ global_clean_pool = <<>>
          /\ global_dirty_pool # <<>>
          /\ clean_pools' = [clean_pools EXCEPT ![proc[c]] = @ \cup {Head(global_dirty_pool)}]
          /\ global_dirty_pool' = Tail(global_dirty_pool)
          /\ UNCHANGED global_clean_pool
    /\ busy_pages' = busy_pages + 1
    /\ GoTo(c, "idle")
    /\ UNCHANGED <<dirty_pools, locals>>

\* Mutant: the block stays in the clean pool.
convert_to_dirty_copy(p, b) ==
    /\ otherCores \/ \A c \in Controllers : pc[c] = "idle"
    /\ b \in clean_pools[p]
    /\ dirty_pools' = [dirty_pools EXCEPT ![p] = @ \cup {b}]
    /\ UNCHANGED <<busy_pages, clean_pools, global_clean_pool, global_dirty_pool, pc, locals, otherCores>>

\* convert_to_dirty(p, b) from a store that hits a clean TLB entry of a DRAM
\* page; a block that is not in the clean pool of p is left alone.
convert_to_dirty(p, b) ==
    /\ otherCores \/ \A c \in Controllers : pc[c] = "idle"
    /\ b \in clean_pools[p]
    /\ clean_pools' = [clean_pools EXCEPT ![p] = @ \ {b}]
    /\ dirty_pools' = [dirty_pools EXCEPT ![p] = @ \cup {b}]
    /\ UNCHANGED <<busy_pages, global_clean_pool, global_dirty_pool, pc, locals, otherCores>>

Controller(c) ==
    /\ \/ \E p \in Procs : allocate_page(c, p)
       \/ evict(c)
       \/ read_first_size(c)
       \/ read_second_size(c)
       \/ Release(c)
       \/ end_evict(c)
       \/ allocate_one_page(c)
    /\ UNCHANGED otherCores

Next ==
    \/ \E c \in Controllers : Controller(c)
    \/ \E p \in Procs, b \in Blocks : convert_to_dirty(p, b)

Spec == Init /\ [][Next]_vars

\* A controller inside allocate_page keeps running: its thread is only ever
\* blocked on pool_lock, whose critical sections are the atomic steps above.
Fairness == \A c \in Controllers : WF_vars(pc[c] # "idle" /\ Controller(c))

FairSpec == Spec /\ Fairness

-----------------------------------------------------------------------------
TypeOK ==
    /\ busy_pages \in 0 .. TotalPages
    /\ clean_pools \in [Procs -> SUBSET Blocks]
    /\ dirty_pools \in [Procs -> SUBSET Blocks]
    /\ global_clean_pool \in Seq(Blocks)
    /\ global_dirty_pool \in Seq(Blocks)
    /\ pc \in [Controllers -> PCs]
    /\ proc \in [Controllers -> Procs]
    /\ reclaim_pages \in [Controllers -> Nat]
    /\ i \in [Controllers -> 0 .. NumProcs]
    /\ first_size \in [Controllers -> [dirty : BOOLEAN, size : Nat]]
    /\ release_size \in [Controllers -> Nat]

\* No block is lost, listed twice or owned twice: the two global lists hold
\* each of their blocks once, the pools and lists are disjoint, together
\* they hold every block, and busy_pages is the number of blocks that are
\* not in a global list (Release and allocate_one_page adjust it by hand).
PoolsPartitionBlocks ==
    LET gc == Range(global_clean_pool)
        gd == Range(global_dirty_pool)
        used(p) == clean_pools[p] \cup dirty_pools[p]
    IN  /\ IsInjective(global_clean_pool)
        /\ IsInjective(global_dirty_pool)
        /\ gc \cap gd = {}
        /\ \A p \in Procs : /\ clean_pools[p] \cap dirty_pools[p] = {}
                            /\ used(p) \cap (gc \cup gd) = {}
                            /\ \A q \in Procs \ {p} : used(p) \cap used(q) = {}
        /\ gc \cup gd \cup UNION {used(p) : p \in Procs} = Blocks
        /\ busy_pages = TotalPages - Len(global_clean_pool) - Len(global_dirty_pool)

\* The eviction that should_reclaim called for is still needed when evict
\* looks again (its assertion).
EvictStillNeeded ==
    \A c \in Controllers : pc[c] = "evict" => should_reclaim

\* Release never asks a process for more blocks than it owns (the assertion
\* at its beginning), although release_size comes from sizes read without
\* the lock, between which a store may move a block from clean to dirty.
ReleaseIsCovered ==
    \A c \in Controllers : pc[c] = "release" =>
        release_size[c] <= Cardinality(clean_pools[i[c]]) + Cardinality(dirty_pools[i[c]])

\* Release leaves the buffer out of the should_reclaim state (the assertion
\* at its end).
ReleaseLeavesReclaim ==
    \A c \in Controllers : pc[c] = "release" => Free + release_size[c] # 1

\* The three assertions of an eviction together: stale sizes and a stale
\* should_reclaim never make evict or Release stop the program.
EvictionAssertionsHold ==
    EvictStillNeeded /\ ReleaseIsCovered /\ ReleaseLeavesReclaim

\* With one core allocate_one_page always finds a block (its assertion): an
\* eviction that was called for, process by process with rounded shares, has
\* freed one.
AllocationFindsBlock ==
    ~ otherCores => \A c \in Controllers : pc[c] = "alloc" => Len(global_clean_pool) + Len(global_dirty_pool) > 0

\* With one core the buffer never becomes completely full between two allocations: a full
\* buffer is never reclaimed again, because should_reclaim tests for exactly
\* one free page.
OnePageInReserve ==
    ~ otherCores /\ (\A c \in Controllers : pc[c] = "idle") => Free >= 1

\* With one core an allocation that has started is answered: eviction
\* terminates and leaves a block for it.
AllocationTerminates ==
    \A c \in Controllers : ~ otherCores /\ pc[c] # "idle" ~> pc[c] = "idle"
=============================================================================
