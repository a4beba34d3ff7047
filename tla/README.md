# A TLA+ model of SHMA

SHMA is a simulator for hybrid DRAM/NVM memory: zsim (a Pin-based multicore
simulator that alternates a *bound* phase, in which cores run freely for a few
thousand cycles, with a *weave* phase, which simulates the recorded events with
contention), NVMain (a cycle-level memory simulator) and what SHMA adds to them:
page tables, TLBs that count accesses to NVM pages, and a DRAM buffer in which
software caches hot NVM pages. This directory models the parts whose correctness
depends on order: who runs when, which copy of a page or line is the current
one, and which clock an event is stamped with.

Source paths below are relative to `src/zsim-nvmain/src/`. `PROJECT.json` lists
for each definition the source lines it models (`map`), for each hazard of the
code the properties that would catch it, and for each property a mutant of the
model that breaks it.

## 1. The system: parts, state, operations

| Part | State | Operations | Talks to |
|---|---|---|---|
| Phase barrier (`barrier.h`) | thread states, futex words, run list, counters | join, leave, sync, end of phase | scheduler, bound-phase threads |
| Futex lock (`locks.h`) | lock word, kernel queue | lock, try with timeout, unlock | every lock of the simulator |
| Core recorder (`core_recorder.cpp`, `timing_core.cpp`) | clock, gap, chain of events, cycle accounts | join, leave, record, cSimStart, cSimEnd | barrier, weave phase |
| Thread scheduler (`scheduler.h`, `scheduler.cpp`) | thread states, contexts, run, out, sleep and free lists | join, leave, sync, handoff, sleep, finish, watchdog | barrier, system calls |
| Weave phase (`contention_sim.cpp`, `timing_event.cpp`, `prio_queue.h`) | per domain priority queue and clock, crossing events, wake locks | hand-shake with the caller, one event loop per thread | recorder, memory controllers |
| NVMain memory controller (`nvmain_mem_ctrl.cpp`) | clock, requests in flight, the scheduling event | enqueue, tick, RequestComplete | weave phase, NVMain |
| NVMain's channel controller (`../nvmain/`: `MemControl/FRFCFS`, `src/MemoryController.cpp`, `src/EventQueue.cpp`, `src/SubArray.cpp`) | transaction and command queues, events, banks | enqueue, cycle, issue, refresh, clean up | NVMain memory controller |
| MESI caches (`coherence_ctrls.*`, `cache.cpp`) | arrays, states, directory | access, PUT, eviction, invalidation | cores, memory controllers |
| Hot-page caching (`tlb/*`, `nvmain_mem_ctrl.cpp`) | page tables, TLBs, maps by physical page, DRAM blocks | translate, fault, count, cache, evict, shoot down | DRAM allocator, MMU, caches |
| DRAM allocator (`DRAM-buffer/FairAllocator.cpp`) | pools per process, global lists, counters | allocate, evict, release, mark dirty | hot-page caching |
| Page tables, MMU, filter caches, hill climbing, other parts of NVMain | | | not modelled, section 7 |

What is hard about it:

* threads of a bound phase interleave freely; the barrier, the locks and the
  coherence races carry the burden;
* a cache drops its own lock while it calls its parent, so its line can be
  invalidated under way;
* the weave phase runs domains on different threads that only read each other's
  clocks;
* several clocks (a core's, the phase's, NVMain's, the controller's) are
  translated into one another, some of them late;
* the caching of pages changes page tables, TLBs of all cores, maps and block
  marks, in several steps, while other cores walk and store;
* allocator decisions use sizes that were read without the lock;
* the scheduler moves contexts between threads that are inside the barrier, in a
  system call or asleep, and the code on either side must expect it;
* NVMain's controller is event driven: nothing polls, so every step must leave
  behind the wake-up for the next one.

## 2. Modules

**`FairAllocator`** - state: the members of the class and, per memory
controller, where it is in `allocate_page`. Actions: `allocate_page` (the
unlocked `should_reclaim`), `evict`, `read_first_size` and `read_second_size`
(the two unlocked size reads), `Release`, `end_evict`, `allocate_one_page`,
`convert_to_dirty` (a store of a core). The floating-point share of a process is
the set of integers its rounding may give. The variable `otherCores`, chosen in the
initial state, says whether stores of other cores may run while a controller
evicts; what is claimed for one core only is conditional on it.

**`Barrier`** - actions `join` (first time, or back after a leave, with its turn
still to come or gone), `leave` running and waiting, `sync`, `resume` (the futex
wait ends), and the loops of the thread that holds `schedLock`: `wake_next` (the
next thread on the list becomes running) and `wake_futex` (its futex word is
cleared), two steps between which that thread may look at its word,
`checkRunList_done`, `checkEndPhase`, `cleanup_round`, `cleanup_done`,
`shuffle`. `phaseCount` is kept modulo the cleanup period. `abruptExit`,
chosen in the initial state, lets threads leave wherever they are, as when a
process is killed.
**`PhaseBarrier`** is what the barrier promises, with one status per thread.

**`FutexLock`** - one action per atomic access to the word: the spin loop, the
exchange with 2, FUTEX_WAIT (sleeps only if the word is still 2), the decrement,
the clearing store and FUTEX_WAKE of the unlock. The kernel's queue is external.

**`NVMainMemory`** - one domain of the weave phase with one controller. A step
runs the earliest event of the domain: an access (`enqueue`) or the scheduling
event (`tick`), which advances NVMain and is called back by `RequestComplete`.
NVMain is external: it accepts or refuses and completes after a latency.

**`Weave`** and **`WeaveShared`** - two domains whose cores access each other's
memory through crossing events. A step is one access to memory that threads
share: the write of `curCycle`, a read of `called`, a read of the other
domain's clock (`crossing_read`) and then of the core's slack
(`crossing_getSlack`), the write of the slack (`reportEventSimulated`) and then of
`called` together with `doneCycle`, which is read only after it
(`simulate_core`). Each domain has the code's two-level priority queue: a ring of
blocks addressed by the low bits of the cycle, and a map of the events that are
further away and move into the ring as it turns (`enqueue`, `pq_dequeue`,
`firstCycle`). `Weave` has the event loop of a thread per domain; `WeaveShared`
adds the loop in which one thread serves all domains with a priority queue and
two queues of stalled ones, swapped at the end of a round (`end_turn`), lets the initial state choose between the two, and
adds the hand-shake of a phase: `simulatePhase` unlocks the threads' wake locks
one at a time and waits; each thread counts itself done, and the last one
releases the caller.

**`CoreRecorder`** - one timing core: `notifyJoin`, `work`, `recordAccess`,
`taper`, `notifyLeave` in the bound phase, `cSimStart`, `simulate` (one event,
delayed by contention) and `cSimEnd` in the weave phase, with the state machine
HALTED / RUNNING / DRAINING and the cycle accounts.

**`Scheduler`** (instance in `MCScheduler`) - one action per section between an
acquire and a release of `schedLock`: `join_fake`, `join_out` and `join_blocked`
(back from a system call that did not leave, with the context still there,
without one), `syscallLeave`, `markForSleep`, `sync`, `resume`, `handoff` (at the
end of a quantum), `waitForContext`, `isSleeping` and `notifySleepEnd` (the early
end of a sleep), `finish_fake`, `finish_leave`, `finish`, and the watchdog's
`watchdog_stall`, `watchdog_leave` and `watchdog_advance`. The end of a phase
(`callback`: advance, wake sleepers, tick the quantum with a shuffled list of
contexts) is part of the section whose barrier call ends the phase. The barrier
is what `PhaseBarrier` promises. Phase numbers are relative: the current phase
modulo the quantum, a deadline as the phases to go.

**`MemController`** - one channel of NVMain with an open-page, event-driven
FRFCFS controller and one rank. `Enqueue` accepts a request, `ProcessEvent`
handles the first event of the current cycle (cycle, command queue, refresh,
clean up, response) and `Tick` ends the cycle. A handler calls several of the
controller's functions in turn; each is an operator on a record of the state.
Time is relative, as distances from now and timers that count down.

**`HotPages`** (instances in `MCHotPages`) - `tlb_hit`, `page_walk`,
`page_walk_fault`, `do_page_fault`, `tlb_insert`; `access_counted` and
`writeback_uncounted` at the controller; then the steps of a caching operation:
`allocate_block` or `allocate_none`, `evict_and_fetch`, `install`. A walk and the
insertion of its result are separate steps. The allocator of DRAM blocks and
replacement in a TLB are any choice; the page tables are functions.

**`Coherence`** - private caches below a shared inclusive one. `l1_hit`,
`l1_upgrade`, `l1_miss`, `l1_evict` in a core's own cache; `put`, `put_skip`,
`get_evict`, `get_start` when the parent's lock is obtained (the place of
`CheckForMESIRace`); `sendInvalidates` to one child per step, `processEviction`,
`processAccess`, `grant`. The parent's two locks are one, held by the request
in `llc`.

**`FairAllocatorProofs`, `BarrierProofs`, `FutexLockProofs`, `CoherenceProofs`,
`HotPagesProofs`, `CoreRecorderProofs`, `WeaveProofs`** hold the theorems, section 5.

How they compose: `WeaveShared` extends `Weave`; `Barrier` implements
`PhaseBarrier`, and `Scheduler` runs on the statuses of `PhaseBarrier` with cores
in the place of the barrier's threads. Elsewhere a neighbour appears as the choices it may make:
`HotPages` takes the allocator of `FairAllocator` as a choice of block,
`FairAllocator` takes hot pages as a choice of process, `NVMainMemory` and
`CoreRecorder` take the weave phase as the order of their events, and
`NVMainMemory` takes NVMain, of which `MemController` is a part, as a latency.

## 3. Runs

All runs but the two marked *violated* pass: TLC explores the whole state space
of the instance and finds no error.

| Run | Instance | Checks |
|---|---|---|
| `fair_cores` | 5 pages, 2 processes, reserve 3, one controller; one core or several | `PoolsPartitionBlocks`, the assertions of `evict` and `Release`; with one core an allocation finds a block and is answered |
| `barrier_three` | 3 threads, 2 may run, processes may be killed or not | no wake-up race, run list and counters exact, nobody forgotten when the lock is released; without kills the assertion of `join` and "You can't cause a phase to end here", refinement of `PhaseBarrier`, every waiting thread runs |
| `futex_three` | 3 threads | one owner, no lost wake-up, somebody gets in |
| `nvmem_slow` | 3 accesses, 4 arrival cycles, one refusal, latencies above `minLatency` | completions on time; every access done |
| `weave_phases` | 2 domains, 2 accesses each, contention 7, 2 phases of 7 cycles, rings of 4 blocks of 2 cycles; one thread or two | nothing queued in the past or before its minimum start, crossings neither early nor late, the queue hands out the earliest event, a phase that returns is complete and no domain is dropped, every phase ends |
| `recorder_join` | 3 phases of 4 cycles, contention up to more than a phase | the assertions of `cSimEnd` and `TimingEvent::run`, contention and halted cycles accounted exactly |
| `hot_one_core` | 1 core with 2 TLBs of 2 entries, 3 pages, 2 blocks, threshold 2 | translations, map by physical page and blocks agree |
| `memctrl` | 2 banks refreshed together, 2 rows, 4 requests, queue of 3, starvation threshold 1 | the predicted rows are right, refreshes and accesses exclude each other, no cycle missed that polling would use, overtaking bounded, every request served |
| `scheduler` | 3 threads (one pinned), 2 contexts, 1 or 2 running at a time, quantum 2, sleeps of 1 or 2 phases | lists, contexts and barrier agree, no context wasted, every handoff seen, sleepers on time, everybody served |
| `coherence` | 3 cores, 2 lines, one-line caches | single writer, exact directory, no dirty line lost, assertions hold, every access ends |
| `hot_written` *violated* | 1 core, TLB of 1 entry, 1 block | `NoWriteDropped`, section 6 |
| `hot_processes` *violated* | 2 processes on 2 cores, 1 block | `BlocksMapped`, section 6 |

**Why the bounds are enough to be interesting.** Five pages with a reserve of
three let an eviction visit both processes, release from both pools and stop
half-way. Three threads give the barrier one that runs, one that waits and one
that comes back; the cleanup period of 2 makes cleanup passes happen (32 in the
code). With three threads a futex lock has an owner, a sleeper and a thread that
races them. Arrival cycles 1, 2, 4, 9 and latencies 4, 5, 8 make accesses
overlap, overtake a refused one and leave the controller idle. In the
weave phase a contention of 7 with a phase of 7 makes an event slip into the
next phase, and exceeds the 8 cycles of the ring together with the delays, so
that events go to the far map, move into the ring later and compete there with
events that were queued near; a core delay of 0 makes a crossing without slack,
where the forced slack of one cycle is needed. One-line
caches make every second access evict, also at the parent, while three cores
race for two lines. The TLBs hold fewer entries than there are pages and the
blocks are fewer than the pages, so that every replacement happens.

For the scheduler, three threads on two contexts make one queue while another
sleeps or is out; the pinned one makes the search by mask matter (a free context
it may not use). The barrier's limit is chosen in the initial state: with one
running core a thread waits inside the barrier, which is where a handoff finds
it; with two, both threads may be in system calls that did not leave, and the
watchdog then blacklists neither until one is left. For NVMain, two banks in one refresh
group make a refresh drain both, two rows make hits and misses, and a queue of
three fills with four requests; `tREFI` is the shortest that `DrainAssumption`
allows, so that refreshes meet every state of the queues.

`HotPages` is checked with symmetry of pages, frames and blocks, in runs without
temporal properties.

Deadlock is checked except where the system may stop: `barrier_three` (all
processes killed), `scheduler` (all threads in system calls that do not return),
`hot_processes` (a violation run), and `fair_cores`: with several cores an
allocation may find no block, where the code stops in an assertion.
`CoreRecorder`, `NVMainMemory` and the weave modules end in an explicit final
stutter.

## 4. Fairness

* `FairAllocator`: a controller inside `allocate_page` goes on (it is a thread
  the host runs). Starting a new allocation is not fair.
* `Barrier`: the holder of `schedLock` goes on; a thread whose futex word was
  cleared returns from its wait; a running thread ends its phase again and again
  (strong fairness of `sync`, since the lock may be taken each time it looks).
  Joins and leaves are not fair.
* `FutexLock`: each thread that is in an acquire or an unlock goes on. A thread
  that holds the lock releases it. Only "somebody enters" is claimed: the lock
  is not fair to each thread.
* `NVMainMemory`: the domain's queue is run; NVMain completes what it accepted.
* `WeaveShared`: the caller and each simulation thread go on unless they wait
  for a lock. No fairness between events. Here and in `Scheduler` weak fairness is
  written out as "infinitely often disabled, or infinitely often taken".
* `Scheduler`: a host thread that has only to be given the processor goes on; a
  thread that simulates again and again reaches the end of its phase; the
  watchdog, a thread of its own, runs. Nothing makes a system call return and
  nothing makes a thread sleep or finish. How long a stall must last before the
  watchdog acts is left open, and every call matches the expression of calls it
  may leave for.
* `MemController`: time passes, `[]<><<Tick>>_vars`. A cycle ends only when its
  events have been processed.
* `Coherence`: the request that holds the parent's lock goes on (weak), and a
  waiting request that finds the lock free infinitely often gets it (strong).
  The futex lock alone does not promise the latter; it is the assumption that
  the host's scheduling starves no thread.

## 5. Proofs

Each theorem holds for every value of the constants that the named assumptions
of its module allow; TLC evaluates those assumptions in the runs.

**`FairAllocatorProofs`.** `StructureTheorem` (any number of controllers): the
pools and lists partition the blocks and `busy_pages` is exact. The invariant is
inductive once the loop index of an eviction is bounded (`Structure`).
`AssertionsTheorem` (one controller, stores at any time): the assertions of
`evict` and `Release` hold; `EvictionKnows` says what an eviction still knows at
each step, namely that the sum it computed never exceeds what the process owns.
`ReserveTheorem` (one controller; the claim is conditional on `~ otherCores`): an allocation
finds a block and one page stays in reserve; `Reserve` says that as long as an
eviction released nothing, the processes it visited own nothing.

**`BarrierProofs`.** `ConsistencyTheorem`: list and counters are exact and the
assertion of the cleanup pass holds. `WakeupTheorem`: no wake-up panics, and a
thread whose futex wait ends finds itself running. Both follow from the inductive
invariant `Consistent`, which describes the list also half-way through the cleanup
pass, where entries beyond `newSize` are gone but `leftThreads` still counts them,
and says which thread is running with its futex word still to be cleared
(`AtStage`).
`NobodyForgottenTheorem` adds `Going`, what is known at each stage of the lock
holder. `JoinTheorem` and `RefinementTheorem` (their claims are conditional on
`~ abruptExit`) add `IdxKnown`
(`lastIdx` is right for every running thread and every thread that left) and
`Turn`; the refinement has one step per action of the code.

**`FutexLockProofs`.** `MutualExclusionTheorem` and `NoLostWakeupTheorem` for any
set of threads; the auxiliary fact is that the kernel's queue names each sleeper
once.

**`CoherenceProofs`.** `SingleWriterTheorem`, `DirectoryTheorem`, `DirtyTheorem`
and `AssertionsTheorem` for any finite set of cores, any set of lines and any
number of ways. `DirectoryExact` is not inductive: while a write is granted, the
writer is off the sharers but still has its old copy, and while invalidations go
out, the counter is ahead of the set. The invariant says so exactly: `DirOK` has
the exception `Upgrading`; `TodoOK` says that the children still in the way are
those still to be told, and that a writer with an old copy has no exclusive
rival; `CountOK` relates the counter to the set and the invalidations sent;
`ReqOK` bounds what an invalidation can have done to a line with a call under
way; `WbOK` follows the dirty state.

**`CoreRecorderProofs`.** `SkewTheorem` and `ContentionTheorem`: `SkewIsSound` and
`ContentionAccounted` for every phase length, any number of phases and events and
any work, latencies and contention (`RecorderAssumption`). Neither is inductive:
an event is queued, delayed and simulated phases after it was recorded, when the
gap has grown. The invariant relates all of a chain to the clock: zero-load
starts differ by the delays, the last one and its delay end at the last response
less the gap, and a minimum start is at most the zero-load start plus the gap
(`ChainOK`); what the next and the last event are late by is the contention met,
and never less than the gap (`ReadyOK`, `LastOK`); a running core in the weave
phase has an event beyond the limit (`ActiveOK`), so that it is never drained.

**`HotPagesProofs`.** `TranslationTheorem`, `MonitorTheorem` and `BlocksTheorem`:
with one core and one process, for any pages, frames, blocks, TLB sizes and
threshold (`HotPagesAssumption`, `UnmappedAssumption`), `TranslationAgrees`,
`MonitorFinds` and `BlocksMapped`. The
page table is injective, and the frame that waits in a block is mapped by nobody
(`TablesOK`, `SourcesOK`). Between the two shootdowns of a caching step the TLBs
and the page table disagree on the page that moves: `EntriesOK` says by how much,
`CachingOK` what the step still holds. With two processes `BlocksMapped` fails
(section 6).

**`WeaveProofs`.** `CrossingTheorem`, `CausalityTheorem`, `QueueTheorem` and
`PhaseTheorem`: `CrossingNotLate`, `Causality`, `QueueExact` and `PhaseComplete`
for two domains (`PairAssumption`) and any number of accesses and phases, any
delays, contention, phase length and queue size (`WeaveAssumption`), simulated by
one thread or by two. None of the four is inductive. The invariant `IInv` has two
halves.

`WInv` is about the domains. An event is *live* while it is queued or in the hand
of a thread. Live events exclude one another as the chain of an access says
(`Alone`, `Order`), and each comes after what it waited for and no earlier than the
core's slack allows (`Times`). `Waiting` is the heart: a crossing whose source is
not done is queued, or about to be, for a cycle that is its first one, or its
minimum start with the slack of its core, or the preslack beyond a cycle below
which the source domain will run nothing any more (`Floor`). A thread reads the
other domain's clock in one step and queues by it in a later one; a floor only
rises, so the value is stale but safe. For the queue, `Ring` says that what is in
the ring is within one turn of the current block, so that equal slots are equal
blocks, and that a far element was out of reach at every half turn since; hence
what is far is later than the first half of the ring, which is all that
`firstCycle` looks at before it compares with the far map.

`HInv` is about the hand-shake. `Back`, the threads that are through with this
phase, counts what `threadsDone` counts, also while others have yet to be woken
(`Counted`); `HandOf` says where one thread's domains are; `Held` that a thread for
both domains has each of them in exactly one place until it is finished.

**Only model-checked**: everything about `NVMainMemory`, `Scheduler` and
`MemController`, `HotPages` with several cores or processes, and all liveness,
which under fairness is outside what the prover supports. The three modules
select from sequences and fold over them, operators that the prover's library has
no facts about; no theorem covers them so far.

## 6. Where the code disagrees with what it says

Two runs show it:

* `hot_written`: a DRAM page is marked dirty only when a store *hits* the TLB
  (`tlb/hot_monitor_tlb.h:62`). A store that misses inserts a clean entry and
  marks nothing. If the page is evicted before another store hits, its block is
  reused without the write-back that `evict_and_fetch` does for blocks marked
  dirty ("write back dirty DRAM pages to NVM"). In the simulator this drops the
  traffic of a write-back, not data.
* `hot_processes`: `evict_and_fetch` (`tlb/page_table_walker.h:331`) maps the
  evicted page through the walker of the process that caches the *new* page. When
  the two processes differ, the evicted page's own table still points to the
  block, which now holds another page.

Others were met while modelling. These can be reproduced by changing a run or a
property:

* `AllocationFindsBlock` without its condition `~ otherCores` fails: a page that
  moves between two unlocked reads is counted in neither
  (`FairAllocator.cpp:187`). `EvictionAssertionsHold` fails with two controllers
  (`FairAllocator.cpp:170`); the shipped configurations have one.
* `JoinIsSafe` without its condition `~ abruptExit` fails: `lastIdx` of a thread
  that was killed before its first turn was never set (`barrier.h:133`).
* `DoneOnTime` fails when NVMain may complete within `MinLatency` cycles:
  `RequestComplete` stamps with a stale `curCycle` (`nvmain_mem_ctrl.cpp:739`,
  `891`).
* `TranslationAgrees` fails with two cores of one process: the lookup that finds
  no mapping and the fault that creates it are not atomic
  (`tlb/page_table_walker.h:67`), and a walk's result may be inserted after a
  shootdown (`tlb/hot_monitor_tlb.h:46`).
* `NoReadyCycleMissed` fails without `ActivateAssumption`, and `RefreshGate`
  without `DrainAssumption`: the event-driven controller relies on two relations
  of the timing parameters that it does not test. The shipped configurations
  keep them.
* The scheduler's watchdog ends a fake leave, releases `schedLock` and then calls
  `leave` (`scheduler.cpp:156`). If the system call returns in between, its `join`
  finds a running thread and the assertion on its state fails (`scheduler.h:312`),
  or its `finish` leaves first (`scheduler.h:246`) and the watchdog leaves for a
  thread that is gone. `EverybodyAccounted` excepts exactly this window, and the
  model lets such a thread wait until the watchdog has left for it.

Read in the code and in no module:

* `futex_haswaiters` may say yes after the last waiter timed out (`locks.h:216`);
* the latency statistics count idle time (`nvmain_mem_ctrl.cpp:812`), and a
  period without accesses divides zero by zero (`nvmain_mem_ctrl.cpp:505`);
* the assertion of `process_stats.cpp:77` may see a cycle count go back after a
  core drained (`core_recorder.cpp:191`);
* an access whose page could not be cached is sent to `INVALID_PAGE_ADDR`
  (`nvmain_mem_ctrl.cpp:397`), and a fault without a free page falls back to the
  identity mapping (`tlb/page_table_walker.h:150`);
* `look_up_va` reads without the lock its writers take
  (`tlb/hot_monitor_tlb.h:149`);
* a flush of a page looks for its lines in the filter array, which holds one line
  per set, while other levels may still have them (`filter_cache.h:167`), and it releases a
  lock of the shared cache that it may not hold (`cache.cpp:108`);
* the buddy allocator's counter of free pages shifts the wrong way (`1 >> order`,
  `MMU/memory_management.cpp:195`);
* a `nanosleep` that a signal ends while the process starts to fast-forward calls
  `finish` for a thread that still sleeps (`zsim.cpp:1102`; the patch in
  `virt/time.cpp:210` has no `notifySleepEnd`), which the assertion of
  `scheduler.h:253` does not allow;
* of two system calls with no instruction in between the second does not leave
  (`zsim.cpp:1065`); if it sleeps, the thread stays marked, and `join` asserts that
  it is not (`scheduler.h:298`) or, when the first call did not leave, returns
  with the mark still set;
* the clean-up of a killed process may meet a pending handoff
  (`scheduler.h:255`), and a futex wake that matches a timed-out wait resets all
  of them (`scheduler.cpp:349`).

## 7. Not modelled, and the plan

**Coverage.** Of the lines under `src/`, four fifths and more are the bundled Pin
kit, a third-party instrumentation toolkit that SHMA uses and does not change.
The rest is divided between zsim and NVMain, where much is sequential: the
configuration reader, statistics, decoders of x86 instructions for the
out-of-order core, trace readers and writers, and memory back ends that the
configurations of SHMA do not select. What is modelled is the part in which
order, concurrency or hidden state decide correctness. Components with status
`not_modelled` in `PROJECT.json` give the reason in each case.

**Within modelled parts**, left out are: in `Coherence` the flushes of
`clflush_all`, the non-inclusive mode, prefetches and middle levels; in
`HotPages` shared memory with the reversed page table, and the life times of the
multi-queue policy; in `NVMainMemory` the latency statistics and page caching
(which is in `HotPages`); in `Weave` the event allocator and the order of events
of one cycle (any order is taken); in `CoreRecorder` the out-of-order variant; in
`Scheduler` the clean-up of killed processes, the matching of futex waits and
wakes, and the three calls of section 6 that may fail an assertion; in
`MemController` writes (the same path with other timings), power-down,
close-page policies, several ranks, more than one refresh group, the window of
`tRAW` over four activates, which two banks do not fill, and the merging of the
channels' clocks. The locks of the private caches are not in `Coherence`, whose
`AccessEnds` is therefore no statement about the order in which a cache and its
parent lock each other. `EveryRequestServed` is about four requests: that an
endless stream of row hits starves nobody rests on `OvertakingBounded`.

Planned, the most important first:

1. in `Scheduler`, the clean-up of killed processes and the matching of futex
   waits and wakes;
2. hill climbing and the profiling of a period (`Climbing`, `adjust_threshold`),
   including a period without accesses;
3. the buddy allocator: split, merge, free counters against the set of free
   pages; and page tables as radix walks against a function;
4. flushes in `Coherence`; shared memory in `HotPages`;
5. several channels in `MemController`, under NVMain's global event queue;
6. proofs: `EverybodyAccounted` and `HandoffsAreSeen` of `Scheduler`, `DoneOnTime`
   of `NVMainMemory`, `RowsPredicted` and `RefreshGate` of `MemController`.
