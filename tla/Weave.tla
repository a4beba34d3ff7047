-------------------------------- MODULE Weave --------------------------------
(***************************************************************************)
(* The weave phase of zsim (contention_sim.cpp, timing_event.cpp): two     *)
(* domains, each run by its own simulation thread, whose clocks are        *)
(* coupled only by crossing events.  The core of each domain sends K       *)
(* accesses to the memory of the other one; access k is a core event, a    *)
(* request crossing, a memory event and a response crossing.  A step is    *)
(* one access to memory shared by the threads: a write of a domain's       *)
(* curCycle or of a core's slack, a read of either by the other domain,    *)
(* and the write or a read of "called".  doneCycle goes with "called": it  *)
(* is written just before and read only by who has seen "called".          *)
(* Each domain's events wait in a PrioQueue (prio_queue.h): PQ_BLOCKS      *)
(* blocks of BlockCycles cycles in a ring, and a far element map.          *)
(***************************************************************************)
EXTENDS Integers, FiniteSets, FiniteSetsExt

CONSTANTS Cores, K, CoreDelay, MemDelay, Contention, PhaseLength, Phases,
          PQ_BLOCKS, BlockCycles  \* 1024 and 64 in the code

ASSUME PairAssumption == \E c, d \in Cores : c # d /\ Cores = {c, d}
ASSUME WeaveAssumption ==
    /\ K \in Nat /\ CoreDelay \in Nat /\ MemDelay \in Nat
    /\ Contention \subseteq Nat
    /\ PhaseLength \in Nat \ {0} /\ Phases \in Nat
    /\ PQ_BLOCKS \in Nat \ {0} /\ PQ_BLOCKS % 2 = 0 /\ BlockCycles \in Nat \ {0}

VARIABLES
    q,          \* per event: the cycle it is queued for, or Out
    feMap,      \* queued events in the far element maps
    curBlock,   \* per domain: the block its queue is at
    cur,        \* per domain: curCycle
    limit,
    pc,         \* per domain: where its thread is
    running,    \* per domain: the event that was dequeued
    next,       \* per domain: nextCycle of the crossing that is simulated
    called,     \* per crossing: its source event is done,
    doneCycle,  \*               at this cycle,
    first,      \*               and it was first queued for this one
    slack,      \* per core: lastStartSlack of its recorder
    contended   \* memory events that were delayed

pqs == <<q, feMap, curBlock>>
vars == <<pqs, cur, limit, pc, running, next, called, doneCycle, first, slack, contended>>

Out == -1
Ev(kind, c, k) == <<kind, c, k>>
Crossings == {"req", "rsp"} \X Cores \X (1 .. K)
Events == ({"core", "mem"} \X Cores \X (1 .. K)) \cup Crossings
Other(c) == CHOOSE d \in Cores : d # c
DomainOf(e) == IF e[1] \in {"core", "rsp"} THEN e[2] ELSE Other(e[2])
SrcDomain(x) == Other(DomainOf(x))
EventsOf == [d \in Cores |-> {e \in Events : DomainOf(e) = d}]

AtLeast(m, n) == IF m >= n THEN m ELSE n

\* The bound phase's cycle of the k-th core event.
OrigStart(k) == (k - 1) * (CoreDelay + MemDelay)

\* Mutant: a crossing without delay has no slack.
preSlack_none(x) == IF x[1] = "req" THEN CoreDelay ELSE MemDelay

\* The delay of the parent, stolen; at least one cycle.
preSlack(x) == AtLeast(1, IF x[1] = "req" THEN CoreDelay ELSE MemDelay)

minStartCycle(x) ==
    OrigStart(x[3]) + (IF x[1] = "req" THEN preSlack(x) ELSE CoreDelay + preSlack(x))

\* The first core event of each core and its request crossing are queued in
\* the bound phase; later requests are chained to the one before, responses
\* to their core event.
Init ==
    /\ q = [e \in Events |->
              CASE e[1] = "core" /\ e[3] = 1 -> 0
                [] e[1] = "req" /\ e[3] = 1 -> minStartCycle(e)
                [] OTHER -> Out]
    /\ feMap = {e \in Events : q[e] # Out /\ q[e] \div BlockCycles >= PQ_BLOCKS}
    /\ curBlock = [d \in Cores |-> 0]
    /\ cur = [d \in Cores |-> 0]
    /\ limit = 0
    /\ pc = [d \in Cores |-> "finished"]
    /\ running = [d \in Cores |-> Ev("core", d, 1)]
    /\ next = [d \in Cores |-> 0]
    /\ called = [x \in Crossings |-> FALSE]
    /\ doneCycle = [x \in Crossings |-> 0]
    /\ first = [x \in Crossings |-> IF x[1] = "req" /\ x[3] = 1 THEN minStartCycle(x) ELSE 0]
    /\ slack = [c \in Cores |-> 0]
    /\ contended = {}

Queued(d) == {e \in EventsOf[d] : q[e] # Out}

\* PrioQueue::enqueue: an event beyond the ring goes to the far element map.
enqueue(newq) ==
    /\ q' = newq
    /\ feMap' = feMap \cup {e \in Events : q[e] = Out /\ newq[e] # Out
                               /\ newq[e] \div BlockCycles >= curBlock[DomainOf(e)] + PQ_BLOCKS}
    /\ UNCHANGED curBlock

\* The events in slot b % PQ_BLOCKS of the ring, when the events of far are
\* not in it, and the lowest offset of one.
InBlock(d, b, far) == {e \in Queued(d) \ far : (q[e] \div BlockCycles) % PQ_BLOCKS = b % PQ_BLOCKS}
offset(evs) == Min({q[e] % BlockCycles : e \in evs})

\* Mutant: far elements are not looked at while the ring holds an event.
firstCycle_near(d) ==
    LET blocks == {(q[e] \div BlockCycles - curBlock[d]) % PQ_BLOCKS : e \in Queued(d) \ feMap}
        i == Min(blocks)
        far == Min({q[e] : e \in feMap \cap Queued(d)})
    IN  IF blocks # {} THEN (curBlock[d] + i) * BlockCycles + offset(InBlock(d, curBlock[d] + i, feMap))
        ELSE far

\* PrioQueue::firstCycle: beyond half of the ring a far element may come first.
firstCycle(d) ==
    LET blocks == {(q[e] \div BlockCycles - curBlock[d]) % PQ_BLOCKS : e \in Queued(d) \ feMap}
        i == Min(blocks)
        near == (curBlock[d] + i) * BlockCycles + offset(InBlock(d, curBlock[d] + i, feMap))
        far == Min({q[e] : e \in feMap \cap Queued(d)})
    IN  CASE blocks = {} -> far
          [] blocks # {} /\ i >= PQ_BLOCKS \div 2 /\ feMap \cap Queued(d) # {} -> Min({near, far})
          [] OTHER -> near

\* What is left of the far element map when the queue of d has gone on to
\* block b: every half turn of the ring the elements that fit into it move
\* there.
farAt(d, b) ==
    {e \in feMap : DomainOf(e) = d =>
        \A m \in curBlock[d] + 1 .. b : m % (PQ_BLOCKS \div 2) = 0 => q[e] >= (m + PQ_BLOCKS) * BlockCycles}

\* The first populated block the queue comes to.
populated(d) ==
    Min({b \in curBlock[d] .. Max({q[e] \div BlockCycles : e \in Queued(d)}) : InBlock(d, b, farAt(d, b)) # {}})

\* PrioQueue::dequeue: an event of the first cycle of that block.
pq_dequeue(d, e) ==
    LET b == populated(d)
        evs == InBlock(d, b, farAt(d, b))
    IN  /\ e \in evs
        /\ q[e] % BlockCycles = offset(evs)
        /\ curBlock' = [curBlock EXCEPT ![d] = b]
        /\ feMap' = farAt(d, b)
        /\ q' = [q EXCEPT ![e] = Out]

deqCycle(d) ==
    LET b == populated(d)
    IN  b * BlockCycles + offset(InBlock(d, b, farAt(d, b)))

Go(d, l) == pc' = [pc EXCEPT ![d] = l]

dequeue(d) ==
    /\ pc[d] = "loop"
    /\ Queued(d) # {} /\ firstCycle(d) < limit
    /\ \E e \in Queued(d) :
          /\ pq_dequeue(d, e)
          /\ running' = [running EXCEPT ![d] = e]
          /\ cur' = [cur EXCEPT ![d] = deqCycle(d)]
          /\ Go(d, IF e \in Crossings THEN "check" ELSE "run")
    /\ UNCHANGED <<limit, next, called, doneCycle, first, slack, contended>>

\* After the event: the domain's clock moves to the next event.
advance(d) ==
    /\ pc[d] = "advance"
    /\ cur' = [cur EXCEPT ![d] = IF Queued(d) = {} THEN limit ELSE firstCycle(d)]
    /\ Go(d, "loop")
    /\ UNCHANGED <<pqs, limit, running, next, called, doneCycle, first, slack, contended>>

finish(d) ==
    /\ pc[d] = "loop"
    /\ Queued(d) # {} => firstCycle(d) >= limit
    /\ cur' = [cur EXCEPT ![d] = limit]
    /\ Go(d, "finished")
    /\ UNCHANGED <<pqs, limit, running, next, called, doneCycle, first, slack, contended>>

markSrcEventDone(x, c) ==
    /\ called' = [called EXCEPT ![x] = TRUE]
    /\ doneCycle' = [doneCycle EXCEPT ![x] = c]

startSlack(c, k) == c - OrigStart(k)

\* TimingCoreEvent::simulate tells the recorder its skew ...
reportEventSimulated(d) ==
    LET e == running[d]
    IN  /\ pc[d] = "run"
        /\ e[1] = "core"
        /\ slack' = [slack EXCEPT ![e[2]] = startSlack(cur[d], e[3])]
        /\ Go(d, "mark")
        /\ UNCHANGED <<pqs, cur, limit, running, next, called, doneCycle, first, contended>>

\* ... and is done: it marks the request crossing and queues the response
\* crossing.
simulate_core(d) ==
    LET e == running[d]
        c == cur[d] + CoreDelay
        rsp == Ev("rsp", e[2], e[3])
    IN  /\ pc[d] = "mark"
        /\ markSrcEventDone(Ev("req", e[2], e[3]), c)
        /\ enqueue([q EXCEPT ![rsp] = AtLeast(c, minStartCycle(rsp))])
        /\ first' = [first EXCEPT ![rsp] = AtLeast(c, minStartCycle(rsp))]
        /\ Go(d, "advance")
        /\ UNCHANGED <<cur, limit, running, next, slack, contended>>

\* A memory event may be delayed once before it is done.
simulate_mem_contended(d) ==
    LET e == running[d]
    IN  /\ pc[d] = "run"
        /\ e[1] = "mem" /\ e \notin contended
        /\ contended' = contended \cup {e}
        /\ \E n \in Contention : enqueue([q EXCEPT ![e] = cur[d] + n])
        /\ Go(d, "advance")
        /\ UNCHANGED <<cur, limit, running, next, called, doneCycle, first, slack>>

simulate_mem(d) ==
    LET e == running[d]
    IN  /\ pc[d] = "run"
        /\ e[1] = "mem"
        /\ markSrcEventDone(Ev("rsp", e[2], e[3]), cur[d] + MemDelay)
        /\ Go(d, "advance")
        /\ UNCHANGED <<pqs, cur, limit, running, next, first, slack, contended>>

\* Mutant: the cycle at which the source was done is left out.
dCycle_early(x, simCycle) == simCycle

dCycle(x, simCycle) == AtLeast(simCycle, doneCycle[x])

\* The crossing is done: its child and the crossing chained to it are queued.
crossing_done(d) ==
    LET x == running[d]
        when == dCycle(x, cur[d])
        child == IF x[1] = "req" THEN Ev("mem", x[2], x[3]) ELSE Ev("core", x[2], x[3] + 1)
        chained == Ev("req", x[2], x[3] + 1)
        c == AtLeast(when, minStartCycle(chained))
    IN  /\ enqueue([e \in Events |->
                       CASE e = child -> when
                         [] x[1] = "req" /\ e = chained -> c
                         [] OTHER -> q[e]])
        /\ IF x[1] = "req" /\ x[3] < K
           THEN /\ first' = [first EXCEPT ![chained] = c]
                /\ doneCycle' = [doneCycle EXCEPT ![chained] =
                                   IF called[chained] THEN AtLeast(@, c) ELSE @]
           ELSE UNCHANGED <<first, doneCycle>>
        /\ Go(d, "advance")
        /\ UNCHANGED <<cur, limit, running, next, called, slack, contended>>

crossing_check(d) ==
    /\ pc[d] = "check"
    /\ \/ called[running[d]] /\ crossing_done(d)
       \/ /\ ~ called[running[d]]
          /\ Go(d, "read")
          /\ UNCHANGED <<pqs, cur, limit, running, next, called, doneCycle, first, slack, contended>>

\* Reads the source domain's cycle, then the core's slack.
crossing_read(d) ==
    LET x == running[d]
        curSrcCycle == cur[SrcDomain(x)] + preSlack(x)
    IN  /\ pc[d] = "read"
        /\ next' = [next EXCEPT ![d] = AtLeast(curSrcCycle, cur[d])]
        /\ Go(d, "getSlack")
        /\ UNCHANGED <<pqs, cur, limit, running, called, doneCycle, first, slack, contended>>

crossing_getSlack(d) ==
    LET x == running[d]
        coreRelCycle == minStartCycle(x) + slack[x[2]]
    IN  /\ pc[d] = "getSlack"
        /\ next' = [next EXCEPT ![d] = AtLeast(coreRelCycle, @)]
        /\ Go(d, "recheck")
        /\ UNCHANGED <<pqs, cur, limit, running, called, doneCycle, first, slack, contended>>

\* Mutant: "called" is not checked again after the cycles were read.
crossing_recheck_blind(d) ==
    /\ pc[d] = "recheck"
    /\ enqueue([q EXCEPT ![running[d]] = next[d]])
    /\ Go(d, "advance")
    /\ UNCHANGED <<cur, limit, running, next, called, doneCycle, first, slack, contended>>

crossing_recheck(d) ==
    /\ pc[d] = "recheck"
    /\ \/ called[running[d]] /\ crossing_done(d)
       \/ /\ ~ called[running[d]]
          /\ enqueue([q EXCEPT ![running[d]] = next[d]])
          /\ Go(d, "advance")
          /\ UNCHANGED <<cur, limit, running, next, called, doneCycle, first, slack, contended>>

Step(d) ==
    \/ dequeue(d) \/ advance(d) \/ finish(d)
    \/ reportEventSimulated(d) \/ simulate_core(d) \/ simulate_mem_contended(d) \/ simulate_mem(d)
    \/ crossing_check(d) \/ crossing_read(d) \/ crossing_getSlack(d) \/ crossing_recheck(d)

-----------------------------------------------------------------------------
\* A crossing whose source is done is never queued later than the source
\* plus the slack the two delays give ("have to check again, AFTER reading
\* the cycles! Otherwise, we have a race").
CrossingNotLate ==
    \A x \in Crossings :
        called[x] /\ q[x] # Out => q[x] <= AtLeast(first[x], doneCycle[x] + preSlack(x))

\* The child of a crossing never runs before the source of the crossing is
\* done, and no core event before its minimum start.
Causality ==
    /\ \A d \in Cores : pc[d] = "run" /\ running[d][1] = "core" => cur[d] >= OrigStart(running[d][3])
    /\ \A c \in Cores, k \in 1 .. K :
          /\ q[Ev("mem", c, k)] # Out => q[Ev("mem", c, k)] >= doneCycle[Ev("req", c, k)] /\ called[Ev("req", c, k)]
          /\ k > 1 /\ q[Ev("core", c, k)] # Out =>
                q[Ev("core", c, k)] >= doneCycle[Ev("rsp", c, k - 1)] /\ called[Ev("rsp", c, k - 1)]

\* The queue hands out the earliest event, at the cycle it was queued for:
\* the ring and the far element map never disagree about what is first ("there
\* may be a far element that comes earlier", firstCycle).  And that event is
\* not in the domain's past ("Queued event goes back in time").
QueueExact ==
    \A d \in Cores : Queued(d) # {} =>
        LET c == firstCycle(d)
        IN  /\ c = Min({q[e] : e \in Queued(d)})
            /\ c = deqCycle(d)
            /\ c >= cur[d]

\* The two domains never wait for each other for ever: each thread reaches
\* the end of every phase.
PhaseEnds == \A d \in Cores : []<>(pc[d] = "finished")
=============================================================================
