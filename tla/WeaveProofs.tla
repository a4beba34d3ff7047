---------------------------- MODULE WeaveProofs ----------------------------
(***************************************************************************)
(* Proofs about the weave phase, for every number of accesses, every pair  *)
(* of delays, every contention, phase length and queue size.               *)
(***************************************************************************)
EXTENDS WeaveShared, TLAPS

Half == PQ_BLOCKS \div 2
Serving == {"run", "mark", "check", "read", "getSlack", "recheck"}
\* In these the event in hand is no crossing, ...
Own == {"run", "mark"}
\* ... and in these the source domain's cycle has been read.
Read == {"getSlack", "recheck"}
BlockOf(n) == n \div BlockCycles
Kinds == {"core", "mem", "req", "rsp"}
-----------------------------------------------------------------------------
(* Numbers, cores and events.                                              *)

LEMMA DivMod ==
    ASSUME NEW a \in Nat, NEW b \in Nat \ {0}
    PROVE  /\ a \div b \in Nat /\ a % b \in Nat /\ a % b < b
           /\ a = b * (a \div b) + (a % b)
  OBVIOUS

LEMMA Cancel ==
    ASSUME NEW b \in Nat \ {0}, NEW i \in Int, NEW j \in Int, i * b < j * b
    PROVE  i < j
  OBVIOUS

LEMMA Sizes ==
    /\ BlockCycles \in Nat \ {0} /\ PQ_BLOCKS \in Nat \ {0}
    /\ Half \in Nat \ {0} /\ PQ_BLOCKS = 2 * Half
  BY WeaveAssumption DEF Half

LEMMA Blocks ==
    ASSUME NEW n \in Nat
    PROVE  /\ BlockOf(n) \in Nat /\ n % BlockCycles \in Nat /\ n % BlockCycles < BlockCycles
           /\ BlockOf(n) * BlockCycles <= n
           /\ n < (BlockOf(n) + 1) * BlockCycles
           /\ n = BlockOf(n) * BlockCycles + (n % BlockCycles)
  BY Sizes, DivMod DEF BlockOf

LEMMA BlockLess ==
    ASSUME NEW n \in Nat, NEW b \in Nat
    PROVE  n < b * BlockCycles <=> BlockOf(n) < b
<1>1. /\ BlockOf(n) \in Nat /\ BlockOf(n) * BlockCycles <= n
      /\ n < (BlockOf(n) + 1) * BlockCycles /\ BlockCycles \in Nat \ {0}
  BY Blocks, Sizes, Zenon
<1> QED BY <1>1, Cancel

LEMMA TwoCores ==
    \A c \in Cores :
        /\ Other(c) \in Cores /\ Other(c) # c /\ Other(Other(c)) = c
        /\ \A d \in Cores : d = c \/ d = Other(c)
<1>1. ASSUME NEW c \in Cores PROVE \E d : Cores \ {c} = {d}
  BY PairAssumption, Zenon
<1>2. ASSUME NEW c \in Cores
      PROVE  Other(c) \in Cores /\ Other(c) # c /\ \A d \in Cores : d = c \/ d = Other(c)
  <2>1. PICK o : Cores \ {c} = {o}
    BY <1>1, Zenon
  <2>2. Other(c) \in Cores /\ Other(c) # c
    BY <2>1, Zenon DEF Other
  <2> QED BY <2>1, <2>2
<1> QED BY <1>2, Zenon

\* Every event is known by its kind, its core and its access.
LEMMA EventForm ==
    /\ \A kind \in Kinds, c \in Cores, k \in 1 .. K : Ev(kind, c, k) \in Events
    /\ \A e \in Events : \E kind \in Kinds, c \in Cores, k \in 1 .. K : e = Ev(kind, c, k)
    /\ \A kind, c, k : Ev(kind, c, k)[1] = kind /\ Ev(kind, c, k)[2] = c /\ Ev(kind, c, k)[3] = k
  BY DEF Ev, Kinds, Events, Crossings

LEMMA CrossingForm ==
    /\ \A c \in Cores, k \in 1 .. K : Ev("req", c, k) \in Crossings /\ Ev("rsp", c, k) \in Crossings
    /\ \A x \in Crossings : \E c \in Cores, k \in 1 .. K : x = Ev("req", c, k) \/ x = Ev("rsp", c, k)
    /\ \A c, k : Ev("core", c, k) \notin Crossings /\ Ev("mem", c, k) \notin Crossings
    /\ Crossings \subseteq Events
  BY DEF Ev, Events, Crossings

LEMMA IsCrossing ==
    \A c \in Cores, k \in 1 .. K :
        /\ Ev("req", c, k) \in Crossings /\ Ev("rsp", c, k) \in Crossings
        /\ k > 1 => k - 1 \in 1 .. K /\ Ev("req", c, k - 1) \in Crossings /\ Ev("rsp", c, k - 1) \in Crossings
        /\ k < K => k + 1 \in 1 .. K /\ Ev("req", c, k + 1) \in Crossings /\ Ev("rsp", c, k + 1) \in Crossings
<1>1. \A c \in Cores, k \in 1 .. K : Ev("req", c, k) \in Crossings /\ Ev("rsp", c, k) \in Crossings
  BY Zenon DEF Ev, Crossings
<1>2. \A k \in 1 .. K : (k > 1 => k - 1 \in 1 .. K) /\ (k < K => k + 1 \in 1 .. K)
  BY WeaveAssumption
<1> QED BY <1>1, <1>2, Zenon

LEMMA IsEvent ==
    \A c \in Cores, k \in 1 .. K :
        /\ Ev("core", c, k) \in Events /\ Ev("mem", c, k) \in Events
        /\ Ev("req", c, k) \in Events /\ Ev("rsp", c, k) \in Events
  BY EventForm, Zenon DEF Kinds

LEMMA PlusOne == \A k \in 1 .. K : k + 1 # k /\ k + 1 - 1 = k
  OBVIOUS

LEMMA Homes ==
    \A c, k : /\ DomainOf(Ev("core", c, k)) = c /\ DomainOf(Ev("rsp", c, k)) = c
              /\ DomainOf(Ev("req", c, k)) = Other(c) /\ DomainOf(Ev("mem", c, k)) = Other(c)
  BY EventForm DEF DomainOf

LEMMA EventHome == \A e \in Events : DomainOf(e) \in Cores /\ e \in EventsOf[DomainOf(e)]
<1>1. \A e \in Events : DomainOf(e) \in Cores
  BY EventForm, Homes, TwoCores DEF Kinds
<1> QED BY <1>1, Zenon DEF EventsOf

LEMMA CrossingType ==
    \A x \in Crossings : /\ x \in Events /\ x[1] \in {"req", "rsp"} /\ x[2] \in Cores /\ x[3] \in 1 .. K
                         /\ DomainOf(x) \in Cores /\ SrcDomain(x) \in Cores /\ SrcDomain(x) # DomainOf(x)
<1>1. \A x \in Crossings : x \in Events /\ x[1] \in {"req", "rsp"} /\ x[2] \in Cores /\ x[3] \in 1 .. K
  BY Zenon DEF Crossings, Events
<1>2. \A x \in Crossings : DomainOf(x) \in Cores
  BY <1>1, EventHome, Zenon
<1> QED BY <1>1, <1>2, TwoCores, Zenon DEF SrcDomain

LEMMA OrigType ==
    \A k \in 1 .. K : /\ OrigStart(k) \in Nat /\ OrigStart(1) = 0
                      /\ OrigStart(k + 1) = OrigStart(k) + CoreDelay + MemDelay
<1> SUFFICES ASSUME NEW k \in 1 .. K
             PROVE  /\ OrigStart(k) \in Nat /\ OrigStart(1) = 0
                    /\ OrigStart(k + 1) = OrigStart(k) + CoreDelay + MemDelay
  OBVIOUS
<1> DEFINE p == CoreDelay + MemDelay
<1>1. p \in Nat /\ CoreDelay \in Nat /\ MemDelay \in Nat /\ k - 1 \in Nat
  BY WeaveAssumption
<1>2. OrigStart(k) = (k - 1) * p /\ OrigStart(1) = 0 * p /\ OrigStart(k + 1) = k * p
  BY <1>1 DEF OrigStart
<1> HIDE DEF p
<1>3. (k - 1) * p \in Nat /\ k * p = (k - 1) * p + p
  BY <1>1
<1> QED BY <1>1, <1>2, <1>3 DEF p

LEMMA SlackType ==
    \A x \in Crossings : /\ preSlack(x) \in Nat /\ preSlack(x) >= 1
                         /\ minStartCycle(x) \in Nat
<1> SUFFICES ASSUME NEW x \in Crossings
             PROVE  preSlack(x) \in Nat /\ preSlack(x) >= 1 /\ minStartCycle(x) \in Nat
  OBVIOUS
<1>1. preSlack(x) \in Nat /\ preSlack(x) >= 1
  BY WeaveAssumption DEF preSlack, AtLeast
<1>2. OrigStart(x[3]) \in Nat
  BY CrossingType, OrigType, Zenon
<1> QED BY <1>1, <1>2, WeaveAssumption DEF minStartCycle

LEMMA AtLeastNat == \A m, n \in Nat : AtLeast(m, n) \in Nat /\ AtLeast(m, n) >= m /\ AtLeast(m, n) >= n
  BY DEF AtLeast

LEMMA LatestIs ==
    ASSUME NEW a \in Nat, NEW b \in Nat, NEW c \in Nat
    PROVE  \E n \in Nat : n = AtLeast(a, AtLeast(b, c)) /\ n >= c /\ n \in {a, b, c}
  BY DEF AtLeast

LEMMA OutIs == Out \notin Nat
  BY DEF Out

\* The events of an access are what their names say.
LEMMA Names ==
    ASSUME NEW b \in Cores, NEW c \in Cores, NEW j \in 1 .. K, NEW k \in 1 .. K
    PROVE  /\ Ev("core", c, k) \in Events /\ Ev("mem", c, k) \in Events
           /\ Ev("req", c, k) \in Events /\ Ev("rsp", c, k) \in Events
           /\ Ev("core", b, j) = Ev("core", c, k) <=> b = c /\ j = k
           /\ Ev("mem", b, j) = Ev("mem", c, k) <=> b = c /\ j = k
           /\ Ev("req", b, j) = Ev("req", c, k) <=> b = c /\ j = k
           /\ Ev("rsp", b, j) = Ev("rsp", c, k) <=> b = c /\ j = k
           /\ Ev("core", b, j) # Ev("mem", c, k) /\ Ev("core", b, j) # Ev("req", c, k)
           /\ Ev("core", b, j) # Ev("rsp", c, k) /\ Ev("mem", b, j) # Ev("req", c, k)
           /\ Ev("mem", b, j) # Ev("rsp", c, k) /\ Ev("req", b, j) # Ev("rsp", c, k)
           /\ Ev("mem", b, j) # Ev("core", c, k) /\ Ev("req", b, j) # Ev("core", c, k)
           /\ Ev("rsp", b, j) # Ev("core", c, k) /\ Ev("req", b, j) # Ev("mem", c, k)
           /\ Ev("rsp", b, j) # Ev("mem", c, k) /\ Ev("rsp", b, j) # Ev("req", c, k)
<1>1. /\ Ev("core", c, k) \in Events /\ Ev("mem", c, k) \in Events
      /\ Ev("req", c, k) \in Events /\ Ev("rsp", c, k) \in Events
  BY IsEvent, Zenon
<1> QED BY <1>1, Zenon DEF Ev

-----------------------------------------------------------------------------
(* The inductive invariant of the domains.                                 *)

Types ==
    /\ q \in [Events -> Nat \cup {Out}]
    /\ curBlock \in [Cores -> Nat] /\ cur \in [Cores -> Nat] /\ limit \in Nat
    /\ pc \in [Cores -> Serving \cup {"loop", "advance", "finished"}]
    /\ DOMAIN running = Cores /\ next \in [Cores -> Nat]
    /\ DOMAIN called = Crossings
    /\ doneCycle \in [Crossings -> Nat] /\ first \in [Crossings -> Nat]
    /\ slack \in [Cores -> Nat]

\* The event that a thread has in hand is not queued.
Served ==
    \A d \in Cores : pc[d] \in Serving =>
        /\ running[d] \in EventsOf[d] /\ q[running[d]] = Out
        /\ pc[d] \in Own <=> running[d] \notin Crossings
        /\ pc[d] = "mark" => running[d][1] = "core"
        /\ pc[d] \in Read => next[d] >= cur[d]

\* Nothing is queued in the past, and the queue is not ahead of the clock.
Clocks ==
    \A d \in Cores :
        /\ curBlock[d] * BlockCycles <= cur[d]
        /\ curBlock[d] * BlockCycles <= limit
        /\ \A e \in Queued(d) : cur[d] <= q[e]

\* The ring holds one turn from the current block on, and a far element was
\* out of reach when the ring was last filled, at most half a turn ago.
Ring ==
    /\ \A d \in Cores : \A e \in Queued(d) \ feMap :
          curBlock[d] <= BlockOf(q[e]) /\ BlockOf(q[e]) < curBlock[d] + PQ_BLOCKS
    /\ feMap \subseteq Events
    /\ \A e \in feMap :
          /\ q[e] # Out
          /\ \A m \in 0 .. curBlock[DomainOf(e)] : m % Half = 0 => q[e] >= (m + PQ_BLOCKS) * BlockCycles

\* An event is live while it is queued or in the hand of a thread.
Runs(e) == pc[DomainOf(e)] \in Serving /\ running[DomainOf(e)] = e

Live(e) == q[e] # Out \/ Runs(e)
When(e) == IF q[e] # Out THEN q[e] ELSE cur[DomainOf(e)]
\* A core has one event of its own under way, and one request crossing.
Alone ==
    \A c \in Cores, j, k \in 1 .. K :
        /\ Live(Ev("core", c, j)) /\ Live(Ev("core", c, k)) => j = k
        /\ Live(Ev("rsp", c, j)) /\ Live(Ev("rsp", c, k)) => j = k
        /\ ~ (Live(Ev("core", c, j)) /\ Live(Ev("rsp", c, k)))
        /\ Live(Ev("req", c, j)) /\ Live(Ev("req", c, k)) => j = k

\* The order of the events of an access and of the next one.
Order ==
    \A c \in Cores, k \in 1 .. K :
        /\ called[Ev("rsp", c, k)] => called[Ev("req", c, k)]
        /\ k < K /\ called[Ev("req", c, k + 1)] => called[Ev("rsp", c, k)]
        /\ Live(Ev("core", c, k)) => ~ called[Ev("req", c, k)]
        /\ Live(Ev("core", c, k)) /\ k > 1 => called[Ev("rsp", c, k - 1)]
        /\ Live(Ev("rsp", c, k)) => called[Ev("req", c, k)]
        /\ Live(Ev("rsp", c, k)) /\ k < K => ~ called[Ev("req", c, k + 1)]
        /\ Live(Ev("req", c, k)) => ~ called[Ev("rsp", c, k)] /\ ~ Live(Ev("mem", c, k))
        /\ Live(Ev("mem", c, k)) => called[Ev("req", c, k)] /\ ~ called[Ev("rsp", c, k)]

\* What an event waits for was done before its cycle, and the events of a core
\* keep the distances of the bound phase.
Times ==
    \A c \in Cores, k \in 1 .. K :
        /\ Live(Ev("mem", c, k)) => When(Ev("mem", c, k)) >= doneCycle[Ev("req", c, k)]
        /\ Live(Ev("core", c, k)) /\ k > 1 => When(Ev("core", c, k)) >= doneCycle[Ev("rsp", c, k - 1)]
        /\ Live(Ev("core", c, k)) => When(Ev("core", c, k)) >= OrigStart(k) + slack[c]
        /\ Live(Ev("rsp", c, k)) => doneCycle[Ev("req", c, k)] >= OrigStart(k) + slack[c] + CoreDelay
        /\ Live(Ev("rsp", c, k)) /\ called[Ev("rsp", c, k)] =>
              doneCycle[Ev("rsp", c, k)] >= OrigStart(k) + slack[c] + CoreDelay + MemDelay

\* No event of the domain will run before cycle n.
Floor(d, n) ==
    /\ \A e \in Queued(d) : n <= q[e]
    /\ pc[d] \in Serving => n <= cur[d]

Soon(x, n) ==
    \/ n <= first[x]
    \/ n <= minStartCycle(x) + slack[x[2]]
    \/ Floor(SrcDomain(x), n - preSlack(x))

\* A crossing whose source is not done waits no longer than it may.
Waiting ==
    \A x \in Crossings : ~ called[x] /\ Live(x) =>
        /\ Soon(x, When(x))
        /\ Runs(x) /\ pc[DomainOf(x)] \in Read => Soon(x, next[DomainOf(x)])

WInv == Types /\ Served /\ Clocks /\ Ring /\ Alone /\ Order /\ Times /\ Waiting /\ CrossingNotLate
-----------------------------------------------------------------------------
(* Events that enter the queue of their domain, not in its past.           *)

Adds(d, newq) ==
    /\ newq \in [Events -> Nat \cup {Out}]
    /\ \A e \in Events : newq[e] # q[e] => q[e] = Out /\ DomainOf(e) = d /\ newq[e] >= cur[d]

\* The facts about a step that queues events of domain d again or anew.
Enqueues(d, newq) ==
    /\ pc[d] \in Serving /\ Adds(d, newq) /\ enqueue(newq) /\ Go(d, "advance")
    /\ UNCHANGED <<cur, limit, running, next>>

LEMMA QueuedFacts ==
    ASSUME Types, NEW d \in Cores
    PROVE  /\ \A e \in Queued(d) : e \in Events /\ DomainOf(e) = d /\ q[e] \in Nat
           /\ \A e \in Events : DomainOf(e) = d /\ q[e] # Out => e \in Queued(d)
  BY Zenon DEF Types, Queued, EventsOf

LEMMA EnqueueRing ==
    ASSUME Types, Clocks, Ring, NEW d \in Cores, NEW newq, Adds(d, newq), enqueue(newq)
    PROVE  Ring'
<1>1. /\ q' = newq /\ curBlock' = curBlock
      /\ \A e \in Events : e \in feMap' <=>
            e \in feMap \/ (q[e] = Out /\ newq[e] # Out
                              /\ BlockOf(newq[e]) >= curBlock[DomainOf(e)] + PQ_BLOCKS)
      /\ feMap' \subseteq Events
  BY Zenon DEF enqueue, Ring, BlockOf
<1>2. ASSUME NEW e \in Events
      PROVE  /\ DomainOf(e) \in Cores /\ curBlock[DomainOf(e)] \in Nat
             /\ newq[e] \in Nat \cup {Out} /\ q[e] \in Nat \cup {Out} /\ (q[e] # Out => newq[e] = q[e])
  BY EventHome, Zenon DEF Adds, Types
<1>3. ASSUME NEW e \in Events, q[e] = Out, newq[e] # Out
      PROVE  newq[e] \in Nat /\ BlockOf(newq[e]) \in Nat /\ BlockOf(newq[e]) >= curBlock[DomainOf(e)]
  <2>1. newq[e] >= cur[d] /\ DomainOf(e) = d /\ newq[e] \in Nat
    BY <1>2, <1>3, Zenon DEF Adds
  <2>2. curBlock[d] * BlockCycles <= cur[d] /\ cur[d] \in Nat /\ curBlock[d] \in Nat
    BY Zenon DEF Clocks, Types
  <2>3. ~ (newq[e] < curBlock[d] * BlockCycles)
    BY <2>1, <2>2, Sizes
  <2>4. BlockOf(newq[e]) \in Nat /\ ~ (BlockOf(newq[e]) < curBlock[d])
    BY <2>1, <2>2, <2>3, BlockLess, Blocks, Zenon
  <2>5. BlockOf(newq[e]) >= curBlock[d]
    BY <2>2, <2>4
  <2> QED BY <2>1, <2>4, <2>5, Zenon
<1>4. ASSUME NEW c \in Cores, NEW e \in Queued(c)' \ feMap'
      PROVE  curBlock'[c] <= BlockOf(q'[e]) /\ BlockOf(q'[e]) < curBlock'[c] + PQ_BLOCKS
  <2>1. e \in Events /\ DomainOf(e) = c /\ newq[e] # Out /\ e \notin feMap'
    BY <1>1, Zenon DEF Queued, EventsOf
  <2>2. CASE q[e] = Out
    <3>1. ~ (BlockOf(newq[e]) >= curBlock[c] + PQ_BLOCKS)
      BY <1>1, <2>1, <2>2, Zenon
    <3>2. BlockOf(newq[e]) \in Nat /\ BlockOf(newq[e]) >= curBlock[c] /\ curBlock[c] \in Nat
      BY <1>2, <1>3, <2>1, <2>2, Zenon
    <3>3. curBlock[c] <= BlockOf(newq[e]) /\ BlockOf(newq[e]) < curBlock[c] + PQ_BLOCKS
      BY <3>1, <3>2, Sizes
    <3> QED BY <1>1, <3>3, Zenon
  <2>3. CASE q[e] # Out
    <3>1. e \in Queued(c) \ feMap
      BY <1>1, <2>1, <2>3, QueuedFacts, Zenon
    <3> QED BY <1>1, <1>2, <2>1, <2>3, <3>1, Zenon DEF Ring
  <2> QED BY <2>2, <2>3, Zenon
<1>5. ASSUME NEW e \in feMap'
      PROVE  /\ q'[e] # Out
             /\ \A m \in 0 .. curBlock'[DomainOf(e)] : m % Half = 0 => q'[e] >= (m + PQ_BLOCKS) * BlockCycles
  <2>1. e \in Events
    BY <1>1, Zenon
  <2>2. CASE e \in feMap
    BY <1>1, <1>2, <2>1, <2>2, Zenon DEF Ring
  <2>3. CASE e \notin feMap
    <3>1. q[e] = Out /\ newq[e] # Out /\ BlockOf(newq[e]) >= curBlock[DomainOf(e)] + PQ_BLOCKS
      BY <1>1, <2>1, <2>3, Zenon
    <3>2. ASSUME NEW m \in 0 .. curBlock[DomainOf(e)]
          PROVE  newq[e] >= (m + PQ_BLOCKS) * BlockCycles
      <4>1. m + PQ_BLOCKS \in Nat /\ BlockOf(newq[e]) >= m + PQ_BLOCKS /\ newq[e] \in Nat /\ BlockOf(newq[e]) \in Nat
        BY <1>2, <1>3, <2>1, <3>1, Sizes
      <4>2. ~ (newq[e] < (m + PQ_BLOCKS) * BlockCycles)
        BY <4>1, BlockLess
      <4> QED BY <4>1, <4>2, Sizes
    <3> QED BY <1>1, <3>1, <3>2, Zenon
  <2> QED BY <2>2, <2>3, Zenon
<1> QED BY <1>1, <1>4, <1>5, Zenon DEF Ring

\* Such a step keeps the clocks sound and the floors of both domains.
LEMMA EnqueueForward ==
    ASSUME Types, Clocks, NEW d \in Cores, pc[d] \in Serving, NEW newq, Adds(d, newq), enqueue(newq),
           Go(d, "advance"), UNCHANGED <<cur, limit>>
    PROVE  /\ Clocks'
           /\ \A c \in Cores, n \in Int : Floor(c, n) => Floor(c, n)'
<1>1. q' = newq /\ curBlock' = curBlock /\ \A c \in Cores : pc'[c] = IF c = d THEN "advance" ELSE pc[c]
  BY Zenon DEF enqueue, Go, Types
<1>2. \A c \in Cores : cur[c] \in Nat
  BY Zenon DEF Types
<1>3. ASSUME NEW c \in Cores, NEW e \in Queued(c)'
      PROVE  /\ e \in Events /\ q'[e] \in Nat
             /\ (e \in Queued(c) /\ q'[e] = q[e]) \/ (c = d /\ q'[e] >= cur[d])
  <2>1. e \in Events /\ DomainOf(e) = c /\ newq[e] # Out
    BY <1>1, Zenon DEF Queued, EventsOf
  <2> QED BY <1>1, <2>1, QueuedFacts, Zenon DEF Adds
<1>4. Clocks'
  BY <1>1, <1>2, <1>3, Zenon DEF Clocks
<1>5. ASSUME NEW c \in Cores, NEW n \in Int, Floor(c, n) PROVE Floor(c, n)'
  BY <1>1, <1>2, <1>3, <1>5 DEF Floor, Serving
<1> QED BY <1>4, <1>5, Zenon

LEMMA WhenType == ASSUME Types, NEW e \in Events PROVE When(e) \in Nat
  BY EventHome, Zenon DEF When, Types

LEMMA EnqueueFacts ==
    ASSUME WInv, NEW d \in Cores, NEW newq, Enqueues(d, newq)
    PROVE  /\ q' = newq /\ pc'[d] = "advance" /\ \A c \in Cores : c # d => pc'[c] = pc[c]
           /\ q' \in [Events -> Nat \cup {Out}]
           /\ pc' \in [Cores -> Serving \cup {"loop", "advance", "finished"}]
           /\ \A e \in Events : DomainOf(e) # d => q'[e] = q[e]
           /\ \A e \in Events : q[e] # Out => q'[e] = q[e]
           /\ Served' /\ Clocks' /\ Ring'
           /\ curBlock' = curBlock
           /\ \A c \in Cores, n \in Int : Floor(c, n) => Floor(c, n)'
           /\ \A e \in Events : Runs(e)' <=> Runs(e) /\ DomainOf(e) # d
           /\ \A e \in Events : Live(e)' <=> (q'[e] # Out \/ (Runs(e) /\ DomainOf(e) # d))
<1>1. /\ q' = newq /\ pc'[d] = "advance" /\ (\A c \in Cores : c # d => pc'[c] = pc[c])
      /\ q' \in [Events -> Nat \cup {Out}] /\ curBlock' = curBlock
      /\ pc' \in [Cores -> Serving \cup {"loop", "advance", "finished"}]
      /\ UNCHANGED <<cur, limit, running, next>>
  BY Zenon DEF Enqueues, enqueue, Adds, Go, WInv, Types
<1>2. /\ \A e \in Events : DomainOf(e) # d => q'[e] = q[e]
      /\ \A e \in Events : q[e] # Out => q'[e] = q[e]
  BY <1>1, Zenon DEF Enqueues, Adds
<1>3. Ring' /\ Clocks' /\ \A c \in Cores, n \in Int : Floor(c, n) => Floor(c, n)'
  BY EnqueueRing, EnqueueForward, Zenon DEF Enqueues, WInv
<1>4. Served'
  <2> SUFFICES ASSUME NEW c \in Cores, pc'[c] \in Serving
               PROVE  /\ running[c] \in EventsOf[c] /\ q'[running[c]] = Out
                      /\ pc'[c] \in Own <=> running[c] \notin Crossings
                      /\ pc'[c] = "mark" => running[c][1] = "core"
                      /\ pc'[c] \in Read => next[c] >= cur[c]
    BY <1>1, Zenon DEF Served
  <2>1. c # d /\ pc'[c] = pc[c]
    BY <1>1, Zenon DEF Serving
  <2>2. /\ running[c] \in EventsOf[c] /\ q[running[c]] = Out
        /\ pc[c] \in Own <=> running[c] \notin Crossings
        /\ pc[c] = "mark" => running[c][1] = "core"
        /\ pc[c] \in Read => next[c] >= cur[c]
    BY <2>1, Zenon DEF WInv, Served
  <2>3. q'[running[c]] = Out
    BY <1>2, <2>1, <2>2, Zenon DEF EventsOf
  <2> QED BY <2>1, <2>2, <2>3, Zenon
<1>5. \A e \in Events : Runs(e)' <=> Runs(e) /\ DomainOf(e) # d
  BY <1>1, EventHome, Zenon DEF Runs, Serving
<1>6. \A e \in Events : Live(e)' <=> (q'[e] # Out \/ (Runs(e) /\ DomainOf(e) # d))
  BY <1>5, Zenon DEF Live
<1> QED BY <1>1, <1>2, <1>3, <1>4, <1>5, <1>6, Zenon

LEMMA EnqueueSame ==
    ASSUME WInv, NEW d \in Cores, NEW newq, Enqueues(d, newq),
           NEW f \in Events, f # running[d], newq[f] = q[f]
    PROVE  /\ Live(f)' <=> Live(f)
           /\ Runs(f)' <=> Runs(f)
           /\ When(f)' = When(f) /\ When(f) \in Nat
           /\ Runs(f)' => (pc[DomainOf(f)])' = pc[DomainOf(f)] /\ (next[DomainOf(f)])' = next[DomainOf(f)]
<1>1. DomainOf(f) \in Cores /\ When(f) \in Nat
  BY EventHome, WhenType, Zenon DEF WInv
<1>2. Runs(f) => DomainOf(f) # d
  BY Zenon DEF Runs
<1>3. /\ q' = newq /\ (Runs(f)' <=> Runs(f) /\ DomainOf(f) # d)
      /\ \A c \in Cores : c # d => pc'[c] = pc[c]
  BY EnqueueFacts, Zenon
<1>4. cur' = cur /\ next' = next
  BY Zenon DEF Enqueues
<1> QED BY <1>1, <1>2, <1>3, <1>4, Zenon DEF Live, When

\* A step that is done with an event: it is gone, and what it queued is due.
LEMMA EnqueueNew ==
    ASSUME WInv, NEW d \in Cores, NEW newq, Enqueues(d, newq), NEW f \in Events, DomainOf(f) = d
    PROVE  /\ ~ Runs(f)' /\ (Live(f)' <=> newq[f] # Out)
           /\ newq[f] \in Nat => When(f)' = newq[f]
<1>1. q' = newq /\ ~ Runs(f)'
  BY EnqueueFacts, Zenon
<1> QED BY <1>1, OutIs, Zenon DEF Live, When

\* What the invariant says of one access.
LEMMA AloneAt ==
    ASSUME WInv, NEW c \in Cores, NEW j \in 1 .. K, NEW k \in 1 .. K
    PROVE  /\ Live(Ev("core", c, j)) /\ Live(Ev("core", c, k)) => j = k
           /\ Live(Ev("rsp", c, j)) /\ Live(Ev("rsp", c, k)) => j = k
           /\ ~ (Live(Ev("core", c, j)) /\ Live(Ev("rsp", c, k)))
           /\ Live(Ev("req", c, j)) /\ Live(Ev("req", c, k)) => j = k
  BY Zenon DEF WInv, Alone

LEMMA OrderAt ==
    ASSUME WInv, NEW c \in Cores, NEW k \in 1 .. K
    PROVE  /\ called[Ev("rsp", c, k)] => called[Ev("req", c, k)]
           /\ k < K /\ called[Ev("req", c, k + 1)] => called[Ev("rsp", c, k)]
           /\ Live(Ev("core", c, k)) => ~ called[Ev("req", c, k)]
           /\ Live(Ev("core", c, k)) /\ k > 1 => called[Ev("rsp", c, k - 1)]
           /\ Live(Ev("rsp", c, k)) => called[Ev("req", c, k)]
           /\ Live(Ev("rsp", c, k)) /\ k < K => ~ called[Ev("req", c, k + 1)]
           /\ Live(Ev("req", c, k)) => ~ called[Ev("rsp", c, k)] /\ ~ Live(Ev("mem", c, k))
           /\ Live(Ev("mem", c, k)) => called[Ev("req", c, k)] /\ ~ called[Ev("rsp", c, k)]
  BY Zenon DEF WInv, Order

LEMMA TimesAt ==
    ASSUME WInv, NEW c \in Cores, NEW k \in 1 .. K
    PROVE  /\ Live(Ev("mem", c, k)) => When(Ev("mem", c, k)) >= doneCycle[Ev("req", c, k)]
           /\ Live(Ev("core", c, k)) /\ k > 1 => When(Ev("core", c, k)) >= doneCycle[Ev("rsp", c, k - 1)]
           /\ Live(Ev("core", c, k)) => When(Ev("core", c, k)) >= OrigStart(k) + slack[c]
           /\ Live(Ev("rsp", c, k)) => doneCycle[Ev("req", c, k)] >= OrigStart(k) + slack[c] + CoreDelay
           /\ Live(Ev("rsp", c, k)) /\ called[Ev("rsp", c, k)] =>
                 doneCycle[Ev("rsp", c, k)] >= OrigStart(k) + slack[c] + CoreDelay + MemDelay
  BY Zenon DEF WInv, Times

\* The event in the hand of a thread.
LEMMA InHand ==
    ASSUME WInv, NEW d \in Cores, pc[d] \in Serving
    PROVE  /\ running[d] \in Events /\ DomainOf(running[d]) = d /\ Runs(running[d]) /\ Live(running[d])
           /\ q[running[d]] = Out /\ When(running[d]) = cur[d] /\ cur[d] \in Nat
           /\ pc[d] \in Own <=> running[d] \notin Crossings
           /\ pc[d] = "mark" => running[d][1] = "core"
  BY Zenon DEF WInv, Served, Types, EventsOf, Runs, Live, When

-----------------------------------------------------------------------------
(* The steps that are done with an event.                                  *)

LEMMA SoonGrows ==
    ASSUME WInv, NEW x \in Crossings, NEW n \in Int, Soon(x, n),
           first'[x] = first[x], slack'[x[2]] \in Nat, slack'[x[2]] >= slack[x[2]],
           \A c \in Cores, m \in Int : Floor(c, m) => Floor(c, m)'
    PROVE  Soon(x, n)'
<1>1. /\ SrcDomain(x) \in Cores /\ n - preSlack(x) \in Int /\ minStartCycle(x) \in Int
      /\ slack[x[2]] \in Int
  BY CrossingType, SlackType DEF WInv, Types
<1>2. CASE n <= first[x]
  BY <1>2, Zenon DEF Soon
<1>3. CASE n <= minStartCycle(x) + slack[x[2]]
  BY <1>1, <1>3 DEF Soon
<1>4. CASE Floor(SrcDomain(x), n - preSlack(x))
  BY <1>1, <1>4, Zenon DEF Soon
<1> QED BY <1>2, <1>3, <1>4, Zenon DEF Soon

\* A crossing that was live and is not called stays soon enough.
LEMMA WaitsOn ==
    ASSUME WInv, NEW y \in Crossings, ~ called[y], Live(y), When(y)' = When(y),
           Runs(y)' => /\ Runs(y)
                       /\ (pc[DomainOf(y)])' = pc[DomainOf(y)] /\ (next[DomainOf(y)])' = next[DomainOf(y)],
           first'[y] = first[y], slack'[y[2]] \in Nat, slack'[y[2]] >= slack[y[2]],
           \A c \in Cores, m \in Int : Floor(c, m) => Floor(c, m)'
    PROVE  /\ Soon(y, When(y))'
           /\ Runs(y)' /\ (pc[DomainOf(y)])' \in Read => Soon(y, next[DomainOf(y)])'
<1>1. When(y) \in Int /\ next[DomainOf(y)] \in Int
  BY WhenType, CrossingType DEF WInv, Types
<1>2. PICK n \in Int, m \in Int : n = When(y) /\ m = next[DomainOf(y)]
  BY <1>1, Zenon
<1>3. Soon(y, n) /\ (Runs(y) /\ pc[DomainOf(y)] \in Read => Soon(y, m))
  BY <1>2, Zenon DEF WInv, Waiting
<1>4. Soon(y, n)' /\ (Soon(y, m) => Soon(y, m)')
  BY <1>3, SoonGrows, Zenon
<1> QED BY <1>2, <1>3, <1>4, Zenon

\* The delays an access has at least.
LEMMA Starts ==
    ASSUME NEW c \in Cores, NEW k \in 1 .. K
    PROVE  /\ minStartCycle(Ev("req", c, k)) = OrigStart(k) + preSlack(Ev("req", c, k))
           /\ minStartCycle(Ev("rsp", c, k)) = OrigStart(k) + CoreDelay + preSlack(Ev("rsp", c, k))
           /\ preSlack(Ev("req", c, k)) \in Nat /\ preSlack(Ev("req", c, k)) >= CoreDelay
           /\ preSlack(Ev("rsp", c, k)) \in Nat /\ preSlack(Ev("rsp", c, k)) >= MemDelay
           /\ SrcDomain(Ev("req", c, k)) = c /\ SrcDomain(Ev("rsp", c, k)) = Other(c)
           /\ OrigStart(k) \in Nat /\ CoreDelay \in Nat /\ MemDelay \in Nat
           /\ Ev("req", c, k)[2] = c /\ Ev("rsp", c, k)[2] = c
           /\ Ev("req", c, k) \in Crossings /\ Ev("rsp", c, k) \in Crossings
<1>1. /\ Ev("req", c, k)[1] = "req" /\ Ev("req", c, k)[2] = c /\ Ev("req", c, k)[3] = k
      /\ Ev("rsp", c, k)[1] = "rsp" /\ Ev("rsp", c, k)[2] = c /\ Ev("rsp", c, k)[3] = k
  BY Zenon DEF Ev
<1>2. CoreDelay \in Nat /\ MemDelay \in Nat /\ OrigStart(k) \in Nat
  BY WeaveAssumption, OrigType, Zenon
<1>3. /\ preSlack(Ev("req", c, k)) = AtLeast(1, CoreDelay)
      /\ preSlack(Ev("rsp", c, k)) = AtLeast(1, MemDelay)
  BY <1>1, Zenon DEF preSlack
<1>4. /\ preSlack(Ev("req", c, k)) \in Nat /\ preSlack(Ev("req", c, k)) >= CoreDelay
      /\ preSlack(Ev("rsp", c, k)) \in Nat /\ preSlack(Ev("rsp", c, k)) >= MemDelay
  BY <1>2, <1>3 DEF AtLeast
<1>5. /\ minStartCycle(Ev("req", c, k)) = OrigStart(k) + preSlack(Ev("req", c, k))
      /\ minStartCycle(Ev("rsp", c, k)) = OrigStart(k) + CoreDelay + preSlack(Ev("rsp", c, k))
  BY <1>1, <1>2, <1>4 DEF minStartCycle
<1>6. SrcDomain(Ev("req", c, k)) = c /\ SrcDomain(Ev("rsp", c, k)) = Other(c)
  BY Homes, TwoCores, Zenon DEF SrcDomain
<1> QED BY <1>1, <1>2, <1>4, <1>5, <1>6, IsCrossing, Zenon

LEMMA CoreWInv == ASSUME WInv, NEW d \in Cores, simulate_core(d) PROVE WInv'
<1>1. pc[d] = "mark" /\ pc[d] \in Serving
  BY Zenon DEF simulate_core, Serving
<1>2. PICK k \in 1 .. K : running[d] = Ev("core", d, k)
  <2>1. PICK kind \in Kinds, c \in Cores, k \in 1 .. K : running[d] = Ev(kind, c, k)
    BY <1>1, InHand, EventForm, Zenon
  <2>2. running[d][1] = "core"
    BY <1>1, InHand, Zenon
  <2>3. running[d] = Ev("core", c, k)
    BY <2>1, <2>2 DEF Ev
  <2>4. DomainOf(running[d]) = d
    BY <1>1, InHand, Zenon
  <2> QED BY <2>3, <2>4, Homes, Zenon
<1> DEFINE e == Ev("core", d, k)
           req == Ev("req", d, k)
           rsp == Ev("rsp", d, k)
           m == AtLeast(cur[d] + CoreDelay, minStartCycle(rsp))
           newq == [q EXCEPT ![rsp] = m]
<1>3. /\ e \in Events /\ req \in Crossings /\ rsp \in Crossings /\ rsp \in Events
      /\ DomainOf(rsp) = d /\ DomainOf(e) = d
  BY IsEvent, IsCrossing, Homes, Zenon
<1>4. /\ Live(e) /\ When(e) = cur[d] /\ cur[d] \in Nat
      /\ cur[d] >= OrigStart(k) + slack[d] /\ ~ called[req] /\ ~ Live(rsp)
      /\ k > 1 => called[Ev("rsp", d, k - 1)]
  <2>1. Live(e) /\ When(e) = cur[d] /\ cur[d] \in Nat
    BY <1>1, <1>2, InHand, Zenon
  <2>2. cur[d] >= OrigStart(k) + slack[d]
    BY <2>1, TimesAt, Zenon
  <2> QED BY <2>1, <2>2, OrderAt, AloneAt, Zenon
<1>5. /\ ~ called[rsp] /\ (k < K => ~ called[Ev("req", d, k + 1)]) /\ ~ Live(Ev("mem", d, k))
      /\ \A j \in 1 .. K : ~ Live(Ev("rsp", d, j)) /\ (j # k => ~ Live(Ev("core", d, j)))
  BY <1>4, Zenon DEF WInv, Alone, Order
<1>6. /\ slack' = slack
      /\ called' = [called EXCEPT ![req] = TRUE] /\ doneCycle' = [doneCycle EXCEPT ![req] = cur[d] + CoreDelay]
      /\ enqueue(newq) /\ first' = [first EXCEPT ![rsp] = m]
      /\ Go(d, "advance") /\ UNCHANGED <<cur, limit, running, next>>
  <2>1. running[d][2] = d /\ running[d][3] = k
    BY <1>2 DEF Ev
  <2> QED BY <2>1, Zenon DEF simulate_core, markSrcEventDone
<1>7. /\ m \in Nat /\ m >= cur[d] /\ OrigStart(k) \in Nat /\ CoreDelay \in Nat /\ slack[d] \in Nat
      /\ preSlack(req) \in Nat /\ preSlack(req) >= CoreDelay
      /\ minStartCycle(req) = OrigStart(k) + preSlack(req)
      /\ SrcDomain(req) = d /\ req[2] = d /\ rsp[2] = d
  <2>1. minStartCycle(rsp) \in Nat
    BY <1>3, SlackType, Zenon
  <2>2. slack[d] \in Nat
    BY Zenon DEF WInv, Types
  <2>3. preSlack(req) \in Nat /\ OrigStart(k) \in Nat /\ CoreDelay \in Nat
    BY Starts, Zenon
  <2>4. cur[d] + CoreDelay \in Nat /\ cur[d] + CoreDelay >= cur[d]
    BY <1>4, <2>3
  <2>5. m \in Nat /\ m >= cur[d] + CoreDelay
    BY <2>1, <2>4, AtLeastNat, Zenon
  <2> HIDE DEF m
  <2>6. m >= cur[d]
    BY <1>4, <2>3, <2>5
  <2> QED BY <2>2, <2>3, <2>5, <2>6, Starts, Zenon
<1> HIDE DEF e, req, rsp, m
<1>8. newq \in [Events -> Nat \cup {Out}] /\ newq[rsp] = m /\ \A f \in Events : f # rsp => newq[f] = q[f]
  BY <1>3, <1>7, Zenon DEF WInv, Types
<1>9. Enqueues(d, newq)
  <2>1. q[rsp] = Out
    BY <1>4, Zenon DEF Live
  <2>2. Adds(d, newq)
    BY <1>3, <1>7, <1>8, <2>1, Zenon DEF Adds
  <2> QED BY <1>1, <1>6, <2>2, Zenon DEF Enqueues
<1> HIDE DEF newq
<1>10. /\ q' = newq /\ q' \in [Events -> Nat \cup {Out}] /\ curBlock' = curBlock
       /\ pc' \in [Cores -> Serving \cup {"loop", "advance", "finished"}] /\ pc'[d] = "advance"
       /\ Served' /\ Clocks' /\ Ring'
       /\ \A c \in Cores, n \in Int : Floor(c, n) => Floor(c, n)'
  BY <1>9, EnqueueFacts, Zenon
<1>11. \A f \in Events : f # e /\ f # rsp =>
          /\ Live(f)' <=> Live(f)
          /\ Runs(f)' <=> Runs(f)
          /\ When(f)' = When(f) /\ When(f) \in Nat
          /\ Runs(f)' => (pc[DomainOf(f)])' = pc[DomainOf(f)] /\ (next[DomainOf(f)])' = next[DomainOf(f)]
  BY <1>2, <1>8, <1>9, EnqueueSame, Zenon DEF e
<1>12. ~ Live(e)' /\ ~ Runs(rsp)' /\ When(rsp)' = m
  <2>1. e # rsp
    BY Names, Zenon DEF e, rsp
  <2>2. q[e] = Out
    BY <1>1, <1>2, InHand, Zenon DEF e
  <2>3. ~ Live(e)'
    BY <1>3, <1>8, <1>9, <2>1, <2>2, EnqueueNew, Zenon
  <2> QED BY <1>3, <1>7, <1>8, <1>9, <2>3, EnqueueNew, Zenon
<1>13. Types' /\ \A c \in Cores : slack'[c] \in Nat /\ slack'[c] >= slack[c]
  <2>1. cur[d] + CoreDelay \in Nat
    BY <1>4, <1>7
  <2>2. slack' \in [Cores -> Nat] /\ \A c \in Cores : slack'[c] \in Nat /\ slack'[c] >= slack[c]
    BY <1>6 DEF WInv, Types
  <2>3. doneCycle' \in [Crossings -> Nat] /\ first' \in [Crossings -> Nat] /\ DOMAIN called' = Crossings
    BY <1>3, <1>6, <1>7, <2>1, Zenon DEF WInv, Types
  <2> QED BY <1>6, <1>10, <2>2, <2>3, Zenon DEF WInv, Types
<1>14. /\ called'[req] /\ doneCycle'[req] = cur[d] + CoreDelay /\ first'[rsp] = m
       /\ \A c \in Cores : slack'[c] = slack[c]
       /\ \A x \in Crossings : x # req => called'[x] = called[x] /\ doneCycle'[x] = doneCycle[x]
       /\ \A x \in Crossings : x # rsp => first'[x] = first[x]
  BY <1>3, <1>6, Zenon DEF WInv, Types
<1>15. ASSUME NEW c \in Cores, NEW j \in 1 .. K
       PROVE  /\ Live(Ev("core", c, j))' => Live(Ev("core", c, j)) /\ c # d
                                             /\ When(Ev("core", c, j))' = When(Ev("core", c, j))
              /\ Live(Ev("mem", c, j))' <=> Live(Ev("mem", c, j))
              /\ When(Ev("mem", c, j))' = When(Ev("mem", c, j))
              /\ Live(Ev("req", c, j))' <=> Live(Ev("req", c, j))
              /\ Live(Ev("rsp", c, j))' => (c = d /\ j = k) \/ (c # d /\ Live(Ev("rsp", c, j)))
  <2>1. /\ Ev("core", c, j) \in Events /\ Ev("core", c, j) # rsp
        /\ Ev("mem", c, j) \in Events /\ Ev("mem", c, j) # rsp /\ Ev("mem", c, j) # e
        /\ Ev("req", c, j) \in Events /\ Ev("req", c, j) # rsp /\ Ev("req", c, j) # e
        /\ Ev("rsp", c, j) \in Events /\ Ev("rsp", c, j) # e
        /\ Ev("core", c, j) = e <=> c = d /\ j = k
        /\ Ev("rsp", c, j) = rsp <=> c = d /\ j = k
    BY Names DEF e, rsp
  <2> QED BY <1>5, <1>11, <1>12, <2>1, Zenon
<1>16. Alone'
  BY <1>15, Zenon DEF WInv, Alone
<1>17. ASSUME NEW c \in Cores, NEW j \in 1 .. K
       PROVE  /\ called'[Ev("rsp", c, j)] = called[Ev("rsp", c, j)]
              /\ doneCycle'[Ev("rsp", c, j)] = doneCycle[Ev("rsp", c, j)]
              /\ called[Ev("req", c, j)] => called'[Ev("req", c, j)]
              /\ called'[Ev("req", c, j)] => called[Ev("req", c, j)] \/ (c = d /\ j = k)
              /\ ~ (c = d /\ j = k) => doneCycle'[Ev("req", c, j)] = doneCycle[Ev("req", c, j)]
  <2>1. /\ Ev("rsp", c, j) \in Crossings /\ Ev("rsp", c, j) # req
        /\ Ev("req", c, j) \in Crossings /\ (Ev("req", c, j) = req <=> c = d /\ j = k)
    BY Names, IsCrossing DEF req
  <2> QED BY <1>14, <2>1, Zenon
<1>18. Order'
  <2> SUFFICES ASSUME NEW c \in Cores, NEW j \in 1 .. K
               PROVE  /\ called'[Ev("rsp", c, j)] => called'[Ev("req", c, j)]
                      /\ j < K /\ called'[Ev("req", c, j + 1)] => called'[Ev("rsp", c, j)]
                      /\ Live(Ev("core", c, j))' => ~ called'[Ev("req", c, j)]
                      /\ Live(Ev("core", c, j))' /\ j > 1 => called'[Ev("rsp", c, j - 1)]
                      /\ Live(Ev("rsp", c, j))' => called'[Ev("req", c, j)]
                      /\ Live(Ev("rsp", c, j))' /\ j < K => ~ called'[Ev("req", c, j + 1)]
                      /\ Live(Ev("req", c, j))' => ~ called'[Ev("rsp", c, j)] /\ ~ Live(Ev("mem", c, j))'
                      /\ Live(Ev("mem", c, j))' => called'[Ev("req", c, j)] /\ ~ called'[Ev("rsp", c, j)]
    BY Zenon DEF Order
  <2>1. /\ called[Ev("rsp", c, j)] => called[Ev("req", c, j)]
        /\ j < K /\ called[Ev("req", c, j + 1)] => called[Ev("rsp", c, j)]
        /\ Live(Ev("core", c, j)) => ~ called[Ev("req", c, j)]
        /\ Live(Ev("core", c, j)) /\ j > 1 => called[Ev("rsp", c, j - 1)]
        /\ Live(Ev("rsp", c, j)) => called[Ev("req", c, j)]
        /\ Live(Ev("rsp", c, j)) /\ j < K => ~ called[Ev("req", c, j + 1)]
        /\ Live(Ev("req", c, j)) => ~ called[Ev("rsp", c, j)] /\ ~ Live(Ev("mem", c, j))
        /\ Live(Ev("mem", c, j)) => called[Ev("req", c, j)] /\ ~ called[Ev("rsp", c, j)]
    BY Zenon DEF WInv, Order
  <2>2. (j > 1 => j - 1 \in 1 .. K) /\ (j < K => j + 1 \in 1 .. K /\ j + 1 - 1 = j)
    BY IsCrossing
  <2>3. called'[Ev("rsp", c, j)] => called'[Ev("req", c, j)]
    BY <1>17, <2>1, Zenon
  <2>4. j < K /\ called'[Ev("req", c, j + 1)] => called'[Ev("rsp", c, j)]
    BY <1>4, <1>17, <2>1, <2>2
  <2>5. Live(Ev("core", c, j))' => ~ called'[Ev("req", c, j)] /\ (j > 1 => called'[Ev("rsp", c, j - 1)])
    BY <1>15, <1>17, <2>1, <2>2, Zenon
  <2>6. Live(Ev("rsp", c, j))' => called'[Ev("req", c, j)] /\ (j < K => ~ called'[Ev("req", c, j + 1)])
    <3>1. CASE c = d /\ j = k
      <4>1. j < K => ~ called'[Ev("req", c, j + 1)]
        BY <1>5, <1>17, <2>2, <3>1
      <4> QED BY <1>14, <3>1, <4>1, Zenon DEF req
    <3>2. CASE c # d /\ Live(Ev("rsp", c, j))
      BY <1>17, <2>1, <2>2, <3>2, Zenon
    <3> QED BY <1>15, <3>1, <3>2, Zenon
  <2>7. Live(Ev("req", c, j))' => ~ called'[Ev("rsp", c, j)] /\ ~ Live(Ev("mem", c, j))'
    BY <1>15, <1>17, <2>1, Zenon
  <2>8. Live(Ev("mem", c, j))' => called'[Ev("req", c, j)] /\ ~ called'[Ev("rsp", c, j)]
    BY <1>15, <1>17, <2>1, Zenon
  <2> QED BY <2>3, <2>4, <2>5, <2>6, <2>7, <2>8, Zenon
<1>19. Times'
  <2> SUFFICES ASSUME NEW c \in Cores, NEW j \in 1 .. K
               PROVE  /\ Live(Ev("mem", c, j))' => When(Ev("mem", c, j))' >= doneCycle'[Ev("req", c, j)]
                      /\ Live(Ev("core", c, j))' /\ j > 1 => When(Ev("core", c, j))' >= doneCycle'[Ev("rsp", c, j - 1)]
                      /\ Live(Ev("core", c, j))' => When(Ev("core", c, j))' >= OrigStart(j) + slack'[c]
                      /\ Live(Ev("rsp", c, j))' => doneCycle'[Ev("req", c, j)] >= OrigStart(j) + slack'[c] + CoreDelay
                      /\ Live(Ev("rsp", c, j))' /\ called'[Ev("rsp", c, j)] =>
                            doneCycle'[Ev("rsp", c, j)] >= OrigStart(j) + slack'[c] + CoreDelay + MemDelay
    BY Zenon DEF Times
  <2>1. /\ Live(Ev("mem", c, j)) => When(Ev("mem", c, j)) >= doneCycle[Ev("req", c, j)]
        /\ Live(Ev("core", c, j)) /\ j > 1 => When(Ev("core", c, j)) >= doneCycle[Ev("rsp", c, j - 1)]
        /\ Live(Ev("core", c, j)) => When(Ev("core", c, j)) >= OrigStart(j) + slack[c]
        /\ Live(Ev("rsp", c, j)) => doneCycle[Ev("req", c, j)] >= OrigStart(j) + slack[c] + CoreDelay
        /\ Live(Ev("rsp", c, j)) /\ called[Ev("rsp", c, j)] =>
              doneCycle[Ev("rsp", c, j)] >= OrigStart(j) + slack[c] + CoreDelay + MemDelay
    BY Zenon DEF WInv, Times
  <2>2. j > 1 => j - 1 \in 1 .. K
    BY IsCrossing, Zenon
  <2>3. Live(Ev("mem", c, j))' => When(Ev("mem", c, j))' >= doneCycle'[Ev("req", c, j)]
    BY <1>5, <1>15, <1>17, <2>1, Zenon
  <2>4. Live(Ev("core", c, j))' /\ j > 1 => When(Ev("core", c, j))' >= doneCycle'[Ev("rsp", c, j - 1)]
    BY <1>15, <1>17, <2>1, <2>2, Zenon
  <2>5. Live(Ev("core", c, j))' => When(Ev("core", c, j))' >= OrigStart(j) + slack'[c]
    BY <1>14, <1>15, <2>1, Zenon
  <2>6. CASE c = d /\ j = k
    <3>1. doneCycle'[Ev("req", c, j)] = cur[d] + CoreDelay /\ slack'[c] = slack[d]
      BY <1>14, <2>6, Zenon DEF req
    <3>2. doneCycle'[Ev("req", c, j)] >= OrigStart(j) + slack'[c] + CoreDelay
      BY <1>4, <1>7, <2>6, <3>1
    <3>3. ~ called'[Ev("rsp", c, j)]
      BY <1>5, <1>17, <2>6, Zenon DEF rsp
    <3> QED BY <2>3, <2>4, <2>5, <3>2, <3>3, Zenon
  <2>7. CASE ~ (c = d /\ j = k)
    <3>1. Live(Ev("rsp", c, j))' => c # d /\ Live(Ev("rsp", c, j))
      BY <1>15, <2>7, Zenon
    <3>2. Live(Ev("rsp", c, j))' => doneCycle'[Ev("req", c, j)] >= OrigStart(j) + slack'[c] + CoreDelay
      BY <1>14, <1>17, <2>1, <2>7, <3>1, Zenon
    <3>3. Live(Ev("rsp", c, j))' /\ called'[Ev("rsp", c, j)] =>
            doneCycle'[Ev("rsp", c, j)] >= OrigStart(j) + slack'[c] + CoreDelay + MemDelay
      BY <1>14, <1>17, <2>1, <2>7, <3>1, Zenon
    <3> QED BY <2>3, <2>4, <2>5, <3>2, <3>3, Zenon
  <2> QED BY <2>6, <2>7, Zenon
<1>20. Waiting'
  <2> SUFFICES ASSUME NEW y \in Crossings, ~ called'[y], Live(y)'
               PROVE  /\ Soon(y, When(y))'
                      /\ Runs(y)' /\ (pc[DomainOf(y)])' \in Read => Soon(y, next[DomainOf(y)])'
    BY Zenon DEF Waiting
  <2>1. y # req /\ ~ called[y] /\ y \in Events /\ y[2] \in Cores /\ y # e
    BY <1>1, <1>2, <1>14, InHand, CrossingType DEF e
  <2>2. CASE y = rsp
    <3>1. PICK n \in Int : n = m
      BY <1>7
    <3>2. (n <= first[y])'
      BY <1>7, <1>14, <2>2, <3>1
    <3>3. Soon(y, n)'
      BY <3>2, Zenon DEF Soon
    <3>4. When(y)' = n /\ ~ Runs(y)'
      BY <1>12, <2>2, <3>1, Zenon
    <3> QED BY <3>3, <3>4, Zenon
  <2>3. CASE y # rsp
    <3>1. /\ Live(y) /\ When(y)' = When(y)
          /\ Runs(y)' => /\ Runs(y)
                         /\ (pc[DomainOf(y)])' = pc[DomainOf(y)] /\ (next[DomainOf(y)])' = next[DomainOf(y)]
      BY <1>11, <2>1, <2>3, Zenon
    <3>2. first'[y] = first[y] /\ slack'[y[2]] \in Nat /\ slack'[y[2]] >= slack[y[2]]
      BY <1>13, <1>14, <2>1, <2>3, Zenon
    <3> QED BY <1>10, <2>1, <3>1, <3>2, WaitsOn, Zenon
  <2> QED BY <2>2, <2>3, Zenon
<1>21. CrossingNotLate'
  <2> SUFFICES ASSUME NEW y \in Crossings, called'[y], q'[y] # Out
               PROVE  q'[y] <= AtLeast(first'[y], doneCycle'[y] + preSlack(y))
    BY Zenon DEF CrossingNotLate
  <2>1. y # rsp
    <3>1. req # rsp
      BY Names, Zenon DEF req, rsp
    <3> QED BY <1>3, <1>5, <1>14, <3>1, Zenon
  <2>2. q'[y] = q[y] /\ first'[y] = first[y] /\ y \in Events
    BY <1>8, <1>10, <1>14, <2>1, CrossingType, Zenon
  <2>3. CASE y = req
    <3>1. Live(y) /\ When(y) = q[y] /\ ~ called[y]
      BY <1>4, <2>2, <2>3, Zenon DEF Live, When
    <3>2. Soon(y, q[y])
      BY <3>1, Zenon DEF WInv, Waiting
    <3>3. q[y] \in Nat /\ first[y] \in Nat
      BY <2>2, Zenon DEF WInv, Types
    <3>4. q[y] <= first[y] \/ q[y] <= cur[d] + CoreDelay + preSlack(y)
      <4>1. CASE q[y] <= first[y]
        BY <4>1, Zenon
      <4>2. CASE q[y] <= minStartCycle(y) + slack[y[2]]
        BY <1>4, <1>7, <2>3, <3>3, <4>2
      <4>3. CASE Floor(SrcDomain(y), q[y] - preSlack(y))
        <5>1. q[y] - preSlack(y) <= cur[d]
          BY <1>1, <1>7, <2>3, <4>3, Zenon DEF Floor
        <5> QED BY <1>4, <1>7, <2>3, <3>3, <5>1
      <4> QED BY <3>2, <4>1, <4>2, <4>3, Zenon DEF Soon
    <3>5. q[y] <= AtLeast(first[y], cur[d] + CoreDelay + preSlack(y))
      BY <1>4, <1>7, <2>3, <3>3, <3>4 DEF AtLeast
    <3> QED BY <1>14, <2>2, <2>3, <3>5, Zenon
  <2>4. CASE y # req
    BY <1>14, <2>2, <2>4, Zenon DEF WInv, CrossingNotLate
  <2> QED BY <2>3, <2>4, Zenon
<1> QED BY <1>10, <1>13, <1>16, <1>18, <1>19, <1>20, <1>21, Zenon DEF WInv

LEMMA MemWInv == ASSUME WInv, NEW d \in Cores, simulate_mem(d) PROVE WInv'
<1>1. pc[d] = "run" /\ pc[d] \in Serving /\ pc[d] \in Own
  BY Zenon DEF simulate_mem, Serving, Own
<1>2. PICK b \in Cores, k \in 1 .. K : running[d] = Ev("mem", b, k) /\ d = Other(b)
  <2>1. PICK kind \in Kinds, c \in Cores, k \in 1 .. K : running[d] = Ev(kind, c, k)
    BY <1>1, InHand, EventForm, Zenon
  <2>2. running[d][1] = "mem"
    BY Zenon DEF simulate_mem
  <2>3. running[d] = Ev("mem", c, k)
    BY <2>1, <2>2 DEF Ev
  <2>4. DomainOf(running[d]) = d
    BY <1>1, InHand, Zenon
  <2>5. d = Other(c)
    BY <2>3, <2>4, Homes, Zenon
  <2> QED BY <2>3, <2>5, Zenon
<1> DEFINE e == Ev("mem", b, k)
           req == Ev("req", b, k)
           rsp == Ev("rsp", b, k)
<1>3. /\ e \in Events /\ req \in Crossings /\ rsp \in Crossings /\ rsp \in Events /\ DomainOf(e) = d
  BY <1>2, IsEvent, IsCrossing, Homes, Zenon
<1>4. /\ Live(e) /\ When(e) = cur[d] /\ cur[d] \in Nat /\ q[e] = Out
      /\ cur[d] >= doneCycle[req] /\ called[req] /\ ~ called[rsp] /\ ~ Live(req)
      /\ Live(rsp) => doneCycle[req] >= OrigStart(k) + slack[b] + CoreDelay
  <2>1. Live(e) /\ When(e) = cur[d] /\ cur[d] \in Nat /\ q[e] = Out
    BY <1>1, <1>2, InHand, Zenon
  <2>2. cur[d] >= doneCycle[req]
    BY <2>1, TimesAt, Zenon
  <2> QED BY <2>1, <2>2, OrderAt, TimesAt, Zenon
<1>5. k < K => ~ called[Ev("req", b, k + 1)] /\ ~ Live(Ev("core", b, k + 1))
  <2>1. ASSUME k < K PROVE ~ Live(Ev("core", b, k + 1))
    <3>1. k + 1 \in 1 .. K /\ k + 1 > 1 /\ k + 1 - 1 = k
      BY <2>1, IsCrossing
    <3>2. Live(Ev("core", b, k + 1)) => called[Ev("rsp", b, k + 1 - 1)]
      BY <3>1 DEF WInv, Order
    <3> QED BY <1>4, <3>1, <3>2, Zenon
  <2> QED BY <1>4, <2>1, Zenon DEF WInv, Order
<1>6. /\ called' = [called EXCEPT ![rsp] = TRUE] /\ doneCycle' = [doneCycle EXCEPT ![rsp] = cur[d] + MemDelay]
      /\ Go(d, "advance") /\ UNCHANGED <<pqs, cur, limit, running, next, first, slack>>
  <2>1. running[d][2] = b /\ running[d][3] = k
    BY <1>2 DEF Ev
  <2> QED BY <2>1, Zenon DEF simulate_mem, markSrcEventDone
<1>7. /\ OrigStart(k) \in Nat /\ CoreDelay \in Nat /\ MemDelay \in Nat /\ slack[b] \in Nat
      /\ doneCycle[req] \in Nat
      /\ preSlack(rsp) \in Nat /\ minStartCycle(rsp) = OrigStart(k) + CoreDelay + preSlack(rsp)
      /\ SrcDomain(rsp) = d /\ rsp[2] = b
  BY <1>2, <1>3, Starts, Zenon DEF WInv, Types
<1> HIDE DEF e, req, rsp
<1>8. Enqueues(d, q)
  <2>1. Adds(d, q)
    BY Zenon DEF Adds, WInv, Types
  <2>2. enqueue(q)
    BY <1>6, Zenon DEF enqueue, pqs
  <2> QED BY <1>1, <1>6, <2>1, <2>2, Zenon DEF Enqueues
<1>9. /\ q' = q /\ q' \in [Events -> Nat \cup {Out}] /\ curBlock' = curBlock
      /\ pc' \in [Cores -> Serving \cup {"loop", "advance", "finished"}] /\ pc'[d] = "advance"
      /\ Served' /\ Clocks' /\ Ring'
      /\ \A c \in Cores, n \in Int : Floor(c, n) => Floor(c, n)'
  BY <1>8, EnqueueFacts, Zenon
<1>10. \A f \in Events : f # e =>
          /\ Live(f)' <=> Live(f)
          /\ Runs(f)' <=> Runs(f)
          /\ When(f)' = When(f) /\ When(f) \in Nat
          /\ Runs(f)' => (pc[DomainOf(f)])' = pc[DomainOf(f)] /\ (next[DomainOf(f)])' = next[DomainOf(f)]
  BY <1>2, <1>8, EnqueueSame, Zenon DEF e
<1>11. ~ Live(e)'
  BY <1>3, <1>4, <1>9, Zenon DEF Live, Runs, Serving
<1>12. Types'
  <2>1. doneCycle' \in [Crossings -> Nat] /\ DOMAIN called' = Crossings
    BY <1>3, <1>4, <1>6, <1>7 DEF WInv, Types
  <2> QED BY <1>6, <1>9, <2>1, Zenon DEF WInv, Types
<1>13. /\ called'[rsp] /\ doneCycle'[rsp] = cur[d] + MemDelay
       /\ \A x \in Crossings : x # rsp => called'[x] = called[x] /\ doneCycle'[x] = doneCycle[x]
  BY <1>3, <1>6, Zenon DEF WInv, Types
<1>14. ASSUME NEW c \in Cores, NEW j \in 1 .. K
       PROVE  /\ Live(Ev("core", c, j))' <=> Live(Ev("core", c, j))
              /\ When(Ev("core", c, j))' = When(Ev("core", c, j))
              /\ Live(Ev("mem", c, j))' => Live(Ev("mem", c, j)) /\ ~ (c = b /\ j = k)
                                            /\ When(Ev("mem", c, j))' = When(Ev("mem", c, j))
              /\ Live(Ev("req", c, j))' <=> Live(Ev("req", c, j))
              /\ Live(Ev("rsp", c, j))' <=> Live(Ev("rsp", c, j))
  <2>1. /\ Ev("core", c, j) \in Events /\ Ev("core", c, j) # e
        /\ Ev("mem", c, j) \in Events /\ (Ev("mem", c, j) = e <=> c = b /\ j = k)
        /\ Ev("req", c, j) \in Events /\ Ev("req", c, j) # e
        /\ Ev("rsp", c, j) \in Events /\ Ev("rsp", c, j) # e
    BY Names DEF e
  <2> QED BY <1>10, <1>11, <2>1, Zenon
<1>15. Alone'
  BY <1>14 DEF WInv, Alone
<1>16. ASSUME NEW c \in Cores, NEW j \in 1 .. K
       PROVE  /\ called'[Ev("req", c, j)] = called[Ev("req", c, j)]
              /\ doneCycle'[Ev("req", c, j)] = doneCycle[Ev("req", c, j)]
              /\ called[Ev("rsp", c, j)] => called'[Ev("rsp", c, j)]
              /\ called'[Ev("rsp", c, j)] => called[Ev("rsp", c, j)] \/ (c = b /\ j = k)
              /\ ~ (c = b /\ j = k) => doneCycle'[Ev("rsp", c, j)] = doneCycle[Ev("rsp", c, j)]
  <2>1. /\ Ev("req", c, j) \in Crossings /\ Ev("req", c, j) # rsp
        /\ Ev("rsp", c, j) \in Crossings /\ (Ev("rsp", c, j) = rsp <=> c = b /\ j = k)
    BY Names, IsCrossing DEF rsp
  <2> QED BY <1>13, <2>1, Zenon
<1>17. Order'
  <2> SUFFICES ASSUME NEW c \in Cores, NEW j \in 1 .. K
               PROVE  /\ called'[Ev("rsp", c, j)] => called'[Ev("req", c, j)]
                      /\ j < K /\ called'[Ev("req", c, j + 1)] => called'[Ev("rsp", c, j)]
                      /\ Live(Ev("core", c, j))' => ~ called'[Ev("req", c, j)]
                      /\ Live(Ev("core", c, j))' /\ j > 1 => called'[Ev("rsp", c, j - 1)]
                      /\ Live(Ev("rsp", c, j))' => called'[Ev("req", c, j)]
                      /\ Live(Ev("rsp", c, j))' /\ j < K => ~ called'[Ev("req", c, j + 1)]
                      /\ Live(Ev("req", c, j))' => ~ called'[Ev("rsp", c, j)] /\ ~ Live(Ev("mem", c, j))'
                      /\ Live(Ev("mem", c, j))' => called'[Ev("req", c, j)] /\ ~ called'[Ev("rsp", c, j)]
    BY Zenon DEF Order
  <2>1. /\ called[Ev("rsp", c, j)] => called[Ev("req", c, j)]
        /\ j < K /\ called[Ev("req", c, j + 1)] => called[Ev("rsp", c, j)]
        /\ Live(Ev("core", c, j)) => ~ called[Ev("req", c, j)]
        /\ Live(Ev("core", c, j)) /\ j > 1 => called[Ev("rsp", c, j - 1)]
        /\ Live(Ev("rsp", c, j)) => called[Ev("req", c, j)]
        /\ Live(Ev("rsp", c, j)) /\ j < K => ~ called[Ev("req", c, j + 1)]
        /\ Live(Ev("req", c, j)) => ~ called[Ev("rsp", c, j)] /\ ~ Live(Ev("mem", c, j))
        /\ Live(Ev("mem", c, j)) => called[Ev("req", c, j)] /\ ~ called[Ev("rsp", c, j)]
    BY Zenon DEF WInv, Order
  <2>2. (j > 1 => j - 1 \in 1 .. K) /\ (j < K => j + 1 \in 1 .. K)
    BY IsCrossing, Zenon
  <2>3. called'[Ev("rsp", c, j)] => called'[Ev("req", c, j)]
    BY <1>4, <1>16, <2>1, Zenon DEF req
  <2>4. j < K /\ called'[Ev("req", c, j + 1)] => called'[Ev("rsp", c, j)]
    BY <1>16, <2>1, <2>2, Zenon
  <2>5. Live(Ev("core", c, j))' => ~ called'[Ev("req", c, j)] /\ (j > 1 => called'[Ev("rsp", c, j - 1)])
    BY <1>14, <1>16, <2>1, <2>2, Zenon
  <2>6. Live(Ev("rsp", c, j))' => called'[Ev("req", c, j)] /\ (j < K => ~ called'[Ev("req", c, j + 1)])
    BY <1>14, <1>16, <2>1, <2>2, Zenon
  <2>7. Live(Ev("req", c, j))' => ~ called'[Ev("rsp", c, j)] /\ ~ Live(Ev("mem", c, j))'
    BY <1>4, <1>14, <1>16, <2>1, Zenon DEF req
  <2>8. Live(Ev("mem", c, j))' => called'[Ev("req", c, j)] /\ ~ called'[Ev("rsp", c, j)]
    BY <1>14, <1>16, <2>1, Zenon
  <2> QED BY <2>3, <2>4, <2>5, <2>6, <2>7, <2>8, Zenon
<1>18. Times'
  <2> SUFFICES ASSUME NEW c \in Cores, NEW j \in 1 .. K
               PROVE  /\ Live(Ev("mem", c, j))' => When(Ev("mem", c, j))' >= doneCycle'[Ev("req", c, j)]
                      /\ Live(Ev("core", c, j))' /\ j > 1 => When(Ev("core", c, j))' >= doneCycle'[Ev("rsp", c, j - 1)]
                      /\ Live(Ev("core", c, j))' => When(Ev("core", c, j))' >= OrigStart(j) + slack'[c]
                      /\ Live(Ev("rsp", c, j))' => doneCycle'[Ev("req", c, j)] >= OrigStart(j) + slack'[c] + CoreDelay
                      /\ Live(Ev("rsp", c, j))' /\ called'[Ev("rsp", c, j)] =>
                            doneCycle'[Ev("rsp", c, j)] >= OrigStart(j) + slack'[c] + CoreDelay + MemDelay
    BY Zenon DEF Times
  <2>1. /\ Live(Ev("mem", c, j)) => When(Ev("mem", c, j)) >= doneCycle[Ev("req", c, j)]
        /\ Live(Ev("core", c, j)) /\ j > 1 => When(Ev("core", c, j)) >= doneCycle[Ev("rsp", c, j - 1)]
        /\ Live(Ev("core", c, j)) => When(Ev("core", c, j)) >= OrigStart(j) + slack[c]
        /\ Live(Ev("rsp", c, j)) => doneCycle[Ev("req", c, j)] >= OrigStart(j) + slack[c] + CoreDelay
        /\ Live(Ev("rsp", c, j)) /\ called[Ev("rsp", c, j)] =>
              doneCycle[Ev("rsp", c, j)] >= OrigStart(j) + slack[c] + CoreDelay + MemDelay
    BY Zenon DEF WInv, Times
  <2>2. slack' = slack
    BY <1>6, Zenon
  <2>3. Live(Ev("mem", c, j))' => When(Ev("mem", c, j))' >= doneCycle'[Ev("req", c, j)]
    BY <1>14, <1>16, <2>1, Zenon
  <2>4. ASSUME Live(Ev("core", c, j))', j > 1 PROVE When(Ev("core", c, j))' >= doneCycle'[Ev("rsp", c, j - 1)]
    <3>1. Live(Ev("core", c, j)) /\ When(Ev("core", c, j))' = When(Ev("core", c, j))
      BY <1>14, <2>4, Zenon
    <3>2. j - 1 \in 1 .. K /\ ~ (c = b /\ j - 1 = k)
      <4>1. j - 1 \in 1 .. K
        BY <2>4, IsCrossing, Zenon
      <4>2. ASSUME c = b, j - 1 = k PROVE FALSE
        <5>1. k < K /\ k + 1 = j
          BY <4>2, WeaveAssumption
        <5> QED BY <1>5, <3>1, <4>2, <5>1, Zenon
      <4> QED BY <4>1, <4>2, Zenon
    <3> QED BY <1>16, <2>1, <2>4, <3>1, <3>2, Zenon
  <2>5. Live(Ev("core", c, j))' => When(Ev("core", c, j))' >= OrigStart(j) + slack'[c]
    BY <1>14, <2>1, <2>2, Zenon
  <2>6. Live(Ev("rsp", c, j))' => doneCycle'[Ev("req", c, j)] >= OrigStart(j) + slack'[c] + CoreDelay
    BY <1>14, <1>16, <2>1, <2>2, Zenon
  <2>7. Live(Ev("rsp", c, j))' /\ called'[Ev("rsp", c, j)] =>
            doneCycle'[Ev("rsp", c, j)] >= OrigStart(j) + slack'[c] + CoreDelay + MemDelay
    <3>1. CASE c = b /\ j = k
      <4>1. ASSUME Live(rsp) PROVE cur[d] + MemDelay >= OrigStart(k) + slack[b] + CoreDelay + MemDelay
        BY <1>4, <1>7, <4>1
      <4> QED BY <1>13, <1>14, <2>2, <3>1, <4>1, Zenon DEF rsp
    <3>2. CASE ~ (c = b /\ j = k)
      BY <1>14, <1>16, <2>1, <2>2, <3>2, Zenon
    <3> QED BY <3>1, <3>2, Zenon
  <2> QED BY <2>3, <2>4, <2>5, <2>6, <2>7, Zenon
<1>19. Waiting'
  <2> SUFFICES ASSUME NEW y \in Crossings, ~ called'[y], Live(y)'
               PROVE  /\ Soon(y, When(y))'
                      /\ Runs(y)' /\ (pc[DomainOf(y)])' \in Read => Soon(y, next[DomainOf(y)])'
    BY Zenon DEF Waiting
  <2>1. ~ called[y] /\ y \in Events /\ y[2] \in Cores /\ y # e
    BY <1>1, <1>2, <1>13, InHand, CrossingType DEF e
  <2>2. /\ Live(y) /\ When(y)' = When(y)
        /\ Runs(y)' => /\ Runs(y)
                       /\ (pc[DomainOf(y)])' = pc[DomainOf(y)] /\ (next[DomainOf(y)])' = next[DomainOf(y)]
    BY <1>10, <2>1, Zenon
  <2>3. first'[y] = first[y] /\ slack'[y[2]] \in Nat /\ slack'[y[2]] >= slack[y[2]]
    BY <1>6, <2>1 DEF WInv, Types
  <2> QED BY <1>9, <2>1, <2>2, <2>3, WaitsOn, Zenon
<1>20. CrossingNotLate'
  <2> SUFFICES ASSUME NEW y \in Crossings, called'[y], q'[y] # Out
               PROVE  q'[y] <= AtLeast(first'[y], doneCycle'[y] + preSlack(y))
    BY Zenon DEF CrossingNotLate
  <2>1. q'[y] = q[y] /\ first'[y] = first[y] /\ y \in Events
    BY <1>6, <1>9, CrossingType, Zenon
  <2>2. CASE y = rsp
    <3>1. Live(y) /\ When(y) = q[y] /\ ~ called[y]
      BY <1>4, <2>1, <2>2, Zenon DEF Live, When
    <3>2. Soon(y, q[y])
      BY <3>1, Zenon DEF WInv, Waiting
    <3>3. q[y] \in Nat /\ first[y] \in Nat
      BY <2>1, Zenon DEF WInv, Types
    <3>4. q[y] <= first[y] \/ q[y] <= cur[d] + MemDelay + preSlack(y)
      <4>1. CASE q[y] <= first[y]
        BY <4>1, Zenon
      <4>2. CASE q[y] <= minStartCycle(y) + slack[y[2]]
        BY <1>4, <1>7, <2>2, <3>1, <3>3, <4>2
      <4>3. CASE Floor(SrcDomain(y), q[y] - preSlack(y))
        <5>1. q[y] - preSlack(y) <= cur[d]
          BY <1>1, <1>7, <2>2, <4>3, Zenon DEF Floor
        <5> QED BY <1>4, <1>7, <2>2, <3>3, <5>1
      <4> QED BY <3>2, <4>1, <4>2, <4>3, Zenon DEF Soon
    <3>5. q[y] <= AtLeast(first[y], cur[d] + MemDelay + preSlack(y))
      BY <1>4, <1>7, <2>2, <3>3, <3>4 DEF AtLeast
    <3> QED BY <1>13, <2>1, <2>2, <3>5, Zenon
  <2>3. CASE y # rsp
    BY <1>13, <2>1, <2>3, Zenon DEF WInv, CrossingNotLate
  <2> QED BY <2>2, <2>3, Zenon
<1> QED BY <1>9, <1>12, <1>15, <1>17, <1>18, <1>19, <1>20, Zenon DEF WInv

\* A request crossing is done: its memory event and the next request crossing
\* are queued.
LEMMA ReqDoneWInv ==
    ASSUME WInv, NEW d \in Cores, pc[d] \in Serving, called[running[d]], crossing_done(d),
           NEW b \in Cores, NEW k \in 1 .. K, running[d] = Ev("req", b, k), d = Other(b)
    PROVE  WInv'
<1> DEFINE x == Ev("req", b, k)
           mem == Ev("mem", b, k)
           chained == Ev("req", b, k + 1)
           when == AtLeast(cur[d], doneCycle[x])
           c1 == AtLeast(when, minStartCycle(chained))
           newq == [f \in Events |-> CASE f = mem -> when
                                       [] "req" = "req" /\ f = chained -> c1
                                       [] OTHER -> q[f]]
<1>1. /\ x \in Crossings /\ x \in Events /\ mem \in Events /\ DomainOf(mem) = d /\ DomainOf(x) = d
      /\ K \in Nat /\ (k < K => k + 1 \in 1 .. K /\ chained \in Crossings /\ chained \in Events
                                  /\ DomainOf(chained) = d)
      /\ mem # chained /\ x # mem /\ chained # x
  <2>1. mem # chained /\ x # mem /\ chained # x
    BY DEF Ev
  <2>2. k < K => k + 1 \in 1 .. K /\ chained \in Crossings /\ chained \in Events
    BY IsCrossing, IsEvent, Zenon
  <2>3. K \in Nat
    BY WeaveAssumption, Zenon
  <2> QED BY <2>1, <2>2, <2>3, IsEvent, IsCrossing, Homes, Zenon
<1>2. /\ Live(x) /\ When(x) = cur[d] /\ cur[d] \in Nat /\ q[x] = Out /\ called[x]
      /\ ~ called[Ev("rsp", b, k)] /\ ~ Live(mem)
      /\ \A j \in 1 .. K : j # k => ~ Live(Ev("req", b, j))
  <2>1. Live(x) /\ When(x) = cur[d] /\ cur[d] \in Nat /\ q[x] = Out /\ called[x]
    BY InHand, Zenon
  <2> QED BY <2>1, OrderAt, AloneAt, Zenon
<1>3. k < K => /\ ~ called[chained] /\ ~ Live(chained) /\ ~ called[Ev("rsp", b, k + 1)]
               /\ ~ Live(Ev("mem", b, k + 1))
  <2>1. k < K => ~ called[chained]
    BY <1>2, Zenon DEF WInv, Order
  <2>2. k < K => ~ called[Ev("rsp", b, k + 1)] /\ ~ Live(Ev("mem", b, k + 1))
    BY <1>1, <2>1, Zenon DEF WInv, Order
  <2>3. k < K => k + 1 # k
    OBVIOUS
  <2> QED BY <1>1, <1>2, <2>1, <2>2, <2>3, Zenon
<1>4. x[1] = "req" /\ x[2] = b /\ x[3] = k
  BY Zenon DEF Ev
<1>5. /\ enqueue(newq) /\ Go(d, "advance") /\ UNCHANGED <<cur, limit, running, next, called, slack>>
      /\ IF k < K THEN /\ first' = [first EXCEPT ![chained] = c1]
                       /\ doneCycle' = [doneCycle EXCEPT ![chained] =
                                          IF called[chained] THEN AtLeast(@, c1) ELSE @]
                  ELSE UNCHANGED <<first, doneCycle>>
  <2>1. enqueue(newq) /\ Go(d, "advance") /\ UNCHANGED <<cur, limit, running, next, called, slack>>
    BY <1>4 DEF crossing_done, dCycle
  <2>2. IF running[d][1] = "req" /\ running[d][3] < K
        THEN /\ first' = [first EXCEPT ![chained] = c1]
             /\ doneCycle' = [doneCycle EXCEPT ![chained] =
                                IF called[chained] THEN AtLeast(@, c1) ELSE @]
        ELSE UNCHANGED <<first, doneCycle>>
    BY <1>4 DEF crossing_done, dCycle
  <2> QED BY <1>4, <2>1, <2>2, Zenon
<1>6. when \in Nat /\ when >= cur[d] /\ when >= doneCycle[x] /\ (k < K => c1 \in Nat /\ c1 >= cur[d])
  <2>1. doneCycle[x] \in Nat
    BY <1>1, Zenon DEF WInv, Types
  <2>2. when \in Nat /\ when >= cur[d] /\ when >= doneCycle[x]
    BY <1>2, <2>1, AtLeastNat, Zenon
  <2>3. k < K => minStartCycle(chained) \in Nat
    BY <1>1, SlackType, Zenon
  <2> HIDE DEF when
  <2>4. k < K => c1 \in Nat /\ c1 >= when
    BY <2>2, <2>3, AtLeastNat, Zenon
  <2> HIDE DEF c1
  <2>5. k < K => c1 >= cur[d]
    BY <1>2, <2>2, <2>4
  <2> QED BY <2>2, <2>4, <2>5, Zenon
<1> HIDE DEF x, mem, chained, when, c1
<1>7. newq[mem] = when /\ (k < K => newq[chained] = c1)
      /\ \A f \in Events : f # mem /\ f # chained => newq[f] = q[f]
  BY <1>1, Zenon
<1>8. chained \in Events => k < K
  <2>1. chained[3] = k + 1
    BY Zenon DEF chained, Ev
  <2>2. \A f \in Events : f[3] \in 1 .. K
    BY Zenon DEF Events, Crossings
  <2> QED BY <1>1, <2>1, <2>2
<1>9. newq \in [Events -> Nat \cup {Out}]
  <2>1. \A f \in Events : newq[f] \in Nat \cup {Out}
    BY <1>6, <1>7, <1>8, Zenon DEF WInv, Types
  <2> QED BY <2>1, Zenon
<1> HIDE DEF newq
<1>10. Enqueues(d, newq)
  <2>1. q[mem] = Out /\ (k < K => q[chained] = Out)
    BY <1>2, <1>3, Zenon DEF Live
  <2>2. Adds(d, newq)
    BY <1>1, <1>6, <1>7, <1>8, <1>9, <2>1, Zenon DEF Adds
  <2> QED BY <1>5, <2>2, Zenon DEF Enqueues
<1>11. /\ q' = newq /\ q' \in [Events -> Nat \cup {Out}] /\ curBlock' = curBlock
       /\ pc' \in [Cores -> Serving \cup {"loop", "advance", "finished"}] /\ pc'[d] = "advance"
       /\ Served' /\ Clocks' /\ Ring'
       /\ \A c \in Cores, n \in Int : Floor(c, n) => Floor(c, n)'
  BY <1>10, EnqueueFacts, Zenon
<1>12. \A f \in Events : f # x /\ f # mem /\ f # chained =>
          /\ Live(f)' <=> Live(f)
          /\ Runs(f)' <=> Runs(f)
          /\ When(f)' = When(f) /\ When(f) \in Nat
          /\ Runs(f)' => (pc[DomainOf(f)])' = pc[DomainOf(f)] /\ (next[DomainOf(f)])' = next[DomainOf(f)]
  <2>1. running[d] = x
    BY Zenon DEF x
  <2> SUFFICES ASSUME NEW f \in Events, f # x, f # mem, f # chained
               PROVE  /\ Live(f)' <=> Live(f)
                      /\ Runs(f)' <=> Runs(f)
                      /\ When(f)' = When(f) /\ When(f) \in Nat
                      /\ Runs(f)' => (pc[DomainOf(f)])' = pc[DomainOf(f)]
                                       /\ (next[DomainOf(f)])' = next[DomainOf(f)]
    BY Zenon
  <2>2. f # running[d] /\ newq[f] = q[f]
    BY <1>7, <2>1, Zenon
  <2> QED BY <1>10, <2>2, EnqueueSame, Zenon
<1>13. /\ ~ Live(x)' /\ When(mem)' = when
       /\ k < K => ~ Runs(chained)' /\ When(chained)' = c1
  <2>1. newq[x] = Out
    BY <1>1, <1>2, <1>7, Zenon
  <2>2. ~ Live(x)'
    BY <1>1, <1>10, <2>1, EnqueueNew, Zenon
  <2>3. When(mem)' = when
    BY <1>1, <1>6, <1>7, <1>10, EnqueueNew, Zenon
  <2>4. k < K => ~ Runs(chained)' /\ When(chained)' = c1
    BY <1>1, <1>6, <1>7, <1>10, EnqueueNew, Zenon
  <2> QED BY <2>2, <2>3, <2>4, Zenon
<1>14. /\ doneCycle' = doneCycle /\ called' = called /\ slack' = slack
       /\ first' \in [Crossings -> Nat] /\ (k < K => first'[chained] = c1)
       /\ \A y \in Crossings : y # chained => first'[y] = first[y]
  <2>1. CASE k < K
    <3>1. doneCycle' = [doneCycle EXCEPT ![chained] = doneCycle[chained]] /\ first' = [first EXCEPT ![chained] = c1]
      BY <1>3, <1>5, <2>1, Zenon
    <3> QED BY <1>1, <1>5, <1>6, <2>1, <3>1, Zenon DEF WInv, Types
  <2>2. CASE ~ (k < K)
    BY <1>5, <2>2, Zenon DEF WInv, Types
  <2> QED BY <2>1, <2>2, Zenon
<1>15. Types'
  BY <1>5, <1>11, <1>14, Zenon DEF WInv, Types
<1>16. ASSUME NEW c \in Cores, NEW j \in 1 .. K
       PROVE  /\ Live(Ev("core", c, j))' <=> Live(Ev("core", c, j))
              /\ When(Ev("core", c, j))' = When(Ev("core", c, j))
              /\ Live(Ev("mem", c, j))' => (c = b /\ j = k) \/ Live(Ev("mem", c, j))
              /\ ~ (c = b /\ j = k) => When(Ev("mem", c, j))' = When(Ev("mem", c, j))
              /\ Live(Ev("req", c, j))' => (c = b /\ j = k + 1 /\ k < K) \/ (c # b /\ Live(Ev("req", c, j)))
              /\ Live(Ev("rsp", c, j))' <=> Live(Ev("rsp", c, j))
  <2>1. /\ Ev("core", c, j) \in Events /\ Ev("core", c, j) # x /\ Ev("core", c, j) # mem
        /\ Ev("mem", c, j) \in Events /\ Ev("mem", c, j) # x /\ (Ev("mem", c, j) = mem <=> c = b /\ j = k)
        /\ Ev("req", c, j) \in Events /\ (Ev("req", c, j) = x <=> c = b /\ j = k) /\ Ev("req", c, j) # mem
        /\ Ev("rsp", c, j) \in Events /\ Ev("rsp", c, j) # x /\ Ev("rsp", c, j) # mem
    BY IsEvent, Zenon DEF Ev, x, mem
  <2>2. /\ Ev("core", c, j) # chained /\ Ev("mem", c, j) # chained /\ Ev("rsp", c, j) # chained
        /\ Ev("req", c, j) = chained <=> c = b /\ j = k + 1
    BY Zenon DEF Ev, chained
  <2>3. /\ Live(Ev("core", c, j))' <=> Live(Ev("core", c, j))
        /\ When(Ev("core", c, j))' = When(Ev("core", c, j))
        /\ Live(Ev("rsp", c, j))' <=> Live(Ev("rsp", c, j))
    BY <1>12, <2>1, <2>2, Zenon
  <2>4. /\ Live(Ev("mem", c, j))' => (c = b /\ j = k) \/ Live(Ev("mem", c, j))
        /\ ~ (c = b /\ j = k) => When(Ev("mem", c, j))' = When(Ev("mem", c, j))
    BY <1>12, <2>1, <2>2, Zenon
  <2>5. Live(Ev("req", c, j))' => (c = b /\ j = k + 1 /\ k < K) \/ (c # b /\ Live(Ev("req", c, j)))
    BY <1>2, <1>8, <1>12, <1>13, <2>1, <2>2, Zenon
  <2> QED BY <2>3, <2>4, <2>5, Zenon
<1>17. Alone'
  BY <1>16, Zenon DEF WInv, Alone
<1>18. Order'
  <2> SUFFICES ASSUME NEW c \in Cores, NEW j \in 1 .. K
               PROVE  /\ Live(Ev("core", c, j))' => ~ called[Ev("req", c, j)]
                      /\ Live(Ev("core", c, j))' /\ j > 1 => called[Ev("rsp", c, j - 1)]
                      /\ Live(Ev("rsp", c, j))' => called[Ev("req", c, j)]
                      /\ Live(Ev("rsp", c, j))' /\ j < K => ~ called[Ev("req", c, j + 1)]
                      /\ Live(Ev("req", c, j))' => ~ called[Ev("rsp", c, j)] /\ ~ Live(Ev("mem", c, j))'
                      /\ Live(Ev("mem", c, j))' => called[Ev("req", c, j)] /\ ~ called[Ev("rsp", c, j)]
    BY <1>14, OrderAt, Zenon DEF Order
  <2>1. /\ Live(Ev("core", c, j)) => ~ called[Ev("req", c, j)]
        /\ Live(Ev("core", c, j)) /\ j > 1 => called[Ev("rsp", c, j - 1)]
        /\ Live(Ev("rsp", c, j)) => called[Ev("req", c, j)]
        /\ Live(Ev("rsp", c, j)) /\ j < K => ~ called[Ev("req", c, j + 1)]
        /\ Live(Ev("req", c, j)) => ~ called[Ev("rsp", c, j)] /\ ~ Live(Ev("mem", c, j))
        /\ Live(Ev("mem", c, j)) => called[Ev("req", c, j)] /\ ~ called[Ev("rsp", c, j)]
    BY OrderAt, Zenon
  <2>2. Live(Ev("mem", c, j))' => called[Ev("req", c, j)] /\ ~ called[Ev("rsp", c, j)]
    BY <1>2, <1>16, <2>1, Zenon DEF x
  <2>3. Live(Ev("req", c, j))' => ~ called[Ev("rsp", c, j)] /\ ~ Live(Ev("mem", c, j))'
    <3>1. CASE c = b /\ j = k + 1 /\ k < K
      BY <1>3, <1>16, <3>1, PlusOne, Zenon
    <3>2. CASE c # b /\ Live(Ev("req", c, j))
      BY <1>16, <2>1, <3>2, Zenon
    <3> QED BY <1>16, <3>1, <3>2, Zenon
  <2> QED BY <1>16, <2>1, <2>2, <2>3, Zenon
<1>19. Times'
  <2> SUFFICES ASSUME NEW c \in Cores, NEW j \in 1 .. K
               PROVE  /\ Live(Ev("mem", c, j))' => When(Ev("mem", c, j))' >= doneCycle[Ev("req", c, j)]
                      /\ Live(Ev("core", c, j))' /\ j > 1 => When(Ev("core", c, j))' >= doneCycle[Ev("rsp", c, j - 1)]
                      /\ Live(Ev("core", c, j))' => When(Ev("core", c, j))' >= OrigStart(j) + slack[c]
    BY <1>14, <1>16, Zenon DEF WInv, Times
  <2>1. /\ Live(Ev("mem", c, j)) => When(Ev("mem", c, j)) >= doneCycle[Ev("req", c, j)]
        /\ Live(Ev("core", c, j)) /\ j > 1 => When(Ev("core", c, j)) >= doneCycle[Ev("rsp", c, j - 1)]
        /\ Live(Ev("core", c, j)) => When(Ev("core", c, j)) >= OrigStart(j) + slack[c]
    BY Zenon DEF WInv, Times
  <2>2. Live(Ev("mem", c, j))' => When(Ev("mem", c, j))' >= doneCycle[Ev("req", c, j)]
    <3>1. CASE c = b /\ j = k
      BY <1>6, <1>13, <3>1, Zenon DEF x, mem
    <3>2. CASE ~ (c = b /\ j = k)
      BY <1>16, <2>1, <3>2, Zenon
    <3> QED BY <3>1, <3>2, Zenon
  <2> QED BY <1>16, <2>1, <2>2, Zenon
<1>20. Waiting'
  <2> SUFFICES ASSUME NEW y \in Crossings, ~ called[y], Live(y)'
               PROVE  /\ Soon(y, When(y))'
                      /\ Runs(y)' /\ (pc[DomainOf(y)])' \in Read => Soon(y, next[DomainOf(y)])'
    BY <1>14, Zenon DEF Waiting
  <2>1. y \in Events /\ y[2] \in Cores /\ y # x /\ y # mem
    BY <1>2, CrossingType DEF mem, Ev
  <2>2. CASE y = chained
    <3>1. k < K
      BY <1>8, <2>1, <2>2, Zenon
    <3>2. PICK n \in Int : n = c1
      BY <1>6, <3>1
    <3>3. (n <= first[y])'
      BY <1>14, <2>2, <3>1, <3>2
    <3>4. Soon(y, n)'
      BY <3>3, Zenon DEF Soon
    <3>5. When(y)' = n /\ ~ Runs(y)'
      BY <1>13, <2>2, <3>1, <3>2, Zenon
    <3> QED BY <3>4, <3>5, Zenon
  <2>3. CASE y # chained
    <3>1. /\ Live(y) /\ When(y)' = When(y)
          /\ Runs(y)' => /\ Runs(y)
                         /\ (pc[DomainOf(y)])' = pc[DomainOf(y)] /\ (next[DomainOf(y)])' = next[DomainOf(y)]
      BY <1>12, <2>1, <2>3, Zenon
    <3>2. first'[y] = first[y] /\ slack'[y[2]] \in Nat /\ slack'[y[2]] >= slack[y[2]]
      BY <1>14, <2>1, <2>3 DEF WInv, Types
    <3> QED BY <1>11, <3>1, <3>2, WaitsOn, Zenon
  <2> QED BY <2>2, <2>3, Zenon
<1>21. CrossingNotLate'
  <2> SUFFICES ASSUME NEW y \in Crossings, called[y], q'[y] # Out
               PROVE  q'[y] <= AtLeast(first'[y], doneCycle[y] + preSlack(y))
    BY <1>14, Zenon DEF CrossingNotLate
  <2>1. y \in Events /\ y # mem /\ y # chained
    <3>1. mem \notin Crossings
      BY CrossingForm, Zenon DEF mem
    <3>2. y \in Events
      BY CrossingForm, Zenon
    <3> QED BY <1>3, <1>8, <3>1, <3>2, Zenon
  <2>2. q'[y] = q[y] /\ first'[y] = first[y]
    BY <1>7, <1>11, <1>14, <2>1, Zenon
  <2> QED BY <2>2, Zenon DEF WInv, CrossingNotLate
<1> QED BY <1>11, <1>15, <1>17, <1>18, <1>19, <1>20, <1>21, Zenon DEF WInv

\* A response crossing is done: the next core event is queued.
LEMMA RspDoneWInv ==
    ASSUME WInv, NEW d \in Cores, pc[d] \in Serving, called[running[d]], crossing_done(d),
           NEW k \in 1 .. K, running[d] = Ev("rsp", d, k)
    PROVE  WInv'
<1> DEFINE x == Ev("rsp", d, k)
           child == Ev("core", d, k + 1)
           chained == Ev("req", d, k + 1)
           when == AtLeast(cur[d], doneCycle[x])
           c1 == AtLeast(when, minStartCycle(chained))
           newq == [f \in Events |-> CASE f = child -> when
                                       [] x[1] = "req" /\ f = chained -> c1
                                       [] OTHER -> q[f]]
<1>1. /\ x \in Crossings /\ x \in Events /\ DomainOf(x) = d
      /\ K \in Nat /\ (k < K => k + 1 \in 1 .. K /\ child \in Events) /\ DomainOf(child) = d
      /\ x # child
  <2>1. x # child
    BY Zenon DEF Ev
  <2>2. k < K => k + 1 \in 1 .. K /\ child \in Events
    BY IsCrossing, IsEvent, Zenon
  <2>3. K \in Nat
    BY WeaveAssumption, Zenon
  <2> QED BY <2>1, <2>2, <2>3, IsEvent, IsCrossing, Homes, Zenon
<1>2. /\ Live(x) /\ When(x) = cur[d] /\ cur[d] \in Nat /\ q[x] = Out /\ called[x]
      /\ k < K => ~ called[Ev("req", d, k + 1)]
      /\ doneCycle[x] >= OrigStart(k) + slack[d] + CoreDelay + MemDelay
      /\ \A j \in 1 .. K : ~ Live(Ev("core", d, j)) /\ (j # k => ~ Live(Ev("rsp", d, j)))
  <2>1. Live(x) /\ When(x) = cur[d] /\ cur[d] \in Nat /\ q[x] = Out /\ called[x]
    BY InHand, Zenon
  <2>2. k < K => ~ called[Ev("req", d, k + 1)]
    BY <2>1, OrderAt, Zenon
  <2>3. doneCycle[x] >= OrigStart(k) + slack[d] + CoreDelay + MemDelay
    BY <2>1, TimesAt, Zenon
  <2>4. \A j \in 1 .. K : ~ Live(Ev("core", d, j)) /\ (j # k => ~ Live(Ev("rsp", d, j)))
    BY <2>1, AloneAt, Zenon
  <2> QED BY <2>1, <2>2, <2>3, <2>4, Zenon
<1>3. x[1] = "rsp" /\ x[2] = d /\ x[3] = k
  BY Zenon DEF Ev
<1>4. /\ enqueue(newq) /\ Go(d, "advance")
      /\ UNCHANGED <<cur, limit, running, next, called, slack, first, doneCycle>>
  BY <1>3, Zenon DEF crossing_done, dCycle
<1>5. /\ when \in Nat /\ when >= cur[d] /\ when >= doneCycle[x]
      /\ k < K => when >= OrigStart(k + 1) + slack[d]
  <2>1. doneCycle[x] \in Nat /\ slack[d] \in Nat /\ OrigStart(k) \in Nat /\ CoreDelay \in Nat /\ MemDelay \in Nat
    BY <1>1, OrigType, WeaveAssumption, Zenon DEF WInv, Types
  <2>2. when \in Nat /\ when >= cur[d] /\ when >= doneCycle[x]
    BY <1>2, <2>1, AtLeastNat, Zenon
  <2>3. OrigStart(k + 1) = OrigStart(k) + CoreDelay + MemDelay
    BY OrigType, Zenon
  <2> HIDE DEF when
  <2> QED BY <1>2, <2>1, <2>2, <2>3
<1> HIDE DEF x, child, chained, when, c1
<1>6. child \in Events => newq[child] = when
  BY <1>3, Zenon
<1>7. \A f \in Events : f # child => newq[f] = q[f]
  BY <1>3, Zenon
<1>8. child \in Events => k < K
  <2>1. child[3] = k + 1
    BY Zenon DEF child, Ev
  <2>2. \A f \in Events : f[3] \in 1 .. K
    BY Zenon DEF Events, Crossings
  <2> QED BY <1>1, <2>1, <2>2
<1>9. newq \in [Events -> Nat \cup {Out}]
  <2>1. \A f \in Events : newq[f] \in Nat \cup {Out}
    BY <1>5, <1>6, <1>7 DEF WInv, Types
  <2> QED BY <2>1, Zenon
<1> HIDE DEF newq
<1>10. Enqueues(d, newq)
  <2>1. k < K => q[child] = Out
    BY <1>1, <1>2, Zenon DEF Live, child
  <2>2. Adds(d, newq)
    BY <1>1, <1>5, <1>6, <1>7, <1>8, <1>9, <2>1, Zenon DEF Adds
  <2> QED BY <1>4, <2>2, Zenon DEF Enqueues
<1>11. /\ q' = newq /\ q' \in [Events -> Nat \cup {Out}] /\ curBlock' = curBlock
       /\ pc' \in [Cores -> Serving \cup {"loop", "advance", "finished"}] /\ pc'[d] = "advance"
       /\ Served' /\ Clocks' /\ Ring'
       /\ \A c \in Cores, n \in Int : Floor(c, n) => Floor(c, n)'
  BY <1>10, EnqueueFacts, Zenon
<1>12. \A f \in Events : f # x /\ f # child =>
          /\ Live(f)' <=> Live(f)
          /\ Runs(f)' <=> Runs(f)
          /\ When(f)' = When(f) /\ When(f) \in Nat
          /\ Runs(f)' => (pc[DomainOf(f)])' = pc[DomainOf(f)] /\ (next[DomainOf(f)])' = next[DomainOf(f)]
  <2>1. running[d] = x
    BY Zenon DEF x
  <2> SUFFICES ASSUME NEW f \in Events, f # x, f # child
               PROVE  /\ Live(f)' <=> Live(f)
                      /\ Runs(f)' <=> Runs(f)
                      /\ When(f)' = When(f) /\ When(f) \in Nat
                      /\ Runs(f)' => (pc[DomainOf(f)])' = pc[DomainOf(f)]
                                       /\ (next[DomainOf(f)])' = next[DomainOf(f)]
    BY Zenon
  <2>2. f # running[d] /\ newq[f] = q[f]
    BY <1>7, <2>1, Zenon
  <2> QED BY <1>10, <2>2, EnqueueSame, Zenon
<1>13. ~ Live(x)' /\ (k < K => When(child)' = when)
  <2>1. newq[x] = Out
    BY <1>1, <1>2, <1>7, Zenon
  <2>2. ~ Live(x)'
    BY <1>1, <1>10, <2>1, EnqueueNew, Zenon
  <2>3. k < K => When(child)' = when
    BY <1>1, <1>5, <1>6, <1>10, EnqueueNew, Zenon
  <2> QED BY <2>2, <2>3, Zenon
<1>14. Types'
  BY <1>4, <1>11, Zenon DEF WInv, Types
<1>15. ASSUME NEW c \in Cores, NEW j \in 1 .. K
       PROVE  /\ Live(Ev("core", c, j))' => (c = d /\ j = k + 1 /\ k < K) \/ (c # d /\ Live(Ev("core", c, j)))
              /\ c # d => When(Ev("core", c, j))' = When(Ev("core", c, j))
              /\ Live(Ev("mem", c, j))' <=> Live(Ev("mem", c, j))
              /\ When(Ev("mem", c, j))' = When(Ev("mem", c, j))
              /\ Live(Ev("req", c, j))' <=> Live(Ev("req", c, j))
              /\ Live(Ev("rsp", c, j))' => c # d /\ Live(Ev("rsp", c, j))
  <2>1. /\ Ev("core", c, j) \in Events /\ Ev("core", c, j) # x
        /\ Ev("mem", c, j) \in Events /\ Ev("mem", c, j) # x
        /\ Ev("req", c, j) \in Events /\ Ev("req", c, j) # x
        /\ Ev("rsp", c, j) \in Events /\ (Ev("rsp", c, j) = x <=> c = d /\ j = k)
    BY IsEvent, Zenon DEF Ev, x
  <2>2. /\ Ev("req", c, j) # child /\ Ev("mem", c, j) # child /\ Ev("rsp", c, j) # child
        /\ Ev("core", c, j) = child <=> c = d /\ j = k + 1
    BY Zenon DEF Ev, child
  <2> QED BY <1>2, <1>8, <1>12, <1>13, <2>1, <2>2, Zenon
<1>16. Alone'
  <2> SUFFICES ASSUME NEW c \in Cores, NEW i \in 1 .. K, NEW j \in 1 .. K
               PROVE  /\ Live(Ev("core", c, i))' /\ Live(Ev("core", c, j))' => i = j
                      /\ Live(Ev("rsp", c, i))' /\ Live(Ev("rsp", c, j))' => i = j
                      /\ ~ (Live(Ev("core", c, i))' /\ Live(Ev("rsp", c, j))')
                      /\ Live(Ev("req", c, i))' /\ Live(Ev("req", c, j))' => i = j
    BY Zenon DEF Alone
  <2> QED BY <1>15, AloneAt, Zenon
<1>17. Order'
  <2> SUFFICES ASSUME NEW c \in Cores, NEW j \in 1 .. K
               PROVE  /\ Live(Ev("core", c, j))' => ~ called[Ev("req", c, j)]
                      /\ Live(Ev("core", c, j))' /\ j > 1 => called[Ev("rsp", c, j - 1)]
    BY <1>4, <1>15, Zenon DEF WInv, Order
  <2>1. CASE c = d /\ j = k + 1 /\ k < K
    <3>1. j - 1 = k
      BY <2>1
    <3> QED BY <1>2, <2>1, <3>1, Zenon DEF x
  <2>2. CASE c # d /\ Live(Ev("core", c, j))
    BY <2>2, Zenon DEF WInv, Order
  <2> QED BY <1>15, <2>1, <2>2, Zenon
<1>18. Times'
  <2> SUFFICES ASSUME NEW c \in Cores, NEW j \in 1 .. K, Live(Ev("core", c, j))'
               PROVE  /\ j > 1 => When(Ev("core", c, j))' >= doneCycle[Ev("rsp", c, j - 1)]
                      /\ When(Ev("core", c, j))' >= OrigStart(j) + slack[c]
    BY <1>4, <1>15, Zenon DEF WInv, Times
  <2>1. CASE c = d /\ j = k + 1 /\ k < K
    <3>1. j - 1 = k /\ When(Ev("core", c, j))' = when
      BY <1>13, <2>1 DEF child
    <3> QED BY <1>5, <2>1, <3>1, Zenon DEF x
  <2>2. CASE c # d /\ Live(Ev("core", c, j))
    BY <1>15, <2>2, Zenon DEF WInv, Times
  <2> QED BY <1>15, <2>1, <2>2, Zenon
<1>19. Waiting'
  <2> SUFFICES ASSUME NEW y \in Crossings, ~ called[y], Live(y)'
               PROVE  /\ Soon(y, When(y))'
                      /\ Runs(y)' /\ (pc[DomainOf(y)])' \in Read => Soon(y, next[DomainOf(y)])'
    BY <1>4, Zenon DEF Waiting
  <2>1. y \in Events /\ y[2] \in Cores /\ y # x /\ y # child
    <3>1. child \notin Crossings
      BY CrossingForm, Zenon DEF child
    <3>2. y \in Events /\ y[2] \in Cores
      BY CrossingType, Zenon
    <3> QED BY <1>2, <3>1, <3>2, Zenon
  <2>2. /\ Live(y) /\ When(y)' = When(y)
        /\ Runs(y)' => /\ Runs(y)
                       /\ (pc[DomainOf(y)])' = pc[DomainOf(y)] /\ (next[DomainOf(y)])' = next[DomainOf(y)]
    BY <1>12, <2>1, Zenon
  <2>3. first'[y] = first[y] /\ slack'[y[2]] \in Nat /\ slack'[y[2]] >= slack[y[2]]
    BY <1>4, <2>1 DEF WInv, Types
  <2> QED BY <1>11, <2>2, <2>3, WaitsOn, Zenon
<1>20. CrossingNotLate'
  <2> SUFFICES ASSUME NEW y \in Crossings, called[y], q'[y] # Out
               PROVE  q'[y] <= AtLeast(first[y], doneCycle[y] + preSlack(y))
    BY <1>4, Zenon DEF CrossingNotLate
  <2>1. y \in Events /\ y # child
    BY CrossingType DEF child, Ev
  <2>2. q'[y] = q[y]
    BY <1>7, <1>11, <2>1, Zenon
  <2> QED BY <2>2, Zenon DEF WInv, CrossingNotLate
<1> QED BY <1>11, <1>14, <1>16, <1>17, <1>18, <1>19, <1>20, Zenon DEF WInv

LEMMA DoneWInv ==
    ASSUME WInv, NEW d \in Cores, pc[d] \in {"check", "recheck"}, called[running[d]], crossing_done(d)
    PROVE  WInv'
<1>1. pc[d] \in Serving /\ pc[d] \notin Own
  BY Zenon DEF Serving, Own
<1>2. running[d] \in Crossings /\ DomainOf(running[d]) = d
  BY <1>1, InHand, Zenon
<1>3. PICK c \in Cores, k \in 1 .. K : running[d] = Ev("req", c, k) \/ running[d] = Ev("rsp", c, k)
  BY <1>2, CrossingForm, Zenon
<1>4. CASE running[d] = Ev("req", c, k)
  <2>1. d = Other(c)
    BY <1>2, <1>4, Homes, Zenon
  <2> QED BY <1>1, <1>4, <2>1, ReqDoneWInv, Zenon
<1>5. CASE running[d] = Ev("rsp", c, k)
  <2>1. d = c
    BY <1>2, <1>5, Homes, Zenon
  <2> QED BY <1>1, <1>5, <2>1, RspDoneWInv, Zenon
<1> QED BY <1>3, <1>4, <1>5, Zenon

-----------------------------------------------------------------------------
(* Steps after which no event is live that was not, and what crossings wait*)
(* for stays as it was.                                                    *)

LEMMA QuietOrder ==
    ASSUME WInv, UNCHANGED <<called, doneCycle, slack>>,
           \A e \in Events : Live(e)' => Live(e),
           \A e \in Events \ Crossings : Live(e)' => When(e)' \in Nat /\ When(e)' >= When(e)
    PROVE  Alone' /\ Order' /\ Times'
<1>1. \A c \in Cores, k \in 1 .. K :
        /\ Ev("core", c, k) \in Events \ Crossings /\ Ev("mem", c, k) \in Events \ Crossings
        /\ Ev("req", c, k) \in Events /\ Ev("rsp", c, k) \in Events
  BY EventForm, CrossingForm, Zenon DEF Kinds
<1>2. Alone'
  BY <1>1, Zenon DEF WInv, Alone
<1>3. Order'
  BY <1>1, OrderAt, Zenon DEF Order
<1>4. ASSUME NEW c \in Cores, NEW k \in 1 .. K
      PROVE  /\ Live(Ev("mem", c, k))' => When(Ev("mem", c, k))' >= doneCycle[Ev("req", c, k)]
             /\ Live(Ev("core", c, k))' /\ k > 1 => When(Ev("core", c, k))' >= doneCycle[Ev("rsp", c, k - 1)]
             /\ Live(Ev("core", c, k))' => When(Ev("core", c, k))' >= OrigStart(k) + slack[c]
  <2>1. /\ doneCycle[Ev("req", c, k)] \in Nat /\ (k > 1 => doneCycle[Ev("rsp", c, k - 1)] \in Nat)
        /\ OrigStart(k) + slack[c] \in Int
    <3>1. Ev("req", c, k) \in Crossings /\ (k > 1 => Ev("rsp", c, k - 1) \in Crossings)
      BY IsCrossing, Zenon
    <3>2. OrigStart(k) \in Nat /\ slack[c] \in Nat
      BY OrigType, Zenon DEF WInv, Types
    <3> QED BY <3>1, <3>2 DEF WInv, Types
  <2>2. When(Ev("mem", c, k)) \in Nat /\ When(Ev("core", c, k)) \in Nat
    BY <1>1, WhenType, Zenon DEF WInv
  <2>3. /\ Live(Ev("mem", c, k)) => When(Ev("mem", c, k)) >= doneCycle[Ev("req", c, k)]
        /\ Live(Ev("core", c, k)) /\ k > 1 => When(Ev("core", c, k)) >= doneCycle[Ev("rsp", c, k - 1)]
        /\ Live(Ev("core", c, k)) => When(Ev("core", c, k)) >= OrigStart(k) + slack[c]
    BY Zenon DEF WInv, Times
  <2>4. /\ Live(Ev("mem", c, k))' => Live(Ev("mem", c, k)) /\ When(Ev("mem", c, k))' \in Nat
                                      /\ When(Ev("mem", c, k))' >= When(Ev("mem", c, k))
        /\ Live(Ev("core", c, k))' => Live(Ev("core", c, k)) /\ When(Ev("core", c, k))' \in Nat
                                       /\ When(Ev("core", c, k))' >= When(Ev("core", c, k))
    BY <1>1, Zenon
  <2> QED BY <2>1, <2>2, <2>3, <2>4
<1>5. Times'
  BY <1>1, <1>4, Zenon DEF WInv, Times
<1> QED BY <1>2, <1>3, <1>5, Zenon

LEMMA SoonKept ==
    ASSUME WInv, UNCHANGED <<first, slack>>, NEW x \in Crossings, NEW n \in Int, Soon(x, n),
           \A c \in Cores, m \in Int : Floor(c, m) => Floor(c, m)'
    PROVE  Soon(x, n)'
<1>1. SrcDomain(x) \in Cores /\ n - preSlack(x) \in Int
  BY CrossingType, SlackType
<1>2. CASE n <= first[x]
  BY <1>2, Zenon DEF Soon
<1>3. CASE n <= minStartCycle(x) + slack[x[2]]
  BY <1>3, Zenon DEF Soon
<1>4. CASE Floor(SrcDomain(x), n - preSlack(x))
  BY <1>1, <1>4, Zenon DEF Soon
<1> QED BY <1>2, <1>3, <1>4, Zenon DEF Soon

LEMMA QuietWaiting ==
    ASSUME WInv, UNCHANGED <<called, doneCycle, first, slack>>,
           \A c \in Cores, n \in Int : Floor(c, n) => Floor(c, n)',
           \A x \in Crossings : Live(x)' => Live(x) /\ When(x)' = When(x),
           \A x \in Crossings : q'[x] # Out => q'[x] = q[x],
           \A x \in Crossings : Runs(x)' /\ (pc[DomainOf(x)])' \in Read =>
                Runs(x) /\ pc[DomainOf(x)] \in Read /\ (next[DomainOf(x)])' = next[DomainOf(x)]
    PROVE  Waiting' /\ CrossingNotLate'
<1>1. CrossingNotLate'
  BY Zenon DEF WInv, CrossingNotLate
<1>2. ASSUME NEW x \in Crossings, ~ called[x], Live(x)'
      PROVE  /\ Soon(x, When(x))'
             /\ Runs(x)' /\ (pc[DomainOf(x)])' \in Read => Soon(x, next[DomainOf(x)])'
  <2>1. Live(x) /\ When(x)' = When(x) /\ Soon(x, When(x)) /\ When(x) \in Int
    BY <1>2, WhenType, CrossingType DEF WInv, Waiting
  <2>2. PICK n \in Int : n = When(x)
    BY <2>1, Zenon
  <2>3. Soon(x, n)'
    BY <2>1, <2>2, SoonKept, Zenon
  <2>4. ASSUME Runs(x)', (pc[DomainOf(x)])' \in Read PROVE Soon(x, next[DomainOf(x)])'
    <3>1. /\ Runs(x) /\ pc[DomainOf(x)] \in Read /\ (next[DomainOf(x)])' = next[DomainOf(x)]
          /\ Soon(x, next[DomainOf(x)]) /\ next[DomainOf(x)] \in Int
      BY <1>2, <2>1, <2>4, CrossingType DEF WInv, Waiting, Types
    <3>2. PICK m \in Int : m = next[DomainOf(x)]
      BY <3>1, Zenon
    <3>3. Soon(x, m)'
      BY <3>1, <3>2, SoonKept, Zenon
    <3> QED BY <3>1, <3>2, <3>3, Zenon
  <2> QED BY <2>1, <2>2, <2>3, <2>4, Zenon
<1>3. Waiting'
  BY <1>2, Zenon DEF Waiting
<1> QED BY <1>1, <1>3, Zenon

\* An event that is live after the step was live before, and not later.
Quietly(f) ==
    /\ Live(f) /\ When(f)' \in Nat /\ When(f)' >= When(f)
    /\ f \in Crossings => When(f)' = When(f) /\ (q'[f] # Out => q'[f] = q[f])
    /\ Runs(f)' /\ (pc[DomainOf(f)])' \in Read =>
          Runs(f) /\ pc[DomainOf(f)] \in Read /\ (next[DomainOf(f)])' = next[DomainOf(f)]

LEMMA QuietSame ==
    ASSUME Types, NEW f \in Events, Live(f), When(f)' = When(f), q'[f] # Out => q'[f] = q[f],
           Runs(f)' /\ (pc[DomainOf(f)])' \in Read =>
              Runs(f) /\ pc[DomainOf(f)] \in Read /\ (next[DomainOf(f)])' = next[DomainOf(f)]
    PROVE  Quietly(f)
<1>1. \A n \in Nat : n >= n
  OBVIOUS
<1> QED BY <1>1, WhenType, Zenon DEF Quietly

LEMMA QuietWInv ==
    ASSUME WInv, UNCHANGED <<called, doneCycle, first, slack>>,
           Types', Served', Clocks', Ring',
           \A c \in Cores, n \in Int : Floor(c, n) => Floor(c, n)',
           \A f \in Events : Live(f)' => Quietly(f)
    PROVE  WInv'
<1>1. /\ \A e \in Events : Live(e)' => Live(e)
      /\ \A e \in Events \ Crossings : Live(e)' => When(e)' \in Nat /\ When(e)' >= When(e)
  BY Zenon DEF Quietly
<1>2. Alone' /\ Order' /\ Times'
  BY <1>1, QuietOrder, Zenon
<1>3. \A x \in Crossings : Live(x)' => Live(x) /\ When(x)' = When(x)
  BY CrossingType, Zenon DEF Quietly
<1>4. \A x \in Crossings : q'[x] # Out => q'[x] = q[x]
  <2>1. \A x \in Crossings : q'[x] # Out => Live(x)'
    BY Zenon DEF Live
  <2> QED BY <2>1, CrossingType, Zenon DEF Quietly
<1>5. \A x \in Crossings : Runs(x)' /\ (pc[DomainOf(x)])' \in Read =>
                Runs(x) /\ pc[DomainOf(x)] \in Read /\ (next[DomainOf(x)])' = next[DomainOf(x)]
  <2>1. \A x \in Crossings : Runs(x)' => Live(x)'
    BY Zenon DEF Live
  <2> QED BY <2>1, CrossingType, Zenon DEF Quietly
<1>6. Waiting' /\ CrossingNotLate'
  BY <1>3, <1>4, <1>5, QuietWaiting, Zenon
<1> QED BY <1>2, <1>6, Zenon DEF WInv

LEMMA ContendedWInv == ASSUME WInv, NEW d \in Cores, simulate_mem_contended(d) PROVE WInv'
<1> DEFINE e == running[d]
<1>1. /\ pc[d] = "run" /\ pc[d] \in Serving /\ pc[d] \in Own /\ Go(d, "advance")
      /\ UNCHANGED <<cur, limit, running, next, called, doneCycle, first, slack>>
  BY Zenon DEF simulate_mem_contended, Serving, Own
<1>2. PICK n \in Contention : enqueue([q EXCEPT ![e] = cur[d] + n])
  BY Zenon DEF simulate_mem_contended
<1>3. n \in Nat
  BY WeaveAssumption, Zenon
<1>4. /\ e \in Events /\ e \notin Crossings /\ DomainOf(e) = d /\ Live(e) /\ q[e] = Out
      /\ When(e) = cur[d] /\ cur[d] \in Nat
  BY <1>1, InHand, Zenon
<1> DEFINE newq == [q EXCEPT ![e] = cur[d] + n]
<1>5. /\ newq \in [Events -> Nat \cup {Out}] /\ newq[e] = cur[d] + n
      /\ \A f \in Events : f # e => newq[f] = q[f]
  BY <1>3, <1>4 DEF WInv, Types
<1> HIDE DEF newq
<1>6. Enqueues(d, newq)
  <2>1. Adds(d, newq)
    BY <1>3, <1>4, <1>5 DEF Adds
  <2> QED BY <1>1, <1>2, <2>1, Zenon DEF Enqueues, newq
<1>7. /\ q' = newq /\ q' \in [Events -> Nat \cup {Out}] /\ curBlock' = curBlock
      /\ pc' \in [Cores -> Serving \cup {"loop", "advance", "finished"}] /\ pc'[d] = "advance"
      /\ Served' /\ Clocks' /\ Ring'
      /\ \A c \in Cores, m \in Int : Floor(c, m) => Floor(c, m)'
  BY <1>6, EnqueueFacts, Zenon
<1>8. Types'
  BY <1>1, <1>7, Zenon DEF WInv, Types
<1>9. ASSUME NEW f \in Events, Live(f)' PROVE Quietly(f)
  <2>1. CASE f = e
    <3>1. When(f)' = cur[d] + n
      BY <1>3, <1>4, <1>5, <1>7, <2>1 DEF When, Out
    <3>2. ~ Runs(f)'
      BY <1>4, <1>7, <2>1, Zenon DEF Runs, Serving
    <3> QED BY <1>3, <1>4, <2>1, <3>1, <3>2 DEF Quietly
  <2>2. CASE f # e
    <3>1. newq[f] = q[f]
      BY <1>5, <2>2, Zenon
    <3>2. /\ Live(f) /\ (Runs(f)' <=> Runs(f))
          /\ When(f)' = When(f) /\ When(f) \in Nat
          /\ Runs(f)' => (pc[DomainOf(f)])' = pc[DomainOf(f)] /\ (next[DomainOf(f)])' = next[DomainOf(f)]
      BY <1>6, <1>9, <2>2, <3>1, EnqueueSame, Zenon
    <3> QED BY <1>7, <3>1, <3>2, QuietSame, Zenon DEF WInv
  <2> QED BY <2>1, <2>2, Zenon
<1> QED BY <1>1, <1>7, <1>8, <1>9, QuietWInv, Zenon

\* The source is not done: the crossing is queued again.
LEMMA RequeueWInv ==
    ASSUME WInv, NEW d \in Cores, pc[d] = "recheck", ~ called[running[d]],
           enqueue([q EXCEPT ![running[d]] = next[d]]), Go(d, "advance"),
           UNCHANGED <<cur, limit, running, next, called, doneCycle, first, slack>>
    PROVE  WInv'
<1> DEFINE x == running[d]
           newq == [q EXCEPT ![x] = next[d]]
<1>1. pc[d] \in Serving /\ pc[d] \notin Own /\ pc[d] \in Read /\ enqueue(newq)
  BY Zenon DEF Serving, Own, Read
<1>2. /\ x \in Events /\ x \in Crossings /\ DomainOf(x) = d /\ Live(x) /\ Runs(x) /\ q[x] = Out
      /\ When(x) = cur[d] /\ cur[d] \in Nat
  BY <1>1, InHand, Zenon
<1>3. next[d] \in Nat /\ next[d] >= cur[d] /\ Soon(x, next[d])
  BY <1>1, <1>2, Zenon DEF WInv, Types, Served, Waiting
<1>4. /\ newq \in [Events -> Nat \cup {Out}] /\ newq[x] = next[d]
      /\ \A f \in Events : f # x => newq[f] = q[f]
  BY <1>2, <1>3, Zenon DEF WInv, Types
<1> HIDE DEF newq
<1>5. Enqueues(d, newq)
  <2>1. Adds(d, newq)
    BY <1>2, <1>3, <1>4, Zenon DEF Adds
  <2> QED BY <1>1, <2>1, Zenon DEF Enqueues
<1>6. /\ q' = newq /\ q' \in [Events -> Nat \cup {Out}] /\ curBlock' = curBlock
      /\ pc' \in [Cores -> Serving \cup {"loop", "advance", "finished"}] /\ pc'[d] = "advance"
      /\ Served' /\ Clocks' /\ Ring'
      /\ \A c \in Cores, m \in Int : Floor(c, m) => Floor(c, m)'
  BY <1>5, EnqueueFacts, Zenon
<1>7. Types'
  BY <1>6, Zenon DEF WInv, Types
<1>8. \A f \in Events : f # x =>
          /\ Live(f)' <=> Live(f)
          /\ Runs(f)' <=> Runs(f)
          /\ When(f)' = When(f) /\ When(f) \in Nat
          /\ Runs(f)' => (pc[DomainOf(f)])' = pc[DomainOf(f)] /\ (next[DomainOf(f)])' = next[DomainOf(f)]
  BY <1>4, <1>5, EnqueueSame, Zenon
<1> HIDE DEF x
<1>10. Alone' /\ Order' /\ Times'
  BY <1>2, <1>8, QuietOrder
<1>11. CrossingNotLate'
  BY <1>2, <1>4, <1>6, CrossingType, Zenon DEF WInv, CrossingNotLate, x
<1>12. ASSUME NEW y \in Crossings, ~ called[y], Live(y)'
       PROVE  /\ Soon(y, When(y))'
              /\ Runs(y)' /\ (pc[DomainOf(y)])' \in Read => Soon(y, next[DomainOf(y)])'
  <2>1. CASE y = x
    <3>1. PICK n \in Int : n = next[d]
      BY <1>3
    <3>2. Soon(y, n)
      BY <1>3, <2>1, <3>1, Zenon
    <3>3. Soon(y, n)'
      BY <1>6, <3>2, SoonKept, Zenon
    <3>4. When(y)' = n /\ ~ Runs(y)'
      BY <1>2, <1>3, <1>4, <1>6, <2>1, <3>1 DEF When, Runs, Serving, Out
    <3> QED BY <3>3, <3>4, Zenon
  <2>2. CASE y # x
    <3>1. /\ Live(y) /\ When(y)' = When(y) /\ When(y) \in Int /\ DomainOf(y) \in Cores
          /\ Runs(y)' => Runs(y) /\ (pc[DomainOf(y)])' = pc[DomainOf(y)] /\ (next[DomainOf(y)])' = next[DomainOf(y)]
      BY <1>8, <1>12, <2>2, CrossingType
    <3>2. PICK n \in Int, m \in Int : n = When(y) /\ m = next[DomainOf(y)]
      BY <3>1 DEF WInv, Types
    <3>3. Soon(y, n) /\ (Runs(y) /\ pc[DomainOf(y)] \in Read => Soon(y, m))
      BY <1>12, <3>1, <3>2, Zenon DEF WInv, Waiting
    <3>4. Soon(y, n)' /\ (Soon(y, m) => Soon(y, m)')
      BY <1>6, <3>3, SoonKept, Zenon
    <3> QED BY <3>1, <3>2, <3>3, <3>4, Zenon
  <2> QED BY <2>1, <2>2, Zenon
<1>13. Waiting'
  BY <1>12, Zenon DEF Waiting
<1> QED BY <1>6, <1>7, <1>10, <1>11, <1>13, Zenon DEF WInv

\* Steps in which no event moves: clocks that go on between two events, the
\* start and the end of a phase.
LEMMA IdleWInv ==
    ASSUME WInv, UNCHANGED <<pqs, running, next, called, doneCycle, first, slack>>,
           limit' \in Nat, limit' >= limit, cur' \in [Cores -> Nat],
           pc' \in [Cores -> Serving \cup {"loop", "advance", "finished"}],
           \A c \in Cores : (pc'[c] \in Serving \/ pc[c] \in Serving) => pc'[c] = pc[c] /\ cur'[c] = cur[c],
           \A c \in Cores : cur'[c] # cur[c] =>
              curBlock[c] * BlockCycles <= cur'[c] /\ \A e \in Queued(c) : cur'[c] <= q[e]
    PROVE  WInv'
<1>1. Types'
  BY Zenon DEF WInv, Types, pqs
<1>2. \A c \in Cores : Queued(c)' = Queued(c)
  BY Zenon DEF Queued, pqs
<1>3. Served'
  BY Zenon DEF WInv, Served, pqs
<1>4. Clocks'
  <2> SUFFICES ASSUME NEW c \in Cores
               PROVE  /\ curBlock[c] * BlockCycles <= cur'[c]
                      /\ curBlock[c] * BlockCycles <= limit'
                      /\ \A e \in Queued(c) : cur'[c] <= q[e]
    BY <1>2, Zenon DEF Clocks, pqs
  <2>1. /\ curBlock[c] * BlockCycles <= cur[c]
        /\ curBlock[c] * BlockCycles <= limit
        /\ \A e \in Queued(c) : cur[c] <= q[e]
    BY Zenon DEF WInv, Clocks
  <2>2. curBlock[c] * BlockCycles \in Int /\ limit \in Int
    BY Sizes DEF WInv, Types
  <2> QED BY <2>1, <2>2
<1>5. Ring'
  BY <1>2, Zenon DEF WInv, Ring, pqs
<1>6. \A c \in Cores, n \in Int : Floor(c, n) => Floor(c, n)'
  BY <1>2, Zenon DEF Floor, pqs
<1>7. ASSUME NEW f \in Events, Live(f)' PROVE Quietly(f)
  <2>1. DomainOf(f) \in Cores /\ When(f) \in Nat
    BY EventHome, WhenType, Zenon DEF WInv
  <2>2. Live(f) /\ (Runs(f)' => Runs(f) /\ pc[DomainOf(f)]' = pc[DomainOf(f)])
    BY <1>7, <2>1, Zenon DEF Live, Runs, pqs
  <2>3. When(f)' = When(f)
    BY <1>7, <2>1, Zenon DEF Live, Runs, When, pqs
  <2> QED BY <2>1, <2>2, <2>3, QuietSame, Zenon DEF WInv, pqs
<1> QED BY <1>1, <1>3, <1>4, <1>5, <1>6, <1>7, QuietWInv, Zenon

LEMMA StutterWInv == ASSUME WInv, UNCHANGED vars PROVE WInv'
<1>1. cur \in [Cores -> Nat] /\ limit \in Nat /\ pc \in [Cores -> Serving \cup {"loop", "advance", "finished"}]
  BY Zenon DEF WInv, Types
<1>2. limit >= limit
  BY <1>1
<1>3. UNCHANGED <<pqs, cur, limit, pc, running, next, called, doneCycle, first, slack>>
  BY Zenon DEF vars
<1> QED BY <1>1, <1>2, <1>3, IdleWInv, Zenon

\* The crossing at hand is not done: its thread goes on to read the cycles.
LEMMA CheckWInv ==
    ASSUME WInv, NEW d \in Cores, pc[d] = "check", Go(d, "read"),
           UNCHANGED <<pqs, cur, limit, running, next, called, doneCycle, first, slack>>
    PROVE  WInv'
<1>1. /\ pc'[d] = "read" /\ \A c \in Cores : c # d => pc'[c] = pc[c]
      /\ pc' \in [Cores -> Serving \cup {"loop", "advance", "finished"}]
      /\ pc[d] \notin Own /\ pc'[d] \notin Own /\ pc'[d] # "mark" /\ pc'[d] \notin Read
  BY Zenon DEF WInv, Types, Go, Serving, Own, Read
<1>2. \A c \in Cores : Queued(c)' = Queued(c) /\ (pc'[c] \in Serving <=> pc[c] \in Serving)
  BY <1>1, Zenon DEF Queued, pqs, Serving
<1>3. Types' /\ Served' /\ Clocks' /\ Ring'
  <2>1. Types'
    BY <1>1, Zenon DEF WInv, Types, pqs
  <2>2. Served'
    BY <1>1, <1>2, Zenon DEF WInv, Served, pqs
  <2>3. Clocks'
    BY <1>2, Zenon DEF WInv, Clocks, pqs
  <2>4. Ring'
    BY <1>2, Zenon DEF WInv, Ring, pqs
  <2> QED BY <2>1, <2>2, <2>3, <2>4, Zenon
<1>4. \A c \in Cores, n \in Int : Floor(c, n) => Floor(c, n)'
  BY <1>2, Zenon DEF Floor, pqs
<1>5. ASSUME NEW f \in Events, Live(f)' PROVE Quietly(f)
  <2>1. DomainOf(f) \in Cores /\ When(f) \in Nat
    BY EventHome, WhenType, Zenon DEF WInv
  <2>2. Live(f) /\ (Runs(f)' => Runs(f)) /\ When(f)' = When(f)
    BY <1>2, <1>5, <2>1, Zenon DEF Live, Runs, When, pqs
  <2> QED BY <1>1, <2>1, <2>2, QuietSame, Zenon DEF WInv, pqs
<1> QED BY <1>3, <1>4, <1>5, QuietWInv, Zenon

\* The core event at hand tells its skew, which never shrinks.
LEMMA ReportWInv == ASSUME WInv, NEW d \in Cores, reportEventSimulated(d) PROVE WInv'
<1>1. pc[d] = "run" /\ pc[d] \in Serving
  BY Zenon DEF reportEventSimulated, Serving
<1>2. PICK k \in 1 .. K : running[d] = Ev("core", d, k)
  <2>1. PICK kind \in Kinds, c \in Cores, k \in 1 .. K : running[d] = Ev(kind, c, k)
    BY <1>1, InHand, EventForm, Zenon
  <2>2. running[d][1] = "core"
    BY Zenon DEF reportEventSimulated
  <2>3. running[d] = Ev("core", c, k)
    BY <2>1, <2>2 DEF Ev
  <2>4. DomainOf(running[d]) = d
    BY <1>1, InHand, Zenon
  <2> QED BY <2>3, <2>4, Homes, Zenon
<1>3. running[d][1] = "core" /\ running[d][2] = d /\ running[d][3] = k /\ running[d] \notin Crossings
  <2>1. pc[d] \in Own
    BY <1>1, Zenon DEF Own
  <2>2. running[d] \notin Crossings
    BY <1>1, <2>1, InHand, Zenon
  <2>3. running[d][1] = "core" /\ running[d][2] = d /\ running[d][3] = k
    BY <1>2 DEF Ev
  <2> QED BY <2>2, <2>3, Zenon
<1>4. /\ slack' = [slack EXCEPT ![d] = cur[d] - OrigStart(k)] /\ Go(d, "mark")
      /\ UNCHANGED <<pqs, cur, limit, running, next, called, doneCycle, first>>
  BY <1>3, Zenon DEF reportEventSimulated, startSlack
<1>5. /\ pc'[d] = "mark" /\ \A c \in Cores : c # d => pc'[c] = pc[c]
      /\ pc' \in [Cores -> Serving \cup {"loop", "advance", "finished"}]
      /\ pc'[d] \in Serving /\ pc'[d] \in Own /\ pc'[d] \notin Read
  BY <1>4, Zenon DEF WInv, Types, Go, Serving, Own, Read
<1>6. /\ Live(Ev("core", d, k)) /\ When(Ev("core", d, k)) = cur[d] /\ cur[d] \in Nat
      /\ cur[d] >= OrigStart(k) + slack[d] /\ OrigStart(k) \in Nat /\ slack[d] \in Nat
  <2>1. Live(Ev("core", d, k)) /\ When(Ev("core", d, k)) = cur[d] /\ cur[d] \in Nat
    BY <1>1, <1>2, InHand, Zenon
  <2>2. cur[d] >= OrigStart(k) + slack[d]
    BY <2>1, TimesAt, Zenon
  <2> QED BY <2>1, <2>2, OrigType, Zenon DEF WInv, Types
<1>7. cur[d] - OrigStart(k) \in Nat /\ cur[d] - OrigStart(k) >= slack[d]
      /\ cur[d] >= OrigStart(k) + (cur[d] - OrigStart(k))
  BY <1>6
<1>8. /\ slack' \in [Cores -> Nat] /\ slack'[d] = cur[d] - OrigStart(k)
      /\ \A c \in Cores : c # d => slack'[c] = slack[c]
  BY <1>4, <1>7, Zenon DEF WInv, Types
<1>9. \A c \in Cores : slack'[c] \in Nat /\ slack'[c] >= slack[c]
  BY <1>7, <1>8 DEF WInv, Types
<1>10. \A c \in Cores : Queued(c)' = Queued(c) /\ (pc'[c] \in Serving <=> pc[c] \in Serving)
  BY <1>1, <1>4, <1>5, Zenon DEF Queued, pqs
<1>11. Types' /\ Served' /\ Clocks' /\ Ring'
  <2>1. Types'
    BY <1>4, <1>5, <1>8, Zenon DEF WInv, Types, pqs
  <2>2. Served'
    BY <1>1, <1>3, <1>4, <1>5, Zenon DEF WInv, Served, pqs
  <2>3. Clocks' /\ Ring'
    BY <1>4, <1>10, Zenon DEF WInv, Clocks, Ring, pqs
  <2> QED BY <2>1, <2>2, <2>3, Zenon
<1>12. \A c \in Cores, n \in Int : Floor(c, n) => Floor(c, n)'
  BY <1>4, <1>10, Zenon DEF Floor, pqs
<1>13. \A f \in Events : (Runs(f)' <=> Runs(f)) /\ (Live(f)' <=> Live(f)) /\ When(f)' = When(f)
  BY <1>4, <1>10, EventHome, Zenon DEF Live, Runs, When, pqs
<1>14. ASSUME NEW c \in Cores, NEW j \in 1 .. K
       PROVE  /\ Live(Ev("core", c, j))' <=> Live(Ev("core", c, j))
              /\ Live(Ev("mem", c, j))' <=> Live(Ev("mem", c, j))
              /\ Live(Ev("req", c, j))' <=> Live(Ev("req", c, j))
              /\ Live(Ev("rsp", c, j))' <=> Live(Ev("rsp", c, j))
              /\ When(Ev("core", c, j))' = When(Ev("core", c, j))
              /\ When(Ev("mem", c, j))' = When(Ev("mem", c, j))
              /\ Live(Ev("core", c, j)) /\ c = d => j = k
              /\ Live(Ev("rsp", c, j)) => c # d
  <2>1. /\ Ev("core", c, j) \in Events /\ Ev("mem", c, j) \in Events
        /\ Ev("req", c, j) \in Events /\ Ev("rsp", c, j) \in Events
    BY Names, Zenon
  <2>2. (Live(Ev("core", c, j)) /\ c = d => j = k) /\ (Live(Ev("rsp", c, j)) => c # d)
    BY <1>6, AloneAt, Zenon
  <2> QED BY <1>13, <2>1, <2>2, Zenon
<1>15. Alone'
  <2> SUFFICES ASSUME NEW c \in Cores, NEW i \in 1 .. K, NEW j \in 1 .. K
               PROVE  /\ Live(Ev("core", c, i))' /\ Live(Ev("core", c, j))' => i = j
                      /\ Live(Ev("rsp", c, i))' /\ Live(Ev("rsp", c, j))' => i = j
                      /\ ~ (Live(Ev("core", c, i))' /\ Live(Ev("rsp", c, j))')
                      /\ Live(Ev("req", c, i))' /\ Live(Ev("req", c, j))' => i = j
    BY Zenon DEF Alone
  <2> QED BY <1>14, AloneAt, Zenon
<1>16. Order'
  BY <1>4, <1>14, Zenon DEF WInv, Order
<1>17. Times'
  <2> SUFFICES ASSUME NEW c \in Cores, NEW j \in 1 .. K
               PROVE  /\ Live(Ev("mem", c, j))' => When(Ev("mem", c, j))' >= doneCycle'[Ev("req", c, j)]
                      /\ Live(Ev("core", c, j))' /\ j > 1 => When(Ev("core", c, j))' >= doneCycle'[Ev("rsp", c, j - 1)]
                      /\ Live(Ev("core", c, j))' => When(Ev("core", c, j))' >= OrigStart(j) + slack'[c]
                      /\ Live(Ev("rsp", c, j))' => doneCycle'[Ev("req", c, j)] >= OrigStart(j) + slack'[c] + CoreDelay
                      /\ Live(Ev("rsp", c, j))' /\ called'[Ev("rsp", c, j)] =>
                            doneCycle'[Ev("rsp", c, j)] >= OrigStart(j) + slack'[c] + CoreDelay + MemDelay
    BY Zenon DEF Times
  <2>1. CASE c = d
    <3>1. /\ ~ Live(Ev("rsp", c, j))'
          /\ Live(Ev("core", c, j))' => j = k /\ When(Ev("core", c, j))' = cur[d]
      BY <1>6, <1>14, <2>1, Zenon
    <3>2. Live(Ev("core", c, j))' => When(Ev("core", c, j))' >= OrigStart(j) + slack'[c]
      BY <1>7, <1>8, <2>1, <3>1, Zenon
    <3> QED BY <1>4, <1>14, <3>1, <3>2, TimesAt, Zenon
  <2>2. CASE c # d
    BY <1>4, <1>8, <1>14, <2>2, TimesAt, Zenon
  <2> QED BY <2>1, <2>2, Zenon
<1>18. Waiting'
  <2> SUFFICES ASSUME NEW y \in Crossings, ~ called'[y], Live(y)'
               PROVE  /\ Soon(y, When(y))'
                      /\ Runs(y)' /\ (pc[DomainOf(y)])' \in Read => Soon(y, next[DomainOf(y)])'
    BY Zenon DEF Waiting
  <2>1. y \in Events /\ DomainOf(y) \in Cores /\ y[2] \in Cores /\ ~ called[y]
    BY <1>4, CrossingType, Zenon
  <2>2. Live(y) /\ When(y)' = When(y) /\ (Runs(y)' => Runs(y))
    BY <1>13, <2>1, Zenon
  <2>3. Runs(y) => DomainOf(y) # d
    BY <1>3, Zenon DEF Runs
  <2>4. Runs(y)' => /\ Runs(y)
                    /\ (pc[DomainOf(y)])' = pc[DomainOf(y)] /\ (next[DomainOf(y)])' = next[DomainOf(y)]
    BY <1>4, <1>5, <2>1, <2>2, <2>3, Zenon
  <2> QED BY <1>4, <1>9, <1>12, <2>1, <2>2, <2>4, WaitsOn, Zenon
<1>19. CrossingNotLate'
  BY <1>4, Zenon DEF WInv, CrossingNotLate, pqs
<1> QED BY <1>11, <1>15, <1>16, <1>17, <1>18, <1>19, Zenon DEF WInv

\* The cycle for which the crossing would be queued again, as far as it is
\* known, is soon enough.
LEMMA NextWInv ==
    ASSUME WInv, NEW d \in Cores, pc[d] \in {"read", "getSlack"}, NEW l \in Read, Go(d, l),
           NEW n \in Nat, next' = [next EXCEPT ![d] = n], n >= cur[d],
           ~ called[running[d]] => Soon(running[d], n),
           UNCHANGED <<pqs, cur, limit, running, called, doneCycle, first, slack>>
    PROVE  WInv'
<1> DEFINE x == running[d]
<1>1. /\ pc'[d] = l /\ next'[d] = n /\ \A c \in Cores : c # d => pc'[c] = pc[c] /\ next'[c] = next[c]
      /\ pc' \in [Cores -> Serving \cup {"loop", "advance", "finished"}]
      /\ next' \in [Cores -> Nat] /\ pc[d] \in Serving
  BY Zenon DEF WInv, Types, Go, Serving, Read
<1>2. pc[d] \notin Own /\ pc'[d] \notin Own /\ pc'[d] \in Serving
  BY <1>1, Zenon DEF Own, Read, Serving
<1> HIDE DEF x
<1>6. \A c \in Cores : Queued(c)' = Queued(c) /\ (pc'[c] \in Serving <=> pc[c] \in Serving)
  BY <1>1, <1>2, Zenon DEF Queued, pqs
<1>8. Types' /\ Served' /\ Clocks' /\ Ring'
  <2>1. Types'
    BY <1>1, Zenon DEF WInv, Types, pqs
  <2>2. pc'[d] # "mark"
    BY <1>2, Zenon DEF Own
  <2>3. Served'
    BY <1>1, <1>2, <2>2, Zenon DEF WInv, Served, pqs
  <2>4. Clocks' /\ Ring'
    BY <1>6, Zenon DEF WInv, Clocks, Ring, pqs
  <2> QED BY <2>1, <2>3, <2>4, Zenon
<1>9. \A c \in Cores, m \in Int : Floor(c, m) => Floor(c, m)'
  BY <1>6, Zenon DEF Floor, pqs
<1>10. ASSUME NEW f \in Events, Live(f)' PROVE Live(f) /\ When(f)' = When(f) /\ When(f) \in Nat
  <2>1. DomainOf(f) \in Cores /\ When(f) \in Nat
    BY EventHome, WhenType, Zenon DEF WInv
  <2> QED BY <1>6, <1>10, <2>1, Zenon DEF Live, Runs, When, pqs
<1>11. Alone' /\ Order' /\ Times'
  BY <1>10, QuietOrder
<1>12. CrossingNotLate'
  BY Zenon DEF WInv, CrossingNotLate, pqs
<1>13. ASSUME NEW y \in Crossings, ~ called[y], Live(y)'
       PROVE  /\ Soon(y, When(y))'
              /\ Runs(y)' /\ pc[DomainOf(y)]' \in Read => Soon(y, next[DomainOf(y)])'
  <2>1. Live(y) /\ When(y)' = When(y) /\ When(y) \in Int /\ Soon(y, When(y)) /\ DomainOf(y) \in Cores
    BY <1>10, <1>13, CrossingType DEF WInv, Waiting
  <2>2. PICK w \in Int : w = When(y)
    BY <2>1, Zenon
  <2>3. Soon(y, w)'
    BY <1>9, <2>1, <2>2, SoonKept, Zenon
  <2>4. ASSUME Runs(y)', pc[DomainOf(y)]' \in Read PROVE Soon(y, next[DomainOf(y)])'
    <3>1. CASE DomainOf(y) = d
      <4>1. y = running[d]
        BY <2>4, <3>1, Zenon DEF Runs
      <4>2. n \in Int
        OBVIOUS
      <4>3. Soon(y, n)'
        BY <1>9, <1>13, <4>1, <4>2, SoonKept, Zenon
      <4> QED BY <1>1, <3>1, <4>3, Zenon
    <3>2. CASE DomainOf(y) # d
      <4>1. Runs(y) /\ pc[DomainOf(y)] \in Read /\ next'[DomainOf(y)] = next[DomainOf(y)]
        BY <1>1, <2>1, <2>4, <3>2, Zenon DEF Runs
      <4>2. PICK m \in Int : m = next[DomainOf(y)]
        BY <2>1 DEF WInv, Types
      <4>3. Soon(y, m)
        BY <1>13, <2>1, <4>1, <4>2, Zenon DEF WInv, Waiting
      <4>4. Soon(y, m)'
        BY <1>9, <4>3, SoonKept, Zenon
      <4> QED BY <4>1, <4>2, <4>4, Zenon
    <3> QED BY <3>1, <3>2, Zenon
  <2> QED BY <2>1, <2>2, <2>3, <2>4, Zenon
<1>14. Waiting'
  BY <1>13, Zenon DEF Waiting
<1> QED BY <1>8, <1>11, <1>12, <1>14, Zenon DEF WInv

\* What is at hand when the cycles are read.
LEMMA CrossingInHand ==
    ASSUME WInv, NEW d \in Cores, pc[d] \in {"read", "getSlack"}
    PROVE  /\ running[d] \in Crossings /\ DomainOf(running[d]) = d /\ Runs(running[d])
           /\ Live(running[d]) /\ When(running[d]) = cur[d]
           /\ SrcDomain(running[d]) \in Cores /\ preSlack(running[d]) \in Nat
           /\ minStartCycle(running[d]) + slack[running[d][2]] \in Nat
           /\ cur[SrcDomain(running[d])] \in Nat /\ cur[d] \in Nat /\ next[d] \in Nat
<1>1. pc[d] \in Serving /\ pc[d] \notin Own
  BY Zenon DEF Serving, Own
<1>2. /\ running[d] \in Crossings /\ DomainOf(running[d]) = d /\ Runs(running[d])
      /\ Live(running[d]) /\ When(running[d]) = cur[d]
  BY <1>1, InHand, Zenon
<1>3. PICK x \in Crossings : x = running[d]
  BY <1>2, Zenon
<1>4. /\ SrcDomain(x) \in Cores /\ preSlack(x) \in Nat /\ minStartCycle(x) + slack[x[2]] \in Nat
      /\ cur[SrcDomain(x)] \in Nat /\ cur[d] \in Nat /\ next[d] \in Nat
  BY CrossingType, SlackType DEF WInv, Types
<1> QED BY <1>2, <1>3, <1>4, Zenon

LEMMA ReadWInv == ASSUME WInv, NEW d \in Cores, crossing_read(d) PROVE WInv'
<1> DEFINE x == running[d]
<1>1. /\ pc[d] = "read" /\ Go(d, "getSlack") /\ "getSlack" \in Read
      /\ next' = [next EXCEPT ![d] = AtLeast(cur[SrcDomain(x)] + preSlack(x), cur[d])]
      /\ UNCHANGED <<pqs, cur, limit, running, called, doneCycle, first, slack>>
  BY Zenon DEF crossing_read, Read
<1>2. /\ x \in Crossings /\ Live(x) /\ When(x) = cur[d] /\ SrcDomain(x) \in Cores
      /\ preSlack(x) \in Nat /\ cur[SrcDomain(x)] \in Nat /\ cur[d] \in Nat
  BY <1>1, CrossingInHand, Zenon
<1> HIDE DEF x
<1>3. PICK n \in Nat : /\ n = AtLeast(cur[SrcDomain(x)] + preSlack(x), cur[d]) /\ n >= cur[d]
                       /\ n \in {cur[SrcDomain(x)] + preSlack(x), cur[d]}
  BY <1>2 DEF AtLeast
<1>4. ~ called[x] => Soon(x, n)
  <2>1. CASE n = cur[SrcDomain(x)] + preSlack(x)
    <3>1. n - preSlack(x) = cur[SrcDomain(x)]
      BY <1>2, <2>1
    <3>2. Floor(SrcDomain(x), cur[SrcDomain(x)])
      BY <1>2 DEF Floor, WInv, Clocks
    <3> QED BY <3>1, <3>2, Zenon DEF Soon
  <2>2. CASE n = cur[d]
    BY <1>2, <2>2, Zenon DEF WInv, Waiting
  <2> QED BY <1>3, <2>1, <2>2, Zenon
<1> QED BY <1>1, <1>3, <1>4, NextWInv, Zenon DEF x

LEMMA SlackWInv == ASSUME WInv, NEW d \in Cores, crossing_getSlack(d) PROVE WInv'
<1> DEFINE x == running[d]
<1>1. /\ pc[d] = "getSlack" /\ Go(d, "recheck") /\ "recheck" \in Read /\ pc[d] \in Serving /\ pc[d] \in Read
      /\ next' = [next EXCEPT ![d] = AtLeast(minStartCycle(x) + slack[x[2]], next[d])]
      /\ UNCHANGED <<pqs, cur, limit, running, called, doneCycle, first, slack>>
  BY Zenon DEF crossing_getSlack, Read, Serving
<1>2. /\ x \in Crossings /\ Live(x) /\ Runs(x) /\ DomainOf(x) = d /\ cur[d] \in Nat
      /\ minStartCycle(x) + slack[x[2]] \in Nat /\ next[d] \in Nat
  BY <1>1, CrossingInHand, Zenon
<1>3. next[d] >= cur[d]
  BY <1>1, Zenon DEF WInv, Served
<1> HIDE DEF x
<1>4. PICK n \in Nat : /\ n = AtLeast(minStartCycle(x) + slack[x[2]], next[d]) /\ n >= cur[d]
                       /\ n \in {minStartCycle(x) + slack[x[2]], next[d]}
  BY <1>2, <1>3 DEF AtLeast
<1>5. ~ called[x] => Soon(x, n)
  <2>1. CASE n = minStartCycle(x) + slack[x[2]]
    BY <1>2, <2>1 DEF Soon
  <2>2. CASE n = next[d]
    BY <1>1, <1>2, <2>2, Zenon DEF WInv, Waiting
  <2> QED BY <1>4, <2>1, <2>2, Zenon
<1> QED BY <1>1, <1>4, <1>5, NextWInv, Zenon DEF x

-----------------------------------------------------------------------------
(* The initial state, and what the invariant says of the events of an access.*)

LEMMA InitWInv == ASSUME Init PROVE WInv
<1>1. \A e \in Events : \/ e[1] = "core" /\ e[3] = 1 /\ q[e] = 0
                        \/ e[1] = "req" /\ e[3] = 1 /\ q[e] = minStartCycle(e)
                        \/ ~ (e[1] \in {"core", "req"} /\ e[3] = 1) /\ q[e] = Out
  <2>1. q = [e \in Events |-> CASE e[1] = "core" /\ e[3] = 1 -> 0
                                [] e[1] = "req" /\ e[3] = 1 -> minStartCycle(e)
                                [] OTHER -> Out]
    BY Zenon DEF Init
  <2> SUFFICES ASSUME NEW e \in Events
               PROVE  \/ e[1] = "core" /\ e[3] = 1 /\ q[e] = 0
                      \/ e[1] = "req" /\ e[3] = 1 /\ q[e] = minStartCycle(e)
                      \/ ~ (e[1] \in {"core", "req"} /\ e[3] = 1) /\ q[e] = Out
    OBVIOUS
  <2>2. CASE e[1] = "core" /\ e[3] = 1
    <3>1. "core" # "req"
      OBVIOUS
    <3>2. q[e] = 0
      BY <2>1, <2>2, <3>1, Zenon
    <3> QED BY <2>2, <3>2, Zenon
  <2>3. CASE e[1] = "req" /\ e[3] = 1
    <3>1. "core" # "req"
      OBVIOUS
    <3>2. q[e] = minStartCycle(e)
      BY <2>1, <2>3, <3>1, Zenon
    <3> QED BY <2>3, <3>2, Zenon
  <2>4. CASE ~ (e[1] \in {"core", "req"} /\ e[3] = 1)
    <3>1. ~ (e[1] = "core" /\ e[3] = 1) /\ ~ (e[1] = "req" /\ e[3] = 1)
      BY <2>4, Zenon
    <3>2. q[e] = Out
      BY <2>1, <3>1, Zenon
    <3> QED BY <2>4, <3>2, Zenon
  <2> QED BY <2>2, <2>3, <2>4, Zenon
<1>2. \A e \in Events : e[1] = "req" => e \in Crossings /\ minStartCycle(e) \in Nat
  <2>1. \A e \in Events : e[1] = "req" => e \in Crossings
    BY Zenon DEF Events, Crossings
  <2> QED BY <2>1, SlackType, Zenon
<1>3. /\ feMap = {e \in Events : q[e] # Out /\ q[e] \div BlockCycles >= PQ_BLOCKS}
      /\ curBlock = [d \in Cores |-> 0] /\ cur = [d \in Cores |-> 0] /\ limit = 0
      /\ pc = [d \in Cores |-> "finished"] /\ running = [d \in Cores |-> Ev("core", d, 1)]
      /\ next = [d \in Cores |-> 0] /\ called = [x \in Crossings |-> FALSE]
      /\ doneCycle = [x \in Crossings |-> 0]
      /\ first = [x \in Crossings |-> IF x[1] = "req" /\ x[3] = 1 THEN minStartCycle(x) ELSE 0]
      /\ slack = [c \in Cores |-> 0]
  BY Zenon DEF Init
<1>4. Types
  <2>1. DOMAIN q = Events /\ q = [e \in Events |-> q[e]]
    BY Zenon DEF Init
  <2>2. \A e \in Events : q[e] \in Nat \cup {Out}
    BY <1>1, <1>2
  <2>3. q \in [Events -> Nat \cup {Out}]
    BY <2>1, <2>2, Zenon
  <2>4. first \in [Crossings -> Nat]
    BY <1>3, SlackType, Zenon
  <2> QED BY <1>3, <2>3, <2>4, Zenon DEF Types
<1>5. Served
  BY <1>3, Zenon DEF Served, Serving
<1>6. Clocks
  BY <1>3, <1>4, QueuedFacts, Sizes DEF Clocks
<1>7. Ring
  <2>1. ASSUME NEW d \in Cores, NEW e \in Queued(d) \ feMap
        PROVE  curBlock[d] <= BlockOf(q[e]) /\ BlockOf(q[e]) < curBlock[d] + PQ_BLOCKS
    <3>1. e \in Events /\ q[e] \in Nat /\ q[e] # Out /\ BlockOf(q[e]) \in Nat
      BY <1>4, QueuedFacts, Blocks DEF Out
    <3>2. ~ (BlockOf(q[e]) >= PQ_BLOCKS)
      BY <1>3, <3>1, Zenon DEF BlockOf
    <3> QED BY <1>3, <3>1, <3>2, Sizes
  <2>2. ASSUME NEW e \in feMap, NEW m \in 0 .. curBlock[DomainOf(e)] PROVE q[e] >= (m + PQ_BLOCKS) * BlockCycles
    <3>1. e \in Events /\ q[e] # Out /\ BlockOf(q[e]) >= PQ_BLOCKS /\ curBlock[DomainOf(e)] = 0
      BY <1>3, EventHome, Zenon DEF BlockOf
    <3>2. q[e] \in Nat /\ BlockOf(q[e]) \in Nat /\ ~ (BlockOf(q[e]) < PQ_BLOCKS)
      <4>1. q[e] \in Nat
        BY <1>4, <3>1, Zenon DEF Types
      <4>2. BlockOf(q[e]) \in Nat
        BY <4>1, Blocks, Zenon
      <4> QED BY <3>1, <4>1, <4>2, Sizes
    <3>3. ~ (q[e] < PQ_BLOCKS * BlockCycles)
      BY <3>2, BlockLess, Sizes, Zenon
    <3>4. m = 0
      BY <3>1
    <3> QED BY <3>2, <3>3, <3>4, Sizes
  <2> QED BY <1>3, <2>1, <2>2, Zenon DEF Ring
<1>8. ASSUME NEW e \in Events, Live(e)
      PROVE  /\ e[1] \in {"core", "req"} /\ e[3] = 1
             /\ e[1] = "core" => When(e) = 0
             /\ e[1] = "req" => When(e) = minStartCycle(e)
  <2>1. ~ Runs(e)
    BY <1>3, EventHome, Zenon DEF Runs, Serving
  <2> QED BY <1>1, <1>8, <2>1, Zenon DEF Live, When
<1>9. ASSUME NEW c \in Cores, NEW k \in 1 .. K
      PROVE  /\ ~ Live(Ev("mem", c, k)) /\ ~ Live(Ev("rsp", c, k))
             /\ Live(Ev("core", c, k)) => k = 1 /\ When(Ev("core", c, k)) = 0
             /\ Live(Ev("req", c, k)) => k = 1
             /\ ~ called[Ev("req", c, k)] /\ ~ called[Ev("rsp", c, k)]
  <2>1. /\ Ev("mem", c, k)[1] = "mem" /\ Ev("rsp", c, k)[1] = "rsp"
        /\ Ev("core", c, k)[1] = "core" /\ Ev("core", c, k)[3] = k
        /\ Ev("req", c, k)[1] = "req" /\ Ev("req", c, k)[3] = k
    BY Zenon DEF Ev
  <2>2. /\ Ev("core", c, k) \in Events /\ Ev("mem", c, k) \in Events
        /\ Ev("req", c, k) \in Events /\ Ev("rsp", c, k) \in Events
    BY Names, Zenon
  <2>3. Ev("req", c, k) \in Crossings /\ Ev("rsp", c, k) \in Crossings
    BY IsCrossing, Zenon
  <2> QED BY <1>3, <1>8, <2>1, <2>2, <2>3, Zenon
<1>10. Alone
  BY <1>9, Zenon DEF Alone
<1>11. Order
  <2> SUFFICES ASSUME NEW c \in Cores, NEW k \in 1 .. K
               PROVE  /\ k < K => ~ called[Ev("req", c, k + 1)]
                      /\ Live(Ev("core", c, k)) => ~ (k > 1)
    BY <1>9, Zenon DEF Order
  <2> QED BY <1>9, IsCrossing
<1>12. Times
  BY <1>3, <1>9, OrigType DEF Times
<1>13. Waiting
  <2> SUFFICES ASSUME NEW x \in Crossings, Live(x)
               PROVE  Soon(x, When(x)) /\ ~ Runs(x)
    BY Zenon DEF Waiting
  <2>1. x \in Events /\ DomainOf(x) \in Cores /\ x[1] \in {"req", "rsp"}
    BY CrossingType, Zenon
  <2>2. ~ Runs(x)
    BY <1>3, <2>1, Zenon DEF Runs, Serving
  <2>3. When(x) = first[x] /\ first[x] \in Nat
    BY <1>3, <1>8, <2>1, SlackType, Zenon
  <2>4. When(x) <= first[x]
    BY <2>3
  <2> QED BY <2>2, <2>4, Zenon DEF Soon
<1>14. CrossingNotLate
  BY <1>3, Zenon DEF CrossingNotLate
<1> QED BY <1>4, <1>5, <1>6, <1>7, <1>10, <1>11, <1>12, <1>13, <1>14, Zenon DEF WInv

LEMMA WInvCausality == WInv => Causality
<1> SUFFICES ASSUME WInv PROVE Causality
  OBVIOUS
<1>1. ASSUME NEW d \in Cores, pc[d] = "run", running[d][1] = "core"
      PROVE  cur[d] >= OrigStart(running[d][3])
  <2>1. pc[d] \in Serving
    BY <1>1, Zenon DEF Serving
  <2>2. PICK kind \in Kinds, c \in Cores, k \in 1 .. K : running[d] = Ev(kind, c, k)
    BY <2>1, InHand, EventForm, Zenon
  <2>3. kind = "core" /\ running[d][3] = k
    BY <1>1, <2>2 DEF Ev
  <2>4. Live(Ev("core", c, k)) /\ When(Ev("core", c, k)) = cur[d] /\ cur[d] \in Nat
    BY <2>1, <2>2, <2>3, InHand, Zenon
  <2>5. cur[d] >= OrigStart(k) + slack[c]
    BY <2>4, Zenon DEF WInv, Times
  <2>6. OrigStart(k) \in Nat /\ slack[c] \in Nat
    BY OrigType, Zenon DEF WInv, Types
  <2> QED BY <2>3, <2>4, <2>5, <2>6
<1>2. ASSUME NEW c \in Cores, NEW k \in 1 .. K
      PROVE  /\ q[Ev("mem", c, k)] # Out => q[Ev("mem", c, k)] >= doneCycle[Ev("req", c, k)] /\ called[Ev("req", c, k)]
             /\ k > 1 /\ q[Ev("core", c, k)] # Out =>
                   q[Ev("core", c, k)] >= doneCycle[Ev("rsp", c, k - 1)] /\ called[Ev("rsp", c, k - 1)]
  <2>1. /\ q[Ev("mem", c, k)] # Out => Live(Ev("mem", c, k)) /\ When(Ev("mem", c, k)) = q[Ev("mem", c, k)]
        /\ q[Ev("core", c, k)] # Out => Live(Ev("core", c, k)) /\ When(Ev("core", c, k)) = q[Ev("core", c, k)]
    BY Zenon DEF Live, When
  <2>2. /\ Live(Ev("mem", c, k)) => When(Ev("mem", c, k)) >= doneCycle[Ev("req", c, k)] /\ called[Ev("req", c, k)]
        /\ Live(Ev("core", c, k)) /\ k > 1 =>
              When(Ev("core", c, k)) >= doneCycle[Ev("rsp", c, k - 1)] /\ called[Ev("rsp", c, k - 1)]
    BY Zenon DEF WInv, Order, Times
  <2> QED BY <2>1, <2>2, Zenon
<1> QED BY <1>1, <1>2, Zenon DEF Causality

-----------------------------------------------------------------------------
INSTANCE FiniteSetTheorems

-----------------------------------------------------------------------------
(* The priority queue: what it hands out is the earliest event.            *)

\* The least-number principle: induction as the least counterexample.
LEMMA Least ==
    ASSUME NEW T, T \subseteq Nat, T # {}
    PROVE  \E n \in T : \A m \in T : n <= m
<1>1. IsWellFoundedOn(OpToRel(<, Nat), Nat)
  BY NatLessThanWellFounded, Zenon
<1>2. PICK n \in T : \A m \in T : ~ (<<m, n>> \in OpToRel(<, Nat))
  BY <1>1, WFMin, Zenon
<1>3. \A m \in T : ~ (m < n)
  BY <1>2, Zenon DEF OpToRel
<1> QED BY <1>3

LEMMA MinIs ==
    ASSUME NEW T, T \subseteq Nat, T # {}
    PROVE  Min(T) \in T /\ \A n \in T : Min(T) <= n
  BY Least, Zenon DEF Min

LEMMA IsMin ==
    ASSUME NEW T, T \subseteq Nat, NEW n \in T, \A m \in T : n <= m
    PROVE  Min(T) = n
<1>1. Min(T) \in T /\ Min(T) <= n /\ n \in Nat
  BY MinIs, Zenon
<1>2. Min(T) \in Nat /\ n <= Min(T)
  BY <1>1, Zenon
<1> HIDE DEF Min
<1> QED BY <1>1, <1>2

LEMMA HasMax ==
    ASSUME NEW S, S \subseteq Nat, IsFiniteSet(S), S # {}
    PROVE  \E n \in S : \A m \in S : n >= m
<1> DEFINE Bad(V) == V # {} /\ IsFiniteSet(V) /\ \A n \in V : \E m \in V : m > n
           T == {k \in Nat : \E V \in SUBSET Nat : Bad(V) /\ Cardinality(V) = k}
<1>1. T = {}
  <2> SUFFICES ASSUME T # {} PROVE FALSE
    OBVIOUS
  <2>1. PICK k \in T : \A j \in T : k <= j
    BY Least, Zenon
  <2>2. PICK V \in SUBSET Nat : Bad(V) /\ Cardinality(V) = k
    BY <2>1, Zenon
  <2>3. PICK n \in V : TRUE
    BY <2>2, Zenon
  <2> DEFINE W == V \ {n}
  <2>4. IsFiniteSet(W) /\ Cardinality(W) = k - 1 /\ Cardinality(W) \in Nat
    BY <2>2, <2>3, FS_RemoveElement, FS_CardinalityType, Zenon
  <2>5. ~ Bad(W)
    <3>1. k - 1 \notin T
      BY <2>1
    <3> QED BY <2>4, <3>1, Zenon
  <2>6. PICK m \in V : m > n
    BY <2>2, <2>3, Zenon
  <2>7. W # {} /\ m \in W
    BY <2>6
  <2>8. PICK w \in W : \A v \in W : ~ (v > w)
    BY <2>4, <2>5, <2>7, Zenon
  <2>9. w \in V /\ \A v \in V : ~ (v > w)
    BY <2>6, <2>7, <2>8
  <2> QED BY <2>2, <2>9, Zenon
<1>2. Cardinality(S) \in Nat
  BY FS_CardinalityType, Zenon
<1>3. ~ Bad(S)
  BY <1>1, <1>2, Zenon
<1> QED BY <1>3

LEMMA MaxIs ==
    ASSUME NEW S, S \subseteq Nat, IsFiniteSet(S), S # {}
    PROVE  Max(S) \in S /\ \A n \in S : n <= Max(S)
  BY HasMax, Zenon DEF Max

\* Two blocks of one turn of the ring do not share a slot.
LEMMA OneTurn ==
    ASSUME NEW p \in Nat \ {0}, NEW a \in Nat, NEW b \in Nat, a % p = b % p, a <= b, b < a + p
    PROVE  a = b
<1>1. /\ a = p * (a \div p) + (a % p) /\ b = p * (b \div p) + (b % p)
      /\ a \div p \in Int /\ b \div p \in Int /\ a % p \in Int
  BY DivMod
<1>2. PICK i \in Int, j \in Int : i = a \div p /\ j = b \div p
  BY <1>1, Zenon
<1>3. a = p * i + (a % p) /\ b = p * j + (a % p)
  BY <1>1, <1>2, Zenon
<1>4. p * j < p * (i + 1) /\ p * (i - 1) < p * j
  BY <1>1, <1>3
<1>5. j < i + 1 /\ i - 1 < j
  BY <1>4
<1> QED BY <1>3, <1>5

LEMMA BlockOrder ==
    ASSUME NEW m \in Nat, NEW n \in Nat
    PROVE  /\ m <= n => BlockOf(m) <= BlockOf(n)
           /\ BlockOf(m) < BlockOf(n) => m < n
<1>1. BlockOf(m) \in Nat /\ BlockOf(n) \in Nat
  BY Blocks, Zenon
<1>2. ASSUME NEW i \in Nat, NEW j \in Nat, BlockOf(i) < BlockOf(j) PROVE i < j
  <2>1. BlockOf(j) \in Nat /\ BlockOf(j) * BlockCycles \in Int /\ BlockOf(j) * BlockCycles <= j
    BY Blocks, Sizes
  <2>2. i < BlockOf(j) * BlockCycles
    BY <1>2, <2>1, BlockLess, Zenon
  <2> QED BY <2>1, <2>2
<1> QED BY <1>1, <1>2

LEMMA CoresFinite == IsFiniteSet(Cores) /\ Cardinality(Cores) = 2
<1>1. PICK c \in Cores, d \in Cores : c # d /\ Cores = {c, d}
  BY PairAssumption, Zenon
<1>2. IsFiniteSet({c}) /\ Cardinality({c}) = 1
  BY FS_Singleton, Zenon
<1>3. Cores = {c} \cup {d} /\ d \notin {c}
  BY <1>1, Zenon
<1> QED BY <1>2, <1>3, FS_AddElement

LEMMA EventsFinite == IsFiniteSet(Events)
<1> DEFINE T == (Kinds \X Cores) \X (1 .. K)
           f == [t \in T |-> Ev(t[1][1], t[1][2], t[2])]
<1>1. IsFiniteSet(Kinds)
  <2>1. IsFiniteSet({"core"})
    BY FS_Singleton, Zenon
  <2>2. IsFiniteSet(({"core"} \cup {"mem"}) \cup {"req"})
    BY <2>1, FS_AddElement, Zenon
  <2>3. IsFiniteSet((({"core"} \cup {"mem"}) \cup {"req"}) \cup {"rsp"})
    BY <2>2, FS_AddElement, Zenon
  <2>4. Kinds = (({"core"} \cup {"mem"}) \cup {"req"}) \cup {"rsp"}
    BY Zenon DEF Kinds
  <2> QED BY <2>3, <2>4, Zenon
<1>2. IsFiniteSet(T)
  <2>1. IsFiniteSet(1 .. K)
    BY WeaveAssumption, FS_Interval
  <2>2. IsFiniteSet(Kinds \X Cores)
    BY <1>1, CoresFinite, FS_Product, Zenon
  <2> QED BY <2>1, <2>2, FS_Product, Zenon
<1>3. f \in Surjection(T, Events)
  <2>1. f \in [T -> Events]
    BY EventForm, Zenon
  <2>2. ASSUME NEW e \in Events PROVE \E t \in T : f[t] = e
    <3>1. PICK kind \in Kinds, c \in Cores, k \in 1 .. K : e = Ev(kind, c, k)
      BY EventForm, Zenon
    <3>2. <<<<kind, c>>, k>> \in T /\ f[<<<<kind, c>>, k>>] = e
      BY <3>1, Zenon
    <3> QED BY <3>2, Zenon
  <2> QED BY <2>1, <2>2, Zenon DEF Surjection
<1> QED BY <1>2, <1>3, FS_Surjection, Zenon

\* The ring was last filled less than half a turn ago.
LEMMA FarBeyond ==
    ASSUME NEW b \in Nat, NEW n \in Nat,
           \A m \in 0 .. b : m % Half = 0 => n >= (m + PQ_BLOCKS) * BlockCycles
    PROVE  BlockOf(n) > b + Half
<1> DEFINE m == Half * (b \div Half)
<1>1. /\ Half \in Nat \ {0} /\ PQ_BLOCKS = 2 * Half /\ b \div Half \in Nat
      /\ b = m + (b % Half) /\ b % Half \in Nat /\ b % Half < Half
  BY Sizes, DivMod, Zenon
<1>2. m \in 0 .. b /\ m > b - Half
  BY <1>1
<1>3. m % Half = 0
  BY <1>1
<1>4. n >= (m + PQ_BLOCKS) * BlockCycles
  BY <1>2, <1>3, Zenon
<1> HIDE DEF m
<1>5. m + PQ_BLOCKS \in Nat
  BY <1>1, <1>2
<1>6. ~ (n < (m + PQ_BLOCKS) * BlockCycles)
  BY <1>4, <1>5, Sizes
<1>7. BlockOf(n) >= m + PQ_BLOCKS
  BY <1>5, <1>6, BlockLess, Blocks
<1> QED BY <1>1, <1>2, <1>7, Blocks

\* The events of a slot are those of one block, whatever the ring holds.
LEMMA SlotIsBlock ==
    ASSUME Types, NEW d \in Cores, NEW b \in Nat, NEW far,
           \A e \in Queued(d) \ far : b <= BlockOf(q[e]) /\ BlockOf(q[e]) < b + PQ_BLOCKS,
           NEW n \in Nat, b <= n, n < b + PQ_BLOCKS
    PROVE  InBlock(d, n, far) = {e \in Queued(d) \ far : BlockOf(q[e]) = n}
<1> SUFFICES ASSUME NEW e \in Queued(d) \ far, BlockOf(q[e]) % PQ_BLOCKS = n % PQ_BLOCKS
             PROVE  BlockOf(q[e]) = n
  BY Zenon DEF InBlock, BlockOf
<1>1. BlockOf(q[e]) \in Nat
  BY QueuedFacts, Blocks, Zenon
<1> QED BY <1>1, OneTurn, Sizes

\* The cycle computed from a block and the lowest offset in it.
LEMMA FirstOfBlock ==
    ASSUME Types, NEW d \in Cores, NEW S, S \subseteq Queued(d), NEW b \in Nat,
           NEW evs, evs = {e \in S : BlockOf(q[e]) = b}, evs # {},
           \A e \in S : BlockOf(q[e]) >= b
    PROVE  /\ \A e \in S : b * BlockCycles + offset(evs) <= q[e]
           /\ \A e \in evs : q[e] % BlockCycles = offset(evs) => q[e] = b * BlockCycles + offset(evs)
           /\ \E e \in evs : q[e] = b * BlockCycles + offset(evs)
           /\ offset(evs) \in Nat
<1> DEFINE T == {q[e] % BlockCycles : e \in evs}
<1>1. \A e \in S : /\ q[e] \in Nat /\ BlockOf(q[e]) \in Nat /\ q[e] % BlockCycles \in Nat
                   /\ q[e] % BlockCycles < BlockCycles
                   /\ q[e] = BlockOf(q[e]) * BlockCycles + (q[e] % BlockCycles)
  BY QueuedFacts, Blocks, Zenon
<1>2. T \subseteq Nat /\ T # {}
  BY <1>1, Zenon
<1>3. offset(evs) \in T /\ \A n \in T : offset(evs) <= n
  BY <1>2, MinIs, Zenon DEF offset
<1>4. PICK f \in evs : offset(evs) = q[f] % BlockCycles
  BY <1>3, Zenon
<1>5. offset(evs) \in Nat /\ offset(evs) < BlockCycles
  BY <1>1, <1>4, Zenon
<1>6. q[f] = b * BlockCycles + offset(evs)
  BY <1>1, <1>4, Zenon
<1>7. ASSUME NEW e \in S PROVE b * BlockCycles + offset(evs) <= q[e]
  <2>1. CASE BlockOf(q[e]) = b
    <3>1. e \in evs
      BY <2>1, Zenon
    <3>2. offset(evs) <= q[e] % BlockCycles
      BY <1>3, <3>1, Zenon
    <3> QED BY <1>1, <1>5, <2>1, <3>2, Sizes
  <2>2. CASE BlockOf(q[e]) # b
    <3>1. b < BlockOf(q[e]) /\ BlockOf(q[f]) = b
      BY <1>1, <2>2
    <3>2. q[f] < q[e]
      BY <1>1, <3>1, BlockOrder, Zenon
    <3> QED BY <1>1, <1>6, <3>2
  <2> QED BY <2>1, <2>2, Zenon
<1>8. ASSUME NEW e \in evs, q[e] % BlockCycles = offset(evs)
      PROVE  q[e] = b * BlockCycles + offset(evs)
  BY <1>1, <1>8, Zenon
<1> QED BY <1>5, <1>6, <1>7, <1>8, Zenon

IsFirst(d, n) == (\E e \in Queued(d) : q[e] = n) /\ (\A e \in Queued(d) : n <= q[e])
LEMMA FirstIsMin ==
    ASSUME Types, NEW d \in Cores, NEW n, IsFirst(d, n)
    PROVE  Min({q[e] : e \in Queued(d)}) = n
<1>1. {q[e] : e \in Queued(d)} \subseteq Nat /\ n \in {q[e] : e \in Queued(d)}
  BY QueuedFacts, Zenon DEF IsFirst
<1>2. \A m \in {q[e] : e \in Queued(d)} : n <= m
  BY Zenon DEF IsFirst
<1> QED BY <1>1, <1>2, IsMin, Zenon

LEMMA FirstCycleIsFirst ==
    ASSUME Types, Ring, NEW d \in Cores, Queued(d) # {}
    PROVE  IsFirst(d, firstCycle(d))
<1> DEFINE N == Queued(d) \ feMap
           F == feMap \cap Queued(d)
           b0 == curBlock[d]
           blocks == {(q[e] \div BlockCycles - b0) % PQ_BLOCKS : e \in N}
           i == Min(blocks)
           near == (b0 + i) * BlockCycles + offset(InBlock(d, b0 + i, feMap))
           far == Min({q[e] : e \in F})
<1>0. firstCycle(d) = CASE blocks = {} -> far
                        [] blocks # {} /\ i >= PQ_BLOCKS \div 2 /\ F # {} -> Min({near, far})
                        [] OTHER -> near
  BY Zenon DEF firstCycle
<1>1. b0 \in Nat /\ \A e \in Queued(d) : q[e] \in Nat /\ BlockOf(q[e]) \in Nat
  BY QueuedFacts, Blocks, Zenon DEF Types
<1>2. \A e \in N : b0 <= BlockOf(q[e]) /\ BlockOf(q[e]) < b0 + PQ_BLOCKS
  BY Zenon DEF Ring
<1>3. \A e \in F : BlockOf(q[e]) > b0 + Half
  <2> SUFFICES ASSUME NEW e \in F PROVE BlockOf(q[e]) > b0 + Half
    OBVIOUS
  <2>1. \A m \in 0 .. b0 : m % Half = 0 => q[e] >= (m + PQ_BLOCKS) * BlockCycles
    BY QueuedFacts, Zenon DEF Ring
  <2> QED BY <1>1, <2>1, FarBeyond, Zenon
<1>4. F # {} => /\ far \in Nat /\ (\E e \in F : q[e] = far) /\ \A e \in F : far <= q[e]
  <2> DEFINE V == {q[e] : e \in F}
  <2>1. V \subseteq Nat /\ (F # {} => V # {})
    BY <1>1, Zenon
  <2>2. F # {} => Min(V) \in V /\ \A n \in V : Min(V) <= n
    <3> HIDE DEF V
    <3> QED BY <2>1, MinIs, Zenon
  <2> QED BY <2>1, <2>2, Zenon
<1>5. \A e \in N : (q[e] \div BlockCycles - b0) % PQ_BLOCKS = BlockOf(q[e]) - b0
  BY <1>1, <1>2, Sizes DEF BlockOf
<1>6. N # {} => /\ near \in Nat /\ i \in Nat
                /\ (\E e \in N : q[e] = near /\ BlockOf(q[e]) = b0 + i) /\ \A e \in N : near <= q[e]
  <2> SUFFICES ASSUME N # {}
               PROVE  /\ near \in Nat /\ i \in Nat
                      /\ (\E e \in N : q[e] = near /\ BlockOf(q[e]) = b0 + i) /\ \A e \in N : near <= q[e]
    BY Zenon
  <2>1. blocks \subseteq Nat /\ blocks # {}
    BY <1>1, <1>2, <1>5
  <2>2. i \in blocks /\ \A n \in blocks : i <= n
    BY <2>1, MinIs, Zenon
  <2>3. PICK e \in N : i = BlockOf(q[e]) - b0
    BY <1>5, <2>2, Zenon
  <2>4. \A f \in N : i <= BlockOf(q[f]) - b0
    BY <1>5, <2>2, Zenon
  <2> HIDE DEF i
  <2>5. b0 + i \in Nat /\ b0 <= b0 + i /\ b0 + i < b0 + PQ_BLOCKS /\ BlockOf(q[e]) = b0 + i /\ i \in Nat
    BY <1>1, <1>2, <2>3, Sizes
  <2> DEFINE evs == {f \in N : BlockOf(q[f]) = b0 + i}
  <2>6. InBlock(d, b0 + i, feMap) = evs
    BY <1>1, <1>2, <2>5, SlotIsBlock
  <2>7. evs # {} /\ N \subseteq Queued(d) /\ \A f \in N : BlockOf(q[f]) >= b0 + i
    BY <1>1, <2>4, <2>5
  <2>8. /\ \A f \in N : (b0 + i) * BlockCycles + offset(evs) <= q[f]
        /\ \E f \in evs : q[f] = (b0 + i) * BlockCycles + offset(evs)
        /\ offset(evs) \in Nat
    BY <2>5, <2>7, FirstOfBlock, Zenon
  <2> QED BY <1>1, <2>5, <2>6, <2>8, Zenon
<1>7. blocks = {} <=> N = {}
  OBVIOUS
<1> HIDE DEF near, far, i, blocks
<1>8. CASE N = {}
  <2>1. firstCycle(d) = far /\ F = Queued(d)
    BY <1>0, <1>7, <1>8, Zenon
  <2> QED BY <1>4, <2>1, Zenon DEF IsFirst
<1>9. CASE N # {} /\ F = {}
  <2>1. firstCycle(d) = near /\ N = Queued(d)
    BY <1>0, <1>7, <1>9, Zenon
  <2> QED BY <1>6, <1>9, <2>1, Zenon DEF IsFirst
<1>10. CASE N # {} /\ F # {} /\ i < Half
  <2>1. firstCycle(d) = near
    <3>1. ~ (i >= PQ_BLOCKS \div 2)
      BY <1>6, <1>10, Sizes DEF Half
    <3> QED BY <1>0, <1>7, <1>10, <3>1, Zenon
  <2>2. PICK e \in N : q[e] = near /\ BlockOf(q[e]) = b0 + i
    BY <1>6, <1>10, Zenon
  <2>3. ASSUME NEW f \in F PROVE near <= q[f]
    <3>1. BlockOf(q[e]) < BlockOf(q[f])
      BY <1>1, <1>3, <1>6, <1>10, <2>2, Sizes
    <3>2. q[e] < q[f]
      BY <1>1, <3>1, BlockOrder, Zenon
    <3> QED BY <1>1, <2>2, <3>2
  <2> QED BY <1>6, <1>10, <2>1, <2>2, <2>3, Zenon DEF IsFirst
<1>11. CASE N # {} /\ F # {} /\ i >= Half
  <2>1. firstCycle(d) = Min({near, far})
    <3>1. i >= PQ_BLOCKS \div 2
      BY <1>11, Zenon DEF Half
    <3> QED BY <1>0, <1>7, <1>11, <3>1, Zenon
  <2>2. {near, far} \subseteq Nat
    BY <1>4, <1>6, <1>11, Zenon
  <2>3. Min({near, far}) \in {near, far} /\ Min({near, far}) <= near /\ Min({near, far}) <= far
    BY <2>2, MinIs, Zenon
  <2>4. PICK n \in Nat : n = Min({near, far}) /\ n \in {near, far} /\ n <= near /\ n <= far
    BY <2>2, <2>3, Zenon
  <2>5. \A e \in Queued(d) : n <= q[e]
    BY <1>1, <1>4, <1>6, <1>11, <2>2, <2>4
  <2>6. \E e \in Queued(d) : q[e] = n
    BY <1>4, <1>6, <1>11, <2>4, Zenon
  <2> QED BY <2>1, <2>4, <2>5, <2>6, Zenon DEF IsFirst
<1>12. N # {} => i \in Nat
  BY <1>6, Zenon
<1> QED BY <1>8, <1>9, <1>10, <1>11, <1>12, Sizes

\* While the queue goes on to a block before which nothing is queued, the ring
\* keeps holding one turn and the far elements stay beyond it.
LEMMA RingGoesOn ==
    ASSUME Types, Ring, NEW d \in Cores, NEW b \in Nat, curBlock[d] <= b,
           \A e \in Queued(d) : BlockOf(q[e]) >= b
    PROVE  /\ \A e \in Queued(d) \ farAt(d, b) : b <= BlockOf(q[e]) /\ BlockOf(q[e]) < b + PQ_BLOCKS
           /\ \A e \in farAt(d, b) \cap Queued(d) :
                 \A m \in 0 .. b : m % Half = 0 => q[e] >= (m + PQ_BLOCKS) * BlockCycles
           /\ InBlock(d, b, farAt(d, b)) = {e \in Queued(d) : BlockOf(q[e]) = b}
<1> DEFINE far == farAt(d, b)
<1>1. curBlock[d] \in Nat /\ \A e \in Queued(d) : q[e] \in Nat /\ BlockOf(q[e]) \in Nat /\ DomainOf(e) = d
  BY QueuedFacts, Blocks, Zenon DEF Types
<1>2. ASSUME NEW e \in Queued(d), e \notin far
      PROVE  b <= BlockOf(q[e]) /\ BlockOf(q[e]) < b + PQ_BLOCKS
  <2>1. CASE e \notin feMap
    <3>1. BlockOf(q[e]) < curBlock[d] + PQ_BLOCKS
      BY <2>1, Zenon DEF Ring
    <3> QED BY <1>1, <3>1, Sizes
  <2>2. CASE e \in feMap
    <3>1. PICK m \in curBlock[d] + 1 .. b : m % Half = 0 /\ ~ (q[e] >= (m + PQ_BLOCKS) * BlockCycles)
      BY <1>1, <1>2, <2>2, Zenon DEF farAt, Half
    <3>2. m + PQ_BLOCKS \in Nat /\ m \in Nat
      BY <1>1, <3>1, Sizes
    <3>3. q[e] < (m + PQ_BLOCKS) * BlockCycles
      BY <1>1, <3>1, <3>2, Sizes
    <3>4. BlockOf(q[e]) < m + PQ_BLOCKS
      BY <1>1, <3>2, <3>3, BlockLess, Zenon
    <3> QED BY <1>1, <3>1, <3>2, <3>4, Sizes
  <2> QED BY <2>1, <2>2, Zenon
<1>3. ASSUME NEW e \in far \cap Queued(d), NEW m \in 0 .. b, m % Half = 0
      PROVE  q[e] >= (m + PQ_BLOCKS) * BlockCycles
  <2>1. e \in feMap /\ \A j \in curBlock[d] + 1 .. b : j % Half = 0 => q[e] >= (j + PQ_BLOCKS) * BlockCycles
    BY <1>1, <1>3, Zenon DEF farAt, Half
  <2>2. \A j \in 0 .. curBlock[d] : j % Half = 0 => q[e] >= (j + PQ_BLOCKS) * BlockCycles
    BY <1>1, <2>1, Zenon DEF Ring
  <2>3. m \in 0 .. curBlock[d] \/ m \in curBlock[d] + 1 .. b
    BY <1>1
  <2> QED BY <1>3, <2>1, <2>2, <2>3, Zenon
<1>4. ASSUME NEW e \in Queued(d), BlockOf(q[e]) = b PROVE e \notin far
  <2> SUFFICES ASSUME e \in far PROVE FALSE
    OBVIOUS
  <2>1. \A m \in 0 .. b : m % Half = 0 => q[e] >= (m + PQ_BLOCKS) * BlockCycles
    BY <1>3, Zenon
  <2>2. BlockOf(q[e]) > b + Half
    BY <1>1, <2>1, FarBeyond, Zenon
  <2> QED BY <1>4, <2>2, Sizes
<1> HIDE DEF far
<1>5. b <= b /\ b < b + PQ_BLOCKS
  BY Sizes
<1>6. InBlock(d, b, far) = {e \in Queued(d) \ far : BlockOf(q[e]) = b}
  BY <1>2, <1>5, SlotIsBlock
<1>7. InBlock(d, b, far) = {e \in Queued(d) : BlockOf(q[e]) = b}
  BY <1>4, <1>6, Zenon
<1> QED BY <1>2, <1>3, <1>7, Zenon DEF far

LEMMA PopulatedIsFirst ==
    ASSUME Types, Ring, NEW d \in Cores, NEW n, IsFirst(d, n)
    PROVE  populated(d) = BlockOf(n) /\ curBlock[d] <= BlockOf(n) /\ n \in Nat
<1>0. PICK f \in Queued(d) : q[f] = n
  BY Zenon DEF IsFirst
<1>1. /\ curBlock[d] \in Nat /\ n \in Nat /\ BlockOf(n) \in Nat
      /\ \A e \in Queued(d) : q[e] \in Nat /\ BlockOf(q[e]) \in Nat /\ BlockOf(q[e]) >= BlockOf(n)
  BY <1>0, QueuedFacts, Blocks, BlockOrder, Zenon DEF Types, IsFirst
<1>2. curBlock[d] <= BlockOf(n)
  <2>1. CASE f \notin feMap
    BY <1>0, <2>1, Zenon DEF Ring
  <2>2. CASE f \in feMap
    <3>1. \A m \in 0 .. curBlock[d] : m % Half = 0 => q[f] >= (m + PQ_BLOCKS) * BlockCycles
      BY <2>2, QueuedFacts, Zenon DEF Ring
    <3>2. BlockOf(q[f]) > curBlock[d] + Half
      BY <1>0, <1>1, <3>1, FarBeyond, Zenon
    <3> QED BY <1>0, <1>1, <3>2, Sizes
  <2> QED BY <2>1, <2>2, Zenon
<1> DEFINE B == {q[e] \div BlockCycles : e \in Queued(d)}
           T == {b \in curBlock[d] .. Max(B) : InBlock(d, b, farAt(d, b)) # {}}
<1>3. B \subseteq Nat /\ B # {} /\ BlockOf(n) \in B
  BY <1>0, <1>1, Zenon DEF BlockOf
<1>4. IsFiniteSet(B)
  <2>1. IsFiniteSet(Queued(d))
    <3>1. Queued(d) \subseteq Events
      BY QueuedFacts, Zenon
    <3> QED BY <3>1, EventsFinite, FS_Subset, Zenon
  <2> DEFINE f1 == [e \in Queued(d) |-> q[e] \div BlockCycles]
  <2>2. f1 \in Surjection(Queued(d), B)
    BY Zenon DEF Surjection
  <2> QED BY <2>1, <2>2, FS_Surjection, Zenon
<1>5. Max(B) \in Nat /\ BlockOf(n) <= Max(B)
  <2> HIDE DEF B
  <2> QED BY <1>3, <1>4, MaxIs, Zenon
<1>6. BlockOf(n) \in T
  <2>1. InBlock(d, BlockOf(n), farAt(d, BlockOf(n))) = {e \in Queued(d) : BlockOf(q[e]) = BlockOf(n)}
    BY <1>1, <1>2, RingGoesOn, Zenon
  <2>2. f \in InBlock(d, BlockOf(n), farAt(d, BlockOf(n)))
    BY <1>0, <2>1, Zenon
  <2> HIDE DEF B
  <2> QED BY <1>1, <1>2, <1>5, <2>2
<1>7. ASSUME NEW b \in T PROVE BlockOf(n) <= b
  <2> SUFFICES ASSUME b < BlockOf(n) PROVE FALSE
    BY <1>1, <1>5
  <2>1. b \in Nat /\ curBlock[d] <= b /\ InBlock(d, b, farAt(d, b)) # {}
    BY <1>1, <1>5
  <2>2. \A e \in Queued(d) : BlockOf(q[e]) >= b
    BY <1>1, <2>1
  <2>3. InBlock(d, b, farAt(d, b)) = {e \in Queued(d) : BlockOf(q[e]) = b}
    BY <2>1, <2>2, RingGoesOn, Zenon
  <2> QED BY <1>1, <2>1, <2>3
<1>8. T \subseteq Nat
  BY <1>1, <1>5
<1>9. Min(T) = BlockOf(n)
  <2> HIDE DEF T
  <2> QED BY <1>6, <1>7, <1>8, IsMin, Zenon
<1> QED BY <1>1, <1>2, <1>9, Zenon DEF populated

LEMMA DeqCycleIsFirst ==
    ASSUME Types, Ring, NEW d \in Cores, Queued(d) # {}
    PROVE  /\ deqCycle(d) = firstCycle(d) /\ populated(d) = BlockOf(firstCycle(d))
           /\ firstCycle(d) \in Nat /\ curBlock[d] <= BlockOf(firstCycle(d))
           /\ LET b == populated(d)
                  evs == InBlock(d, b, farAt(d, b))
              IN  \A e \in evs : /\ e \in Queued(d)
                                 /\ q[e] % BlockCycles = offset(evs) => q[e] = firstCycle(d)
<1> DEFINE n == firstCycle(d)
           evs == InBlock(d, BlockOf(n), farAt(d, BlockOf(n)))
<1>1. IsFirst(d, n)
  BY FirstCycleIsFirst, Zenon
<1> HIDE DEF n
<1>2. populated(d) = BlockOf(n) /\ curBlock[d] <= BlockOf(n) /\ n \in Nat /\ BlockOf(n) \in Nat
  BY <1>1, PopulatedIsFirst, Blocks, Zenon
<1>3. \A e \in Queued(d) : q[e] \in Nat /\ BlockOf(q[e]) \in Nat /\ BlockOf(q[e]) >= BlockOf(n)
  BY <1>1, <1>2, QueuedFacts, Blocks, BlockOrder, Zenon DEF IsFirst
<1>4. evs = {e \in Queued(d) : BlockOf(q[e]) = BlockOf(n)}
  BY <1>2, <1>3, RingGoesOn, Zenon
<1> HIDE DEF evs
<1>5. PICK f \in Queued(d) : q[f] = n
  BY <1>1, Zenon DEF IsFirst
<1>6. evs # {} /\ \A e \in Queued(d) : BlockOf(q[e]) >= BlockOf(n)
  BY <1>3, <1>4, <1>5, Zenon
<1>7. /\ \A e \in Queued(d) : BlockOf(n) * BlockCycles + offset(evs) <= q[e]
      /\ \A e \in evs : q[e] % BlockCycles = offset(evs) => q[e] = BlockOf(n) * BlockCycles + offset(evs)
      /\ \E e \in evs : q[e] = BlockOf(n) * BlockCycles + offset(evs)
      /\ offset(evs) \in Nat
  BY <1>2, <1>4, <1>6, FirstOfBlock, Zenon
<1>8. BlockOf(n) * BlockCycles + offset(evs) = n
  <2>1. PICK e \in evs : q[e] = BlockOf(n) * BlockCycles + offset(evs)
    BY <1>7, Zenon
  <2>2. n <= q[e] /\ q[e] <= n /\ q[e] \in Nat
    BY <1>1, <1>3, <1>4, <1>5, <1>7, <2>1, Zenon DEF IsFirst
  <2> QED BY <1>2, <2>1, <2>2
<1>9. deqCycle(d) = n
  BY <1>2, <1>8, Zenon DEF deqCycle, evs
<1>10. \A e \in evs : e \in Queued(d) /\ (q[e] % BlockCycles = offset(evs) => q[e] = n)
  BY <1>4, <1>7, <1>8, Zenon
<1> QED BY <1>2, <1>9, <1>10, Zenon DEF n, evs

LEMMA QueueIsExact == Types /\ Ring /\ Clocks => QueueExact
<1> SUFFICES ASSUME Types, Ring, Clocks, NEW d \in Cores, Queued(d) # {}
             PROVE  /\ firstCycle(d) = Min({q[e] : e \in Queued(d)})
                    /\ firstCycle(d) = deqCycle(d)
                    /\ firstCycle(d) >= cur[d]
  BY Zenon DEF QueueExact
<1>1. IsFirst(d, firstCycle(d))
  BY FirstCycleIsFirst, Zenon
<1>2. firstCycle(d) >= cur[d]
  BY <1>1, QueuedFacts, Zenon DEF IsFirst, Clocks, Types
<1> QED BY <1>1, <1>2, FirstIsMin, DeqCycleIsFirst, Zenon

\* What a dequeue does to the queue.
LEMMA DequeueFirst ==
    ASSUME Types, Ring, NEW d \in Cores, Queued(d) # {}, NEW e, pq_dequeue(d, e)
    PROVE  /\ e \in Queued(d) /\ q[e] = deqCycle(d) /\ IsFirst(d, q[e]) /\ q[e] = firstCycle(d)
           /\ q' = [q EXCEPT ![e] = Out]
           /\ curBlock' = [curBlock EXCEPT ![d] = BlockOf(q[e])]
           /\ Ring'
<1>1. /\ e \in Queued(d) /\ q[e] = deqCycle(d) /\ IsFirst(d, q[e]) /\ q[e] = firstCycle(d)
      /\ q' = [q EXCEPT ![e] = Out]
      /\ curBlock' = [curBlock EXCEPT ![d] = BlockOf(q[e])]
      /\ feMap' = farAt(d, BlockOf(q[e]))
  BY DeqCycleIsFirst, FirstCycleIsFirst, Zenon DEF pq_dequeue
<1> DEFINE b == BlockOf(q[e])
<1>2. b \in Nat /\ curBlock[d] <= b /\ \A f \in Queued(d) : BlockOf(q[f]) >= b
  BY <1>1, DeqCycleIsFirst, QueuedFacts, Blocks, BlockOrder, Zenon DEF IsFirst
<1>3. /\ \A f \in Queued(d) \ farAt(d, b) : b <= BlockOf(q[f]) /\ BlockOf(q[f]) < b + PQ_BLOCKS
      /\ \A f \in farAt(d, b) \cap Queued(d) :
            \A m \in 0 .. b : m % Half = 0 => q[f] >= (m + PQ_BLOCKS) * BlockCycles
      /\ InBlock(d, b, farAt(d, b)) = {f \in Queued(d) : BlockOf(q[f]) = b}
  BY <1>2, RingGoesOn, Zenon
<1>4. e \notin feMap'
  <2>1. e \in InBlock(d, b, farAt(d, b))
    BY <1>1, <1>3, Zenon
  <2> QED BY <1>1, <2>1, Zenon DEF InBlock
<1>5. /\ \A f \in Events : f # e => q'[f] = q[f]
      /\ q'[e] = Out /\ e \in Events /\ DomainOf(e) = d
      /\ \A c \in Cores : curBlock'[c] = IF c = d THEN b ELSE curBlock[c]
  BY <1>1, QueuedFacts, Zenon DEF Types
<1> HIDE DEF b
<1>6. ASSUME NEW c \in Cores, NEW f \in Queued(c)' \ feMap'
      PROVE  curBlock'[c] <= BlockOf(q'[f]) /\ BlockOf(q'[f]) < curBlock'[c] + PQ_BLOCKS
  <2>1. f \in Queued(c) /\ f # e /\ q'[f] = q[f]
    BY <1>5, Zenon DEF Queued, EventsOf
  <2>2. CASE c = d
    BY <1>1, <1>3, <1>5, <2>1, <2>2, Zenon DEF b
  <2>3. CASE c # d
    <3>1. f \notin feMap
      BY <1>1, <1>6, <2>1, <2>3, QueuedFacts, Zenon DEF farAt
    <3> QED BY <1>5, <2>1, <2>3, <3>1, Zenon DEF Ring
  <2> QED BY <2>2, <2>3, Zenon
<1>7. feMap' \subseteq feMap /\ feMap \subseteq Events
  BY <1>1, Zenon DEF farAt, Ring
<1>8. ASSUME NEW f \in feMap'
      PROVE  /\ q'[f] # Out
             /\ \A m \in 0 .. curBlock'[DomainOf(f)] : m % Half = 0 => q'[f] >= (m + PQ_BLOCKS) * BlockCycles
  <2>1. f \in Events /\ f # e /\ q'[f] = q[f] /\ q[f] # Out /\ f \in feMap /\ DomainOf(f) \in Cores
    BY <1>4, <1>5, <1>7, EventHome, Zenon DEF Ring
  <2>2. CASE DomainOf(f) = d
    <3>1. f \in farAt(d, b) \cap Queued(d)
      BY <1>1, <2>1, <2>2, QueuedFacts, Zenon DEF b
    <3> QED BY <1>3, <1>5, <2>1, <2>2, <3>1, Zenon
  <2>3. CASE DomainOf(f) # d
    BY <1>5, <2>1, <2>3, Zenon DEF Ring
  <2> QED BY <2>2, <2>3, Zenon
<1>9. Ring'
  BY <1>6, <1>7, <1>8, Zenon DEF Ring
<1> QED BY <1>1, <1>9, Zenon

LEMMA DequeueWInv ==
    ASSUME WInv, NEW d \in Cores, pc[d] = "loop", Queued(d) # {}, firstCycle(d) <= limit,
           NEW e \in Queued(d), pq_dequeue(d, e), running' = [running EXCEPT ![d] = e],
           cur' = [cur EXCEPT ![d] = deqCycle(d)], Go(d, IF e \in Crossings THEN "check" ELSE "run"),
           UNCHANGED <<limit, next, called, doneCycle, first, slack>>
    PROVE  WInv'
<1>1. /\ q[e] = deqCycle(d) /\ IsFirst(d, q[e]) /\ q[e] = firstCycle(d)
      /\ q' = [q EXCEPT ![e] = Out]
      /\ curBlock' = [curBlock EXCEPT ![d] = BlockOf(q[e])]
      /\ Ring'
  BY DequeueFirst, Zenon DEF WInv
<1>2. /\ e \in Events /\ DomainOf(e) = d /\ q[e] \in Nat /\ BlockOf(q[e]) \in Nat
      /\ BlockOf(q[e]) * BlockCycles <= q[e] /\ q[e] <= limit
  BY <1>1, QueuedFacts, Blocks, Zenon DEF WInv
<1>3. /\ q'[e] = Out /\ \A f \in Events : f # e => q'[f] = q[f]
      /\ cur'[d] = q[e] /\ \A c \in Cores : c # d => cur'[c] = cur[c]
      /\ curBlock'[d] = BlockOf(q[e]) /\ \A c \in Cores : c # d => curBlock'[c] = curBlock[c]
      /\ running'[d] = e /\ \A c \in Cores : c # d => running'[c] = running[c]
      /\ pc'[d] = (IF e \in Crossings THEN "check" ELSE "run") /\ \A c \in Cores : c # d => pc'[c] = pc[c]
  BY <1>1, <1>2, Zenon DEF WInv, Types, Go
<1>4. Types'
  <2>1. q' \in [Events -> Nat \cup {Out}] /\ cur' \in [Cores -> Nat] /\ curBlock' \in [Cores -> Nat]
    BY <1>1, <1>2, Zenon DEF WInv, Types
  <2>2. pc' \in [Cores -> Serving \cup {"loop", "advance", "finished"}] /\ DOMAIN running' = Cores
    BY Zenon DEF WInv, Types, Go, Serving
  <2> QED BY <2>1, <2>2, Zenon DEF WInv, Types
<1>5. Served'
  <2>1. pc'[d] \notin Read /\ pc'[d] # "mark" /\ (pc'[d] \in Own <=> e \notin Crossings) /\ e \in EventsOf[d]
    BY <1>2, <1>3, EventHome, Zenon DEF Read, Own
  <2>2. ASSUME NEW c \in Cores, c # d, pc[c] \in Serving
        PROVE  /\ running[c] \in EventsOf[c] /\ q'[running[c]] = Out
               /\ pc[c] \in Own <=> running[c] \notin Crossings
               /\ pc[c] = "mark" => running[c][1] = "core"
               /\ pc[c] \in Read => next[c] >= cur[c]
    <3>1. /\ running[c] \in EventsOf[c] /\ q[running[c]] = Out
          /\ pc[c] \in Own <=> running[c] \notin Crossings
          /\ pc[c] = "mark" => running[c][1] = "core"
          /\ pc[c] \in Read => next[c] >= cur[c]
      BY <2>2, Zenon DEF WInv, Served
    <3>2. running[c] \in Events
      BY <3>1, Zenon DEF EventsOf
    <3> QED BY <1>3, <3>1, <3>2, Zenon
  <2>3. ASSUME NEW c \in Cores, pc'[c] \in Serving
        PROVE  /\ running'[c] \in EventsOf[c] /\ q'[running'[c]] = Out
               /\ pc'[c] \in Own <=> running'[c] \notin Crossings
               /\ pc'[c] = "mark" => running'[c][1] = "core"
               /\ pc'[c] \in Read => next[c] >= cur'[c]
    <3>1. CASE c = d
      BY <1>3, <2>1, <3>1, Zenon
    <3>2. CASE c # d
      BY <1>3, <2>2, <2>3, <3>2, Zenon
    <3> QED BY <3>1, <3>2, Zenon
  <2> QED BY <2>3, Zenon DEF Served
<1>6. \A c \in Cores : \A f \in Queued(c)' : f \in Queued(c) /\ f # e /\ q'[f] = q[f]
  BY <1>3, Zenon DEF Queued, EventsOf
<1>7. Clocks'
  <2>1. \A f \in Queued(d)' : cur'[d] <= q'[f]
    BY <1>1, <1>3, <1>6, Zenon DEF IsFirst
  <2>2. ASSUME NEW c \in Cores, c # d
        PROVE  /\ curBlock'[c] * BlockCycles <= cur'[c]
               /\ curBlock'[c] * BlockCycles <= limit
               /\ \A f \in Queued(c)' : cur'[c] <= q'[f]
    BY <1>3, <1>6, <2>2, Zenon DEF WInv, Clocks
  <2>3. curBlock'[d] * BlockCycles <= cur'[d] /\ curBlock'[d] * BlockCycles <= limit
    <3>1. limit \in Nat
      BY Zenon DEF WInv, Types
    <3>2. BlockOf(q[e]) * BlockCycles <= limit
      BY <1>2, <3>1, Sizes
    <3> QED BY <1>2, <1>3, <3>2, Zenon
  <2> QED BY <2>1, <2>2, <2>3, Zenon DEF Clocks
<1>8. ASSUME NEW c \in Cores, NEW n \in Int, Floor(c, n) PROVE Floor(c, n)'
  BY <1>3, <1>6, <1>8, Zenon DEF Floor
<1>9. ASSUME NEW f \in Events, Live(f)' PROVE Quietly(f)
  <2>1. DomainOf(f) \in Cores /\ When(f) \in Nat
    BY EventHome, WhenType, Zenon DEF WInv
  <2>2. CASE f = e
    <3>1. Live(f) /\ When(f)' = When(f)
      BY <1>2, <1>3, <2>2, OutIs, Zenon DEF Live, When
    <3>2. (pc[DomainOf(f)])' \notin Read
      BY <1>2, <1>3, <2>2, Zenon DEF Read
    <3>3. q'[f] # Out => q'[f] = q[f]
      BY <1>3, <2>2, Zenon
    <3> QED BY <3>1, <3>2, <3>3, QuietSame, Zenon DEF WInv
  <2>3. CASE f # e
    <3>1. DomainOf(f) = d => q[f] # Out
      BY <1>3, <1>9, <2>3, Zenon DEF Live, Runs
    <3>2. Live(f) /\ When(f)' = When(f)
      BY <1>3, <1>9, <2>1, <2>3, <3>1, Zenon DEF Live, Runs, When
    <3>3. Runs(f)' => DomainOf(f) # d
      BY <1>3, <2>3, Zenon DEF Runs
    <3> QED BY <1>3, <2>1, <2>3, <3>2, <3>3, QuietSame, Zenon DEF WInv, Runs
  <2> QED BY <2>2, <2>3, Zenon
<1> QED BY <1>1, <1>4, <1>5, <1>7, <1>8, <1>9, QuietWInv, Zenon

LEMMA AdvanceWInv == ASSUME WInv, NEW d \in Cores, advance(d) PROVE WInv'
<1>1. /\ pc[d] = "advance" /\ pc'[d] = "loop" /\ \A c \in Cores : c # d => pc'[c] = pc[c] /\ cur'[c] = cur[c]
      /\ cur'[d] = IF Queued(d) = {} THEN limit ELSE firstCycle(d)
      /\ pc' \in [Cores -> Serving \cup {"loop", "advance", "finished"}]
      /\ limit \in Nat /\ limit' = limit
  BY Zenon DEF advance, WInv, Types, Go
<1>2. cur'[d] \in Nat /\ curBlock[d] * BlockCycles <= cur'[d] /\ \A e \in Queued(d) : cur'[d] <= q[e]
  <2>1. CASE Queued(d) = {}
    BY <1>1, <2>1, Zenon DEF WInv, Clocks
  <2>2. CASE Queued(d) # {}
    <3>1. firstCycle(d) \in Nat /\ IsFirst(d, firstCycle(d)) /\ cur[d] <= firstCycle(d)
      BY <2>2, FirstCycleIsFirst, DeqCycleIsFirst, QueuedFacts, Zenon DEF WInv, Clocks, IsFirst, Types
    <3>2. curBlock[d] * BlockCycles <= cur[d] /\ curBlock[d] * BlockCycles \in Int /\ cur[d] \in Int
      BY Sizes DEF WInv, Clocks, Types
    <3> QED BY <1>1, <2>2, <3>1, <3>2 DEF IsFirst
  <2> QED BY <2>1, <2>2, Zenon
<1>3. cur' \in [Cores -> Nat]
  <2>1. cur \in [Cores -> Nat] /\ \E n : cur' = [cur EXCEPT ![d] = n]
    BY Zenon DEF WInv, Types, advance
  <2> QED BY <1>2, <2>1, Zenon
<1>4. \A c \in Cores : (pc'[c] \in Serving \/ pc[c] \in Serving) => pc'[c] = pc[c] /\ cur'[c] = cur[c]
  BY <1>1, Zenon DEF Serving
<1>5. \A c \in Cores : cur'[c] # cur[c] =>
              curBlock[c] * BlockCycles <= cur'[c] /\ \A e \in Queued(c) : cur'[c] <= q[e]
  BY <1>1, <1>2, Zenon
<1>6. limit' >= limit
  BY <1>1
<1>7. UNCHANGED <<pqs, running, next, called, doneCycle, first, slack>>
  BY Zenon DEF advance
<1> QED BY <1>1, <1>3, <1>4, <1>5, <1>6, <1>7, IdleWInv, Zenon

LEMMA FinishWInv ==
    ASSUME WInv, NEW d \in Cores, pc[d] = "loop", Queued(d) # {} => firstCycle(d) >= limit,
           cur' = [cur EXCEPT ![d] = limit], Go(d, "finished"),
           UNCHANGED <<pqs, limit, running, next, called, doneCycle, first, slack>>
    PROVE  WInv'
<1>1. /\ pc'[d] = "finished" /\ \A c \in Cores : c # d => pc'[c] = pc[c] /\ cur'[c] = cur[c]
      /\ cur'[d] = limit /\ limit \in Nat
      /\ pc' \in [Cores -> Serving \cup {"loop", "advance", "finished"}]
      /\ cur' \in [Cores -> Nat]
  BY Zenon DEF WInv, Types, Go
<1>2. curBlock[d] * BlockCycles <= limit
  BY Zenon DEF WInv, Clocks
<1>3. ASSUME NEW e \in Queued(d) PROVE limit <= q[e]
  <2>1. firstCycle(d) \in Nat /\ firstCycle(d) <= q[e] /\ q[e] \in Nat
    BY FirstCycleIsFirst, DeqCycleIsFirst, QueuedFacts, Zenon DEF WInv, IsFirst
  <2> QED BY <1>1, <2>1
<1>4. \A c \in Cores : (pc'[c] \in Serving \/ pc[c] \in Serving) => pc'[c] = pc[c] /\ cur'[c] = cur[c]
  BY <1>1, Zenon DEF Serving
<1>5. \A c \in Cores : cur'[c] # cur[c] =>
              curBlock[c] * BlockCycles <= cur'[c] /\ \A e \in Queued(c) : cur'[c] <= q[e]
  BY <1>1, <1>2, <1>3, Zenon
<1>6. limit' = limit /\ limit' >= limit
  BY <1>1
<1> QED BY <1>1, <1>4, <1>5, <1>6, IdleWInv, Zenon

\* Every step of a thread that simulates domain d.
Steps(d) ==
    \/ dequeue(d) \/ shared_dequeue(d) \/ advance(d) \/ finish(d) \/ shared_finish(d)
    \/ reportEventSimulated(d) \/ simulate_core(d) \/ simulate_mem_contended(d) \/ simulate_mem(d)
    \/ crossing_check(d) \/ crossing_read(d) \/ crossing_getSlack(d) \/ crossing_recheck(d)

LEMMA StepsWInv == ASSUME WInv, NEW d \in Cores, Steps(d) PROVE WInv'
<1>1. CASE dequeue(d) \/ shared_dequeue(d)
  <2>1. PICK e \in Queued(d) :
          /\ pc[d] = "loop" /\ Queued(d) # {} /\ firstCycle(d) <= limit
          /\ pq_dequeue(d, e) /\ running' = [running EXCEPT ![d] = e]
          /\ cur' = [cur EXCEPT ![d] = deqCycle(d)]
          /\ Go(d, IF e \in Crossings THEN "check" ELSE "run")
          /\ UNCHANGED <<limit, next, called, doneCycle, first, slack>>
    <3>1. CASE dequeue(d)
      <4>1. Queued(d) # {} /\ firstCycle(d) < limit
        BY <3>1, Zenon DEF dequeue
      <4>2. firstCycle(d) \in Nat /\ limit \in Nat
        BY <4>1, DeqCycleIsFirst, Zenon DEF WInv, Types
      <4>3. firstCycle(d) <= limit
        BY <4>1, <4>2
      <4> QED BY <3>1, <4>3, Zenon DEF dequeue
    <3>2. CASE shared_dequeue(d)
      BY <3>2, Zenon DEF shared_dequeue
    <3> QED BY <1>1, <3>1, <3>2, Zenon
  <2> QED BY <2>1, DequeueWInv, Zenon
<1>2. CASE finish(d) \/ shared_finish(d)
  <2>1. /\ pc[d] = "loop" /\ (Queued(d) # {} => firstCycle(d) >= limit)
        /\ cur' = [cur EXCEPT ![d] = limit] /\ Go(d, "finished")
        /\ UNCHANGED <<pqs, limit, running, next, called, doneCycle, first, slack>>
    <3>1. CASE finish(d)
      BY <3>1, Zenon DEF finish
    <3>2. CASE shared_finish(d)
      <4>1. Queued(d) # {} => firstCycle(d) > limit
        BY <3>2, Zenon DEF shared_finish
      <4>2. Queued(d) # {} => firstCycle(d) \in Nat /\ limit \in Nat
        BY DeqCycleIsFirst, Zenon DEF WInv, Types
      <4>3. Queued(d) # {} => firstCycle(d) >= limit
        BY <4>1, <4>2
      <4> QED BY <3>2, <4>3, Zenon DEF shared_finish
    <3> QED BY <1>2, <3>1, <3>2, Zenon
  <2> QED BY <2>1, FinishWInv, Zenon
<1>3. CASE advance(d)
  BY <1>3, AdvanceWInv, Zenon
<1>4. CASE simulate_core(d)
  BY <1>4, CoreWInv, Zenon
<1>5. CASE simulate_mem_contended(d)
  BY <1>5, ContendedWInv, Zenon
<1>6. CASE simulate_mem(d)
  BY <1>6, MemWInv, Zenon
<1>7. CASE crossing_check(d)
  <2>1. CASE called[running[d]] /\ crossing_done(d)
    BY <1>7, <2>1, DoneWInv, Zenon DEF crossing_check
  <2>2. CASE ~ (called[running[d]] /\ crossing_done(d))
    BY <1>7, <2>2, CheckWInv, Zenon DEF crossing_check
  <2> QED BY <2>1, <2>2, Zenon
<1>8. CASE crossing_read(d)
  BY <1>8, ReadWInv, Zenon
<1>9. CASE crossing_recheck(d)
  <2>1. CASE called[running[d]] /\ crossing_done(d)
    BY <1>9, <2>1, DoneWInv, Zenon DEF crossing_recheck
  <2>2. CASE ~ (called[running[d]] /\ crossing_done(d))
    BY <1>9, <2>2, RequeueWInv, Zenon DEF crossing_recheck
  <2> QED BY <2>1, <2>2, Zenon
<1>10. CASE reportEventSimulated(d)
  BY <1>10, ReportWInv, Zenon
<1>11. CASE crossing_getSlack(d)
  BY <1>11, SlackWInv, Zenon
<1> QED BY <1>1, <1>2, <1>3, <1>4, <1>5, <1>6, <1>7, <1>8, <1>9, <1>10, <1>11, Zenon DEF Steps

-----------------------------------------------------------------------------
(* The hand-shake of the caller and the simulation threads.                *)

HandTypes ==
    /\ numSimThreads \in {1, Cardinality(Cores)}
    /\ sim \in [Cores -> {"asleep", "run", "last"}]
    /\ DOMAIN locked = Cores \cup {WaitLock}
    /\ caller \in {"idle", "wake"} /\ toWake \subseteq SimThreads

\* The threads that are done with this phase.
Back == {t \in SimThreads \ toWake : locked[t] /\ sim[t] # "run"}

AtLimit(t) == \A d \in DomainsOf(t) : pc[d] = "finished" /\ cur[d] = limit

Counted ==
    /\ caller = "idle" \/ ~ locked[WaitLock] =>
          /\ threadsDone = 0 /\ toWake = {}
          /\ \A t \in SimThreads : sim[t] = "asleep" /\ locked[t]
    /\ caller = "idle" => locked[WaitLock]
    /\ caller = "wake" /\ locked[WaitLock] => threadsDone = Cardinality(Back)

HandOf(t) ==
    /\ t \in toWake => locked[t] /\ sim[t] = "asleep"
    /\ ~ locked[t] => sim[t] = "asleep"
    /\ sim[t] = "asleep" => \A d \in DomainsOf(t) : pc[d] = "finished"
    /\ sim[t] = "run" => \A d \in DomainsOf(t) : pc[d] = "finished" => cur[d] = limit
    /\ t \in Back => AtLimit(t)
    /\ sim[t] = "last" => Back = SimThreads /\ \A u \in SimThreads : u # t => sim[u] = "asleep"

Hand == Counted /\ \A t \in SimThreads : HandOf(t)

\* A thread for all domains has each of them in one place until it is done.
Held ==
    numSimThreads = 1 =>
        /\ domPq \subseteq Cores /\ stalled \in Seq(Cores) /\ nextStalled \in Seq(Cores)
        /\ turn = Idle \/ \E d \in Cores, s \in {"domPq", "stalled"} : turn = <<d, s>>
        /\ \A d \in Cores : places(d) = IF pc[d] = "finished" THEN 0 ELSE 1

HInv == HandTypes /\ Hand /\ Held
LEMMA Threads ==
    ASSUME HandTypes
    PROVE  /\ SimThreads \subseteq Cores /\ SimThreads # {} /\ IsFiniteSet(SimThreads)
           /\ Cardinality(SimThreads) = numSimThreads
           /\ \A t \in SimThreads : DomainsOf(t) \subseteq Cores /\ t \in DomainsOf(t)
           /\ \A d \in Cores : \E t \in SimThreads : d \in DomainsOf(t)
           /\ \A t, u \in SimThreads : t # u => DomainsOf(t) \cap DomainsOf(u) = {}
           /\ numSimThreads = 1 => SimThreads = {Leader} /\ DomainsOf(Leader) = Cores
           /\ numSimThreads > 1 => \A t \in SimThreads : DomainsOf(t) = {t}
           /\ Leader \in Cores /\ WaitLock \notin SimThreads
<1>1. IsFiniteSet(Cores) /\ Cardinality(Cores) = 2
  BY CoresFinite, Zenon
<1>2. Leader \in Cores
  <2>1. Cores # {}
    BY <1>1, FS_EmptySet
  <2> QED BY <2>1, Zenon DEF Leader
<1>3. CASE numSimThreads = 1
  <2>1. SimThreads = {Leader} /\ \A t : DomainsOf(t) = Cores
    BY <1>3, Zenon DEF SimThreads, DomainsOf
  <2>2. IsFiniteSet(SimThreads) /\ Cardinality(SimThreads) = 1
    BY <2>1, FS_Singleton, Zenon
  <2> QED BY <1>2, <1>3, <2>1, <2>2, LockAssumption
<1>4. CASE numSimThreads = 2
  <2>1. SimThreads = Cores /\ \A t : DomainsOf(t) = {t}
    BY <1>4 DEF SimThreads, DomainsOf
  <2> QED BY <1>1, <1>2, <1>4, <2>1, LockAssumption
<1> QED BY <1>1, <1>3, <1>4, Zenon DEF HandTypes

\* What a step of domain d leaves alone.
LEMMA StepsFrame ==
    ASSUME Types, NEW d \in Cores, Steps(d)
    PROVE  /\ pc[d] # "finished" /\ limit' = limit
           /\ \A c \in Cores : c # d => pc'[c] = pc[c] /\ cur'[c] = cur[c]
           /\ pc'[d] = "finished" => cur'[d] = limit
<1>1. pc \in [Cores -> Serving \cup {"loop", "advance", "finished"}] /\ cur \in [Cores -> Nat]
  BY Zenon DEF Types
<1>2. CASE dequeue(d) \/ shared_dequeue(d)
  <2>1. PICK n, l : /\ pc[d] = "loop" /\ cur' = [cur EXCEPT ![d] = n] /\ pc' = [pc EXCEPT ![d] = l]
                    /\ l \in {"check", "run"} /\ limit' = limit
    BY <1>2, Zenon DEF dequeue, shared_dequeue, Go
  <2> QED BY <1>1, <2>1, Zenon
<1>3. CASE finish(d) \/ shared_finish(d)
  BY <1>1, <1>3, Zenon DEF finish, shared_finish, Go
<1>4. CASE advance(d)
  <2>1. PICK n : /\ pc[d] = "advance" /\ cur' = [cur EXCEPT ![d] = n] /\ pc' = [pc EXCEPT ![d] = "loop"]
                 /\ limit' = limit
    BY <1>4, Zenon DEF advance, Go
  <2> QED BY <1>1, <2>1, Zenon
<1>5. CASE \/ reportEventSimulated(d) \/ simulate_core(d) \/ simulate_mem_contended(d) \/ simulate_mem(d)
           \/ crossing_check(d) \/ crossing_read(d) \/ crossing_getSlack(d) \/ crossing_recheck(d)
  <2>1. PICK l : /\ pc[d] # "finished" /\ cur' = cur /\ limit' = limit
                 /\ pc' = [pc EXCEPT ![d] = l] /\ l # "finished"
    <3>1. CASE simulate_core(d)
      BY <3>1, Zenon DEF simulate_core, Go
    <3>2. CASE simulate_mem_contended(d)
      BY <3>2, Zenon DEF simulate_mem_contended, Go
    <3>3. CASE simulate_mem(d)
      BY <3>3, Zenon DEF simulate_mem, Go
    <3>4. CASE crossing_check(d)
      BY <3>4, Zenon DEF crossing_check, crossing_done, Go
    <3>5. CASE crossing_read(d)
      BY <3>5, Zenon DEF crossing_read, Go
    <3>6. CASE crossing_recheck(d)
      BY <3>6, Zenon DEF crossing_recheck, crossing_done, Go
    <3>7. CASE reportEventSimulated(d)
      BY <3>7, Zenon DEF reportEventSimulated, Go
    <3>8. CASE crossing_getSlack(d)
      BY <3>8, Zenon DEF crossing_getSlack, Go
    <3> QED BY <1>5, <3>1, <3>2, <3>3, <3>4, <3>5, <3>6, <3>7, <3>8, Zenon
  <2> QED BY <1>1, <2>1, Zenon
<1> QED BY <1>2, <1>3, <1>4, <1>5, Zenon DEF Steps

LEMMA SameThreads ==
    ASSUME UNCHANGED numSimThreads
    PROVE  SimThreads' = SimThreads /\ \A t : DomainsOf(t)' = DomainsOf(t)
  BY Zenon DEF SimThreads, DomainsOf

LEMMA HandSame ==
    ASSUME HandTypes, Hand, UNCHANGED <<numSimThreads, handshake, pc, cur, limit>>
    PROVE  HandTypes' /\ Hand'
<1>1. /\ SimThreads' = SimThreads /\ (\A u : DomainsOf(u)' = DomainsOf(u)) /\ numSimThreads' = numSimThreads
      /\ sim' = sim /\ locked' = locked /\ threadsDone' = threadsDone /\ caller' = caller /\ toWake' = toWake
      /\ pc' = pc /\ cur' = cur /\ limit' = limit
  BY SameThreads, Zenon DEF handshake
<1>2. HandTypes'
  BY <1>1, Zenon DEF HandTypes
<1>3. Back' = Back
  BY <1>1, Zenon DEF Back
<1>4. Counted'
  BY <1>1, <1>3, Zenon DEF Hand, Counted
<1>5. ASSUME NEW t \in SimThreads PROVE HandOf(t)'
  <2>1. HandOf(t)
    BY Zenon DEF Hand
  <2>2. AtLimit(t) => AtLimit(t)'
    BY <1>1, Zenon DEF AtLimit
  <2> QED BY <1>1, <1>3, <2>1, <2>2, Zenon DEF HandOf
<1> QED BY <1>1, <1>2, <1>4, <1>5, Zenon DEF Hand

LEMMA HandSteps ==
    ASSUME Types, HandTypes, Hand, NEW t \in SimThreads, sim[t] = "run", NEW d \in DomainsOf(t), Steps(d),
           UNCHANGED <<numSimThreads, handshake>>
    PROVE  HandTypes' /\ Hand'
<1>1. /\ SimThreads' = SimThreads /\ (\A u : DomainsOf(u)' = DomainsOf(u)) /\ numSimThreads' = numSimThreads
      /\ sim' = sim /\ locked' = locked /\ threadsDone' = threadsDone /\ caller' = caller /\ toWake' = toWake
  BY SameThreads, Zenon DEF handshake
<1>2. HandTypes'
  BY <1>1, Zenon DEF HandTypes
<1>3. Back' = Back
  BY <1>1, Zenon DEF Back
<1>4. /\ pc[d] # "finished" /\ limit' = limit
      /\ \A c \in Cores : c # d => pc'[c] = pc[c] /\ cur'[c] = cur[c]
      /\ pc'[d] = "finished" => cur'[d] = limit
      /\ DomainsOf(t) \subseteq Cores
  BY Threads, StepsFrame, Zenon
<1>5. ASSUME NEW u \in SimThreads, u # t, NEW c \in DomainsOf(u) PROVE pc'[c] = pc[c] /\ cur'[c] = cur[c]
  <2>1. c # d /\ c \in Cores
    BY <1>5, Threads
  <2> QED BY <1>4, <2>1, Zenon
<1>6. t \notin Back /\ sim[t] # "asleep" /\ sim[t] # "last"
  BY Zenon DEF Back
<1>7. ASSUME NEW u \in SimThreads
      PROVE  /\ sim[u] = "asleep" => \A c \in DomainsOf(u) : pc'[c] = "finished"
             /\ sim[u] = "run" => \A c \in DomainsOf(u) : pc'[c] = "finished" => cur'[c] = limit
             /\ u \in Back => \A c \in DomainsOf(u) : pc'[c] = "finished" /\ cur'[c] = limit
  <2>1. CASE u = t
    <3>1. \A c \in DomainsOf(t) : pc'[c] = "finished" => cur'[c] = limit
      BY <1>4, Zenon DEF Hand, HandOf
    <3> QED BY <1>6, <2>1, <3>1, Zenon
  <2>2. CASE u # t
    <3>1. HandOf(u)
      BY Zenon DEF Hand
    <3>2. \A c \in DomainsOf(u) : pc'[c] = pc[c] /\ cur'[c] = cur[c]
      BY <1>5, <2>2, Zenon
    <3> QED BY <3>1, <3>2, Zenon DEF HandOf, AtLimit
  <2> QED BY <2>1, <2>2, Zenon
<1>8. Hand'
  <2>1. Counted'
    BY <1>1, <1>3, Zenon DEF Hand, Counted
  <2>2. ASSUME NEW u \in SimThreads PROVE HandOf(u)'
    <3>1. u \in Back => AtLimit(u)'
      BY <1>1, <1>4, <1>7, Zenon DEF AtLimit
    <3> QED BY <1>1, <1>3, <1>4, <1>7, <3>1, Zenon DEF Hand, HandOf
  <2> QED BY <1>1, <2>1, <2>2, Zenon DEF Hand
<1> QED BY <1>2, <1>8, Zenon

LEMMA HandCaller ==
    ASSUME Types, HandTypes, Hand, Caller
    PROVE  HandTypes' /\ Hand'
<1>1. SimThreads' = SimThreads /\ (\A u : DomainsOf(u)' = DomainsOf(u)) /\ numSimThreads' = numSimThreads
  BY SameThreads, Zenon DEF Caller
<1>2. SimThreads \subseteq Cores /\ WaitLock \notin SimThreads
  BY Threads, Zenon
<1>3. CASE simulatePhase
  <2>1. /\ caller = "idle" /\ limit' = limit + PhaseLength /\ caller' = "wake" /\ toWake' = SimThreads
        /\ cur' = cur /\ pc' = pc /\ sim' = sim /\ locked' = locked /\ threadsDone' = threadsDone
    BY <1>3, Zenon DEF simulatePhase
  <2>2. HandTypes'
    BY <1>1, <2>1, Zenon DEF HandTypes
  <2>3. Back' = {}
    BY <1>1, <2>1, Zenon DEF Back
  <2>4. /\ threadsDone = 0 /\ locked[WaitLock]
        /\ \A t \in SimThreads : sim[t] = "asleep" /\ locked[t] /\ \A d \in DomainsOf(t) : pc[d] = "finished"
    BY <2>1, Zenon DEF Hand, Counted, HandOf
  <2>5. Cardinality(Back') = 0
    BY <2>3, FS_EmptySet, Zenon
  <2>6. Hand'
    BY <1>1, <2>1, <2>3, <2>4, <2>5, Zenon DEF Hand, Counted, HandOf
  <2> QED BY <2>2, <2>6, Zenon
<1>4. CASE \E t \in SimThreads : unlock_wakeLock(t)
  <2>1. PICK t \in SimThreads :
          /\ caller = "wake" /\ t \in toWake /\ locked' = [locked EXCEPT ![t] = FALSE] /\ toWake' = toWake \ {t}
          /\ limit' = limit /\ cur' = cur /\ pc' = pc /\ sim' = sim /\ threadsDone' = threadsDone /\ caller' = caller
    BY <1>4, Zenon DEF unlock_wakeLock, vars
  <2>2. HandTypes'
    BY <1>1, <2>1, Zenon DEF HandTypes
  <2>3. /\ ~ locked'[t] /\ locked'[WaitLock] = locked[WaitLock]
        /\ \A u \in SimThreads : u # t => locked'[u] = locked[u]
    BY <1>2, <2>1, Zenon DEF HandTypes
  <2>4. Back' = Back
    BY <1>1, <2>1, <2>3, Zenon DEF Back
  <2>5. caller' # "idle" /\ locked[WaitLock] /\ sim[t] = "asleep"
    BY <2>1, Zenon DEF Hand, Counted, HandOf
  <2>6. locked'[WaitLock] /\ threadsDone' = Cardinality(Back')
    BY <2>1, <2>3, <2>4, <2>5, Zenon DEF Hand, Counted, HandOf
  <2>7. ASSUME NEW u \in SimThreads
        PROVE  /\ u \in toWake' => locked'[u] /\ sim[u] = "asleep"
               /\ ~ locked'[u] => sim[u] = "asleep"
               /\ sim[u] = "asleep" => \A d \in DomainsOf(u) : pc[d] = "finished"
               /\ sim[u] = "run" => \A d \in DomainsOf(u) : pc[d] = "finished" => cur[d] = limit
               /\ u \in Back => AtLimit(u)
               /\ sim[u] = "last" => Back = SimThreads /\ \A v \in SimThreads : v # u => sim[v] = "asleep"
    <3>1. CASE u = t
      BY <2>1, <2>5, <3>1, Zenon DEF Hand, Counted, HandOf
    <3>2. CASE u # t
      BY <2>1, <2>3, <3>2, Zenon DEF Hand, Counted, HandOf
    <3> QED BY <3>1, <3>2, Zenon
  <2>8. \A u \in SimThreads : AtLimit(u) => AtLimit(u)'
    BY <1>1, <2>1, Zenon DEF AtLimit
  <2>9. Hand'
    <3>1. Counted'
      BY <1>1, <2>5, <2>6, Zenon DEF Counted
    <3>2. ASSUME NEW u \in SimThreads PROVE HandOf(u)'
      BY <1>1, <2>1, <2>4, <2>7, <2>8, Zenon DEF HandOf
    <3> QED BY <1>1, <3>1, <3>2, Zenon DEF Hand
  <2> QED BY <2>2, <2>9, Zenon
<1>5. CASE simulatePhase_done
  <2>1. /\ caller = "wake" /\ ~ locked[WaitLock] /\ locked' = [locked EXCEPT ![WaitLock] = TRUE] /\ caller' = "idle"
        /\ limit' = limit /\ cur' = cur /\ pc' = pc /\ sim' = sim /\ threadsDone' = threadsDone /\ toWake' = toWake
    BY <1>5, Zenon DEF simulatePhase_done, vars
  <2>2. HandTypes'
    BY <1>1, <2>1, Zenon DEF HandTypes
  <2>3. locked'[WaitLock] /\ \A u \in SimThreads : locked'[u] = locked[u]
    BY <1>2, <2>1, Zenon DEF HandTypes
  <2>4. Back' = Back
    BY <1>1, <2>1, <2>3, Zenon DEF Back
  <2>5. Hand'
    <3>1. Counted'
      BY <1>1, <2>1, <2>3, Zenon DEF Hand, Counted
    <3>2. ASSUME NEW u \in SimThreads PROVE HandOf(u)'
      <4>1. AtLimit(u) => AtLimit(u)'
        BY <1>1, <2>1, Zenon DEF AtLimit
      <4> QED BY <1>1, <2>1, <2>3, <2>4, <4>1, Zenon DEF Hand, HandOf
    <3> QED BY <1>1, <3>1, <3>2, Zenon DEF Hand
  <2> QED BY <2>2, <2>5, Zenon
<1> QED BY <1>3, <1>4, <1>5, Zenon DEF Caller

LEMMA HandThread ==
    ASSUME Types, HandTypes, Hand, NEW t \in SimThreads, UNCHANGED numSimThreads,
           simThreadLoop_wake(t) \/ simThreadLoop_done(t) \/ simThreadLoop_last(t)
    PROVE  HandTypes' /\ Hand'
<1>1. SimThreads' = SimThreads /\ (\A u : DomainsOf(u)' = DomainsOf(u)) /\ numSimThreads' = numSimThreads
  BY SameThreads, Zenon
<1>2. SimThreads \subseteq Cores /\ WaitLock \notin SimThreads /\ t \in Cores
  BY Threads, Zenon
<1>3. CASE simThreadLoop_wake(t)
  <2>1. /\ sim[t] = "asleep" /\ ~ locked[t] /\ locked' = [locked EXCEPT ![t] = TRUE]
        /\ sim' = [sim EXCEPT ![t] = "run"]
        /\ pc' = [d \in Cores |-> IF d \in DomainsOf(t) THEN "loop" ELSE pc[d]]
        /\ cur' = cur /\ limit' = limit /\ threadsDone' = threadsDone /\ caller' = caller /\ toWake' = toWake
    BY <1>3, Zenon DEF simThreadLoop_wake
  <2>2. HandTypes'
    BY <1>1, <1>2, <2>1, Zenon DEF HandTypes
  <2>3. /\ locked'[t] /\ sim'[t] = "run" /\ locked'[WaitLock] = locked[WaitLock]
        /\ \A u \in SimThreads : u # t => locked'[u] = locked[u] /\ sim'[u] = sim[u]
    BY <1>2, <2>1, Zenon DEF HandTypes
  <2>4. Back' = Back
    BY <1>1, <2>1, <2>3, Zenon DEF Back
  <2>5. caller # "idle" /\ locked[WaitLock] /\ t \notin Back
    BY <2>1, Zenon DEF Hand, Counted, HandOf, Back
  <2>6. ASSUME NEW u \in SimThreads, u # t, NEW d \in DomainsOf(u) PROVE pc'[d] = pc[d]
    BY <2>1, <2>6, Threads, Zenon
  <2>7. \A d \in DomainsOf(t) : pc'[d] # "finished"
    BY <2>1, Threads, Zenon
  <2>8. \A u \in SimThreads : sim[u] # "last"
    BY <2>5, Zenon DEF Hand, Counted, HandOf
  <2>9. t \notin toWake
    BY <2>1, Zenon DEF Hand, Counted, HandOf
  <2>10. Hand'
    <3>1. Counted'
      BY <1>1, <2>1, <2>3, <2>4, <2>5, Zenon DEF Hand, Counted
    <3>2. HandOf(t)'
      BY <1>1, <2>1, <2>3, <2>4, <2>5, <2>7, <2>9, Zenon DEF HandOf
    <3>3. ASSUME NEW u \in SimThreads, u # t PROVE HandOf(u)'
      <4>1. AtLimit(u) => AtLimit(u)'
        BY <1>1, <2>1, <2>6, <3>3, Zenon DEF AtLimit
      <4>2. /\ locked'[u] = locked[u] /\ sim'[u] = sim[u] /\ sim[u] # "last"
            /\ \A d \in DomainsOf(u) : pc'[d] = pc[d]
        BY <2>3, <2>6, <2>8, <3>3, Zenon
      <4>3. HandOf(u)
        BY Zenon DEF Hand
      <4>4. /\ u \in toWake => locked'[u] /\ sim'[u] = "asleep"
            /\ ~ locked'[u] => sim'[u] = "asleep"
            /\ sim'[u] = "asleep" => \A d \in DomainsOf(u) : pc'[d] = "finished"
            /\ sim'[u] = "run" => \A d \in DomainsOf(u) : pc'[d] = "finished" => cur[d] = limit
            /\ u \in Back => AtLimit(u)'
        BY <4>1, <4>2, <4>3, Zenon DEF HandOf
      <4> QED BY <1>1, <2>1, <2>4, <4>2, <4>4, Zenon DEF HandOf
    <3> QED BY <1>1, <3>1, <3>2, <3>3, Zenon DEF Hand
  <2> QED BY <2>2, <2>10, Zenon
<1>4. CASE simThreadLoop_done(t)
  <2>1. /\ sim[t] = "run" /\ (\A d \in DomainsOf(t) : pc[d] = "finished") /\ threadsDone' = threadsDone + 1
        /\ sim' = [sim EXCEPT ![t] = IF threadsDone' = numSimThreads THEN "last" ELSE "asleep"]
        /\ locked' = locked /\ cur' = cur /\ limit' = limit /\ pc' = pc /\ caller' = caller /\ toWake' = toWake
    BY <1>4, Zenon DEF simThreadLoop_done, vars
  <2>2. HandTypes'
    BY <1>1, <1>2, <2>1, Zenon DEF HandTypes
  <2>3. sim'[t] # "run" /\ \A u \in SimThreads : u # t => sim'[u] = sim[u]
    BY <1>2, <2>1, Zenon DEF HandTypes
  <2>4. caller = "wake" /\ locked[WaitLock] /\ locked[t] /\ t \notin toWake /\ t \notin Back
    BY <2>1, Zenon DEF Hand, Counted, HandOf, HandTypes, Back
  <2>5. Back' = Back \cup {t}
    BY <1>1, <2>1, <2>3, <2>4, Zenon DEF Back
  <2>6. threadsDone = Cardinality(Back) /\ IsFiniteSet(SimThreads) /\ Cardinality(SimThreads) = numSimThreads
    BY <2>4, Threads, Zenon DEF Hand, Counted, HandOf
  <2>7. IsFiniteSet(Back) /\ Back \in SUBSET SimThreads
    BY <2>6, FS_Subset, Zenon DEF Back
  <2>8. threadsDone' = Cardinality(Back')
    BY <2>1, <2>4, <2>5, <2>6, <2>7, FS_AddElement, Zenon
  <2>9. \A u \in SimThreads : sim[u] # "last"
    BY <2>4, Zenon DEF Hand, Counted, HandOf
  <2>10. sim'[t] = "last" => Back' = SimThreads
    <3>1. Back' \in SUBSET SimThreads
      BY <2>5, <2>7, Zenon
    <3>2. PICK B : B = Back'
      OBVIOUS
    <3>3. sim'[t] = "last" => Cardinality(SimThreads) = Cardinality(B)
      BY <1>2, <2>1, <2>6, <2>8, <3>2, Zenon DEF HandTypes
    <3> QED BY <2>6, <3>1, <3>2, <3>3, FS_Subset, Zenon
  <2>11. sim'[t] = "last" => \A u \in SimThreads : u # t => sim'[u] = "asleep"
    <3>1. ASSUME sim'[t] = "last", NEW u \in SimThreads, u # t PROVE sim'[u] = "asleep"
      <4>1. u \in Back /\ u \in Cores
        BY <1>2, <2>5, <2>10, <3>1, Zenon
      <4> QED BY <2>3, <2>9, <3>1, <4>1, Zenon DEF Back, HandTypes
    <3> QED BY <3>1, Zenon
  <2>12. AtLimit(t)
    BY <2>1, Zenon DEF Hand, Counted, HandOf, AtLimit
  <2>13. ASSUME NEW u \in SimThreads
         PROVE  /\ u \in toWake => locked[u] /\ sim'[u] = "asleep"
                /\ ~ locked[u] => sim'[u] = "asleep"
                /\ sim'[u] = "asleep" => \A d \in DomainsOf(u) : pc[d] = "finished"
                /\ sim'[u] = "run" => \A d \in DomainsOf(u) : pc[d] = "finished" => cur[d] = limit
                /\ u \in Back' => AtLimit(u)
                /\ sim'[u] = "last" => u = t
    <3>1. CASE u = t
      BY <2>1, <2>3, <2>4, <2>12, <3>1, Zenon
    <3>2. CASE u # t
      BY <2>3, <2>5, <2>9, <3>2, Zenon DEF Hand, Counted, HandOf
    <3> QED BY <3>1, <3>2, Zenon
  <2>14. \A u \in SimThreads : AtLimit(u) => AtLimit(u)'
    BY <1>1, <2>1, Zenon DEF AtLimit
  <2>15. Hand'
    <3>1. Counted'
      BY <1>1, <2>1, <2>4, <2>8, Zenon DEF Counted
    <3>2. ASSUME NEW u \in SimThreads PROVE HandOf(u)'
      <4>1. sim'[u] = "last" => Back' = SimThreads /\ \A v \in SimThreads : v # u => sim'[v] = "asleep"
        BY <2>10, <2>11, <2>13, Zenon
      <4> QED BY <1>1, <2>1, <2>13, <2>14, <4>1, Zenon DEF HandOf
    <3> QED BY <1>1, <3>1, <3>2, Zenon DEF Hand
  <2> QED BY <2>2, <2>15, Zenon
<1>5. CASE simThreadLoop_last(t)
  <2>1. /\ sim[t] = "last" /\ threadsDone' = 0 /\ locked' = [locked EXCEPT ![WaitLock] = FALSE]
        /\ sim' = [sim EXCEPT ![t] = "asleep"]
        /\ cur' = cur /\ limit' = limit /\ pc' = pc /\ caller' = caller /\ toWake' = toWake
    BY <1>5, Zenon DEF simThreadLoop_last, vars
  <2>2. HandTypes'
    BY <1>1, <1>2, <2>1, Zenon DEF HandTypes
  <2>3. /\ ~ locked'[WaitLock] /\ \A u \in SimThreads : locked'[u] = locked[u]
        /\ sim'[t] = "asleep" /\ \A u \in SimThreads : u # t => sim'[u] = sim[u]
    BY <1>2, <2>1, Zenon DEF HandTypes
  <2>4. Back = SimThreads /\ caller # "idle" /\ \A u \in SimThreads : u # t => sim[u] = "asleep"
    BY <2>1, Zenon DEF Hand, Counted, HandOf
  <2>5. toWake = {} /\ \A u \in SimThreads : locked[u] /\ AtLimit(u)
    BY <2>4, Zenon DEF Hand, Counted, HandOf, Back, HandTypes
  <2>6. \A u \in SimThreads : sim'[u] = "asleep" /\ AtLimit(u)' /\ \A d \in DomainsOf(u) : pc[d] = "finished"
    BY <1>1, <2>1, <2>3, <2>4, <2>5, Zenon DEF AtLimit
  <2>7. \A u \in SimThreads : locked'[u] /\ sim'[u] # "run" /\ sim'[u] # "last"
    BY <2>3, <2>5, <2>6, Zenon
  <2>8. caller' # "idle" /\ toWake' = {}
    BY <2>1, <2>4, <2>5, Zenon
  <2>9. Hand'
    BY <1>1, <2>1, <2>3, <2>6, <2>7, <2>8, Zenon DEF Hand, Counted, HandOf
  <2> QED BY <2>2, <2>9, Zenon
<1> QED BY <1>3, <1>4, <1>5, Zenon

LEMMA InIs ==
    ASSUME NEW s \in Seq(Cores), NEW d
    PROVE  /\ In(s, d) \in Nat
           /\ IsFiniteSet({i \in DOMAIN s : s[i] = d})
<1>1. DOMAIN s = 1 .. Len(s) /\ Len(s) \in Nat
  OBVIOUS
<1>2. IsFiniteSet(DOMAIN s)
  BY <1>1, FS_Interval
<1>3. {i \in DOMAIN s : s[i] = d} \in SUBSET DOMAIN s
  OBVIOUS
<1>4. IsFiniteSet({i \in DOMAIN s : s[i] = d})
  BY <1>2, <1>3, FS_Subset, Zenon
<1> QED BY <1>4, FS_CardinalityType, Zenon DEF In

LEMMA InNone == \A d : In(<<>>, d) = 0
<1>1. \A d : {i \in DOMAIN <<>> : <<>>[i] = d} = {}
  OBVIOUS
<1> QED BY <1>1, FS_EmptySet, Zenon DEF In

LEMMA InAppend ==
    ASSUME NEW s \in Seq(Cores), NEW e \in Cores, NEW d
    PROVE  In(Append(s, e), d) = In(s, d) + (IF e = d THEN 1 ELSE 0)
<1> DEFINE a == Append(s, e)
           S == {i \in DOMAIN s : s[i] = d}
           T == {i \in DOMAIN a : a[i] = d}
           n == Len(s) + 1
<1>1. /\ DOMAIN s = 1 .. Len(s) /\ DOMAIN a = 1 .. n /\ Len(s) \in Nat
      /\ a[n] = e /\ \A i \in 1 .. Len(s) : a[i] = s[i]
  OBVIOUS
<1>2. n \notin S /\ IsFiniteSet(S) /\ In(s, d) \in Nat
  <2>1. n \notin 1 .. Len(s)
    BY <1>1
  <2> QED BY <1>1, <2>1, InIs, Zenon
<1> HIDE DEF a
<1>3. CASE e = d
  <2>1. T = S \cup {n}
    BY <1>1, <1>3
  <2>2. Cardinality(T) = Cardinality(S) + 1
    BY <1>2, <2>1, FS_AddElement, Zenon
  <2> QED BY <1>3, <2>2, Zenon DEF In, a
<1>4. CASE e # d
  <2>1. T = S
    BY <1>1, <1>4
  <2>2. In(s, d) + 0 = In(s, d)
    BY <1>2
  <2> QED BY <1>4, <2>1, <2>2, Zenon DEF In, a
<1> QED BY <1>3, <1>4, Zenon

LEMMA InFront ==
    ASSUME NEW s \in Seq(Cores), s # <<>>
    PROVE  /\ s[Len(s)] \in Cores /\ SubSeq(s, 1, Len(s) - 1) \in Seq(Cores)
           /\ \A d : In(s, d) = In(SubSeq(s, 1, Len(s) - 1), d) + (IF s[Len(s)] = d THEN 1 ELSE 0)
<1>1. PICK n \in Nat : n = Len(s) /\ n >= 1 /\ DOMAIN s = 1 .. n
  OBVIOUS
<1>2. PICK m \in Nat : m = n - 1
  BY <1>1
<1>3. PICK f : f = SubSeq(s, 1, m)
  BY Zenon
<1>4. s[n] \in Cores
  BY <1>1
<1>5. f \in Seq(Cores) /\ Len(f) = m
  BY <1>1, <1>2, <1>3
<1>6. DOMAIN f = 1 .. m
  BY <1>5
<1>7. ASSUME NEW i \in 1 .. m PROVE f[i] = s[i]
  BY <1>1, <1>2, <1>3
<1>8. ASSUME NEW d PROVE In(s, d) = In(f, d) + (IF s[n] = d THEN 1 ELSE 0)
  <2> DEFINE S == {i \in DOMAIN f : f[i] = d}
             T == {i \in DOMAIN s : s[i] = d}
  <2>1. \A i : i \in 1 .. n <=> i \in 1 .. m \/ i = n
    BY <1>1, <1>2
  <2>2. n \notin 1 .. m
    BY <1>2
  <2>3. n \notin S /\ IsFiniteSet(S) /\ In(f, d) \in Nat
    BY <1>5, <1>6, <2>2, InIs, Zenon
  <2>4. CASE s[n] = d
    <3>1. T = S \cup {n}
      BY <1>1, <1>6, <1>7, <2>1, <2>4, Zenon
    <3>2. Cardinality(T) = Cardinality(S) + 1
      BY <2>3, <3>1, FS_AddElement, Zenon
    <3> QED BY <2>4, <3>2, Zenon DEF In
  <2>5. CASE s[n] # d
    <3>1. T = S
      BY <1>1, <1>6, <1>7, <2>1, <2>5, Zenon
    <3>2. In(f, d) + 0 = In(f, d)
      BY <2>3
    <3> QED BY <2>5, <3>1, <3>2, Zenon DEF In
  <2> QED BY <2>4, <2>5, Zenon
<1>9. f = SubSeq(s, 1, Len(s) - 1)
  BY <1>1, <1>2, <1>3, Zenon
<1> QED BY <1>1, <1>4, <1>5, <1>8, <1>9, Zenon

\* How often d is in the hand of the thread.
Turn(d) == IF turn # Idle /\ turn[1] = d THEN 1 ELSE 0

LEMMA PlacesIs ==
    ASSUME stalled \in Seq(Cores), nextStalled \in Seq(Cores), NEW d
    PROVE  /\ places(d) = (IF d \in domPq THEN 1 ELSE 0) + In(stalled, d) + In(nextStalled, d) + Turn(d)
           /\ In(stalled, d) \in Nat /\ In(nextStalled, d) \in Nat /\ Turn(d) \in {0, 1}
  BY InIs, Zenon DEF places, Turn

LEMMA TurnIs == \A d, s : <<d, s>> # Idle /\ <<d, s>>[1] = d /\ <<d, s>>[2] = s
<1>1. ASSUME NEW d, NEW s PROVE <<d, s>> # Idle
  <2>1. Len(<<d, s>>) = 2 /\ Len(Idle) = 1
    BY Zenon DEF Idle
  <2> QED BY <2>1
<1> QED BY <1>1, Zenon

LEMMA HeldSame ==
    ASSUME Held, UNCHANGED <<numSimThreads, sched>>, \A d \in Cores : pc'[d] = "finished" <=> pc[d] = "finished"
    PROVE  Held'
<1>1. domPq' = domPq /\ stalled' = stalled /\ nextStalled' = nextStalled /\ turn' = turn
  BY Zenon DEF sched
<1>2. \A d : places(d)' = places(d)
  BY <1>1, Zenon DEF places
<1> QED BY <1>1, <1>2, Zenon DEF Held

LEMMA HeldPop ==
    ASSUME Held, numSimThreads = 1, UNCHANGED numSimThreads, pop_domPq \/ pop_stalled
    PROVE  Held'
<1>1. pc' = pc /\ turn = Idle
  BY Zenon DEF pop_domPq, pop_stalled, vars
<1>2. /\ domPq \subseteq Cores /\ stalled \in Seq(Cores) /\ nextStalled \in Seq(Cores)
      /\ \A d \in Cores : places(d) = IF pc[d] = "finished" THEN 0 ELSE 1
  BY Zenon DEF Held
<1>3. \A d : Turn(d) = 0
  BY <1>1, Zenon DEF Turn
<1>4. CASE pop_domPq
  <2>1. PICK e \in domPq : domPq' = domPq \ {e} /\ turn' = <<e, "domPq">>
    BY <1>4, Zenon DEF pop_domPq
  <2>2. stalled' = stalled /\ nextStalled' = nextStalled
    BY <1>4, Zenon DEF pop_domPq
  <2>3. ASSUME NEW d \in Cores PROVE places(d)' = places(d)
    <3>1. /\ places(d) = (IF d \in domPq THEN 1 ELSE 0) + In(stalled, d) + In(nextStalled, d) + Turn(d)
          /\ In(stalled, d) \in Nat /\ In(nextStalled, d) \in Nat
      BY <1>2, PlacesIs, Zenon
    <3>2. places(d)' = (IF d \in domPq' THEN 1 ELSE 0) + In(stalled, d) + In(nextStalled, d) + Turn(d)'
      BY <2>2, Zenon DEF places, Turn
    <3>3. Turn(d)' = IF d = e THEN 1 ELSE 0
      BY <2>1, TurnIs, Zenon DEF Turn
    <3> QED BY <1>3, <2>1, <3>1, <3>2, <3>3
  <2>4. \E d \in Cores, s \in {"domPq", "stalled"} : turn' = <<d, s>>
    BY <1>2, <2>1, Zenon
  <2> QED BY <1>1, <1>2, <2>1, <2>2, <2>3, <2>4, Zenon DEF Held
<1>5. CASE pop_stalled
  <2>1. /\ domPq = {} /\ stalled # <<>> /\ turn' = <<stalled[Len(stalled)], "stalled">>
        /\ stalled' = SubSeq(stalled, 1, Len(stalled) - 1)
        /\ nextStalled' = nextStalled /\ domPq' = domPq
    BY <1>5, Zenon DEF pop_stalled
  <2>2. PICK e, f : e = stalled[Len(stalled)] /\ f = SubSeq(stalled, 1, Len(stalled) - 1)
    BY Zenon
  <2>3. /\ e \in Cores /\ f \in Seq(Cores) /\ turn' = <<e, "stalled">> /\ stalled' = f
        /\ \A d : In(stalled, d) = In(f, d) + (IF e = d THEN 1 ELSE 0)
    BY <1>2, <2>1, <2>2, InFront, Zenon
  <2>4. ASSUME NEW d \in Cores PROVE places(d)' = places(d)
    <3>1. /\ places(d) = In(stalled, d) + In(nextStalled, d)
          /\ In(stalled, d) \in Nat /\ In(nextStalled, d) \in Nat /\ In(f, d) \in Nat
      <4>1. /\ places(d) = (IF d \in domPq THEN 1 ELSE 0) + In(stalled, d) + In(nextStalled, d) + Turn(d)
            /\ In(stalled, d) \in Nat /\ In(nextStalled, d) \in Nat
        BY <1>2, PlacesIs, Zenon
      <4>2. In(f, d) \in Nat
        BY <2>3, InIs, Zenon
      <4>3. Turn(d) = 0 /\ d \notin domPq
        BY <1>3, <2>1, Zenon
      <4> QED BY <4>1, <4>2, <4>3
    <3>2. places(d)' = 0 + In(f, d) + In(nextStalled, d) + Turn(d)'
      BY <2>1, <2>3, Zenon DEF places, Turn
    <3>3. Turn(d)' = IF e = d THEN 1 ELSE 0
      BY <2>3, TurnIs, Zenon DEF Turn
    <3> QED BY <2>3, <3>1, <3>2, <3>3
  <2>5. \E d \in Cores, r \in {"domPq", "stalled"} : turn' = <<d, r>>
    BY <2>3, Zenon
  <2> QED BY <1>1, <1>2, <2>1, <2>3, <2>4, <2>5, Zenon DEF Held
<1> QED BY <1>4, <1>5, Zenon

\* The swap of the stalled queues loses no domain.
LEMMA EndTurn ==
    ASSUME NEW s \in Seq(Cores), NEW n \in Seq(Cores), end_turn(s, n)
    PROVE  /\ turn' = Idle /\ stalled' \in Seq(Cores) /\ nextStalled' \in Seq(Cores)
           /\ \A c : /\ In(stalled', c) \in Nat /\ In(nextStalled', c) \in Nat
                     /\ In(s, c) \in Nat /\ In(n, c) \in Nat
                     /\ In(stalled', c) + In(nextStalled', c) = In(s, c) + In(n, c)
<1>1. turn' = Idle /\ ((stalled' = s /\ nextStalled' = n) \/ (stalled' = n /\ nextStalled' = s))
  BY Zenon DEF end_turn
<1>2. \A c : In(s, c) \in Nat /\ In(n, c) \in Nat
  BY InIs, Zenon
<1>3. \A c : In(s, c) + In(n, c) = In(n, c) + In(s, c)
  BY <1>2
<1> QED BY <1>1, <1>2, <1>3, Zenon

LEMMA HeldServe ==
    ASSUME Types, Held, numSimThreads = 1, UNCHANGED numSimThreads, Serve
    PROVE  /\ \E d \in Cores : Steps(d)
           /\ Held'
<1>1. PICK d \in Cores, src \in {"domPq", "stalled"} : turn = <<d, src>>
  BY Zenon DEF Held, Serve
<1>2. turn # Idle /\ turn[1] = d /\ turn[2] = src
  BY <1>1, TurnIs, Zenon
<1>3. shared_dequeue(d) \/ shared_finish(d) \/ shared_simulate(d) \/ shared_advance(d)
  BY <1>2, Zenon DEF Serve
<1>4. Steps(d)
  BY <1>3, Zenon DEF Steps, shared_simulate, shared_advance
<1>5. \A c \in Cores : Turn(c) = IF c = d THEN 1 ELSE 0
  BY <1>2, Zenon DEF Turn
<1>6. pc[d] # "finished" /\ \A c \in Cores : c # d => pc'[c] = pc[c]
  BY <1>4, StepsFrame, Zenon
<1>7. /\ domPq \subseteq Cores /\ stalled \in Seq(Cores) /\ nextStalled \in Seq(Cores)
      /\ \A c \in Cores : places(c) = IF pc[c] = "finished" THEN 0 ELSE 1
  BY Zenon DEF Held
<1>8. ASSUME NEW c \in Cores
      PROVE  /\ (IF c \in domPq THEN 1 ELSE 0) + In(stalled, c) + In(nextStalled, c)
                  = IF c = d \/ pc[c] = "finished" THEN 0 ELSE 1
             /\ In(stalled, c) \in Nat /\ In(nextStalled, c) \in Nat
  <2>1. /\ places(c) = (IF c \in domPq THEN 1 ELSE 0) + In(stalled, c) + In(nextStalled, c) + Turn(c)
        /\ In(stalled, c) \in Nat /\ In(nextStalled, c) \in Nat
    BY <1>7, PlacesIs, Zenon
  <2>2. Turn(c) = (IF c = d THEN 1 ELSE 0) /\ places(c) = IF pc[c] = "finished" THEN 0 ELSE 1
    BY <1>5, <1>7, Zenon
  <2> QED BY <1>6, <2>1, <2>2
<1>9. CASE shared_dequeue(d) \/ shared_simulate(d)
  <2>1. pc'[d] # "finished" /\ UNCHANGED sched
    <3>1. shared_dequeue(d) => pc'[d] # "finished"
      BY Zenon DEF shared_dequeue, Go, Types
    <3>2. simulate_core(d) \/ simulate_mem_contended(d) \/ simulate_mem(d) => pc'[d] # "finished"
      BY Zenon DEF simulate_core, simulate_mem_contended, simulate_mem, Go, Types
    <3>7. reportEventSimulated(d) \/ crossing_read(d) \/ crossing_getSlack(d) => pc'[d] # "finished"
      BY Zenon DEF reportEventSimulated, crossing_read, crossing_getSlack, Go, Types
    <3>3. crossing_check(d) \/ crossing_recheck(d) => pc'[d] # "finished"
      BY Zenon DEF crossing_check, crossing_recheck, crossing_done, Go, Types
    <3>4. shared_simulate(d) => UNCHANGED sched
      BY Zenon DEF shared_simulate
    <3>5. shared_dequeue(d) => UNCHANGED sched
      BY Zenon DEF shared_dequeue
    <3>6. shared_simulate(d) => \/ simulate_core(d) \/ simulate_mem_contended(d) \/ simulate_mem(d)
                                \/ reportEventSimulated(d) \/ crossing_read(d) \/ crossing_getSlack(d)
                                \/ crossing_check(d) \/ crossing_recheck(d)
      BY Zenon DEF shared_simulate
    <3> QED BY <1>9, <3>1, <3>2, <3>3, <3>4, <3>5, <3>6, <3>7, Zenon
  <2>2. \A c \in Cores : pc'[c] = "finished" <=> pc[c] = "finished"
    BY <1>6, <2>1, Zenon
  <2> QED BY <1>4, <2>1, <2>2, HeldSame, Zenon
<1>10. CASE shared_finish(d)
  <2>1. pc'[d] = "finished" /\ domPq' = domPq /\ end_turn(stalled, nextStalled)
    BY <1>10, Zenon DEF shared_finish, Go, Types
  <2>2. /\ turn' = Idle /\ stalled' \in Seq(Cores) /\ nextStalled' \in Seq(Cores)
        /\ \A c : /\ In(stalled', c) \in Nat /\ In(nextStalled', c) \in Nat
                  /\ In(stalled', c) + In(nextStalled', c) = In(stalled, c) + In(nextStalled, c)
    BY <1>7, <2>1, EndTurn, Zenon
  <2>3. ASSUME NEW c \in Cores PROVE places(c)' = IF pc'[c] = "finished" THEN 0 ELSE 1
    <3>1. places(c)' = (IF c \in domPq THEN 1 ELSE 0) + In(stalled', c) + In(nextStalled', c) + 0
      BY <2>1, <2>2, Zenon DEF places
    <3>2. places(c)' = IF c = d \/ pc[c] = "finished" THEN 0 ELSE 1
      BY <1>8, <2>2, <3>1
    <3> QED BY <1>6, <2>1, <3>2, Zenon
  <2> QED BY <1>4, <1>7, <2>1, <2>2, <2>3, Zenon DEF Held
<1>11. CASE shared_advance(d)
  <2>1. PICK s, n : /\ s = IF prio[d] # 0 /\ src = "domPq" THEN Append(stalled, d) ELSE stalled
                    /\ n = IF prio[d] # 0 /\ src = "stalled" THEN Append(nextStalled, d) ELSE nextStalled
    BY Zenon
  <2>2. /\ pc'[d] = "loop" /\ end_turn(s, n)
        /\ domPq' = IF prio[d] = 0 THEN domPq \cup {d} ELSE domPq
    BY <1>2, <1>11, <2>1, Zenon DEF shared_advance, advance, Go, Types
  <2>3. s \in Seq(Cores) /\ n \in Seq(Cores) /\ domPq' \subseteq Cores
    BY <1>7, <2>1, <2>2
  <2>4. /\ turn' = Idle /\ stalled' \in Seq(Cores) /\ nextStalled' \in Seq(Cores)
        /\ \A c : /\ In(stalled', c) \in Nat /\ In(nextStalled', c) \in Nat
                  /\ In(stalled', c) + In(nextStalled', c) = In(s, c) + In(n, c)
    BY <2>2, <2>3, EndTurn, Zenon
  <2>5. ASSUME NEW c \in Cores PROVE places(c)' = IF pc'[c] = "finished" THEN 0 ELSE 1
    <3>1. /\ places(c)' = (IF c \in domPq' THEN 1 ELSE 0) + In(stalled', c) + In(nextStalled', c) + 0
          /\ In(stalled', c) \in Nat /\ In(nextStalled', c) \in Nat
          /\ In(stalled', c) + In(nextStalled', c) = In(s, c) + In(n, c)
      BY <2>4, Zenon DEF places
    <3>2. /\ In(Append(stalled, d), c) = In(stalled, c) + (IF d = c THEN 1 ELSE 0)
          /\ In(Append(nextStalled, d), c) = In(nextStalled, c) + (IF d = c THEN 1 ELSE 0)
      BY <1>7, InAppend, Zenon
    <3>3. CASE c = d
      <4>1. c \notin domPq /\ In(stalled, c) = 0 /\ In(nextStalled, c) = 0
        BY <1>8, <3>3
      <4>2. CASE prio[d] = 0
        <5>1. domPq' = domPq \cup {d} /\ s = stalled /\ n = nextStalled
          BY <2>1, <2>2, <4>2, Zenon
        <5>2. places(c)' = 1
          BY <3>1, <3>3, <4>1, <5>1
        <5> QED BY <2>2, <3>3, <5>2, Zenon
      <4>3. CASE prio[d] # 0 /\ src = "domPq"
        <5>1. domPq' = domPq /\ s = Append(stalled, d) /\ n = nextStalled
          BY <2>1, <2>2, <4>3, Zenon
        <5>2. places(c)' = 1
          BY <3>1, <3>2, <3>3, <4>1, <5>1
        <5> QED BY <2>2, <3>3, <5>2, Zenon
      <4>4. CASE prio[d] # 0 /\ src = "stalled"
        <5>1. domPq' = domPq /\ s = stalled /\ n = Append(nextStalled, d)
          BY <2>1, <2>2, <4>4, Zenon
        <5>2. places(c)' = 1
          BY <3>1, <3>2, <3>3, <4>1, <5>1
        <5> QED BY <2>2, <3>3, <5>2, Zenon
      <4> QED BY <4>2, <4>3, <4>4, Zenon
    <3>4. CASE c # d
      <4>1. (c \in domPq' <=> c \in domPq) /\ In(s, c) = In(stalled, c) /\ In(n, c) = In(nextStalled, c)
        BY <1>8, <2>1, <2>2, <3>2, <3>4
      <4>2. places(c)' = IF c = d \/ pc[c] = "finished" THEN 0 ELSE 1
        BY <1>8, <3>1, <4>1
      <4> QED BY <1>6, <3>4, <4>2, Zenon
    <3> QED BY <3>3, <3>4, Zenon
  <2> QED BY <1>4, <2>2, <2>3, <2>4, <2>5, Zenon DEF Held
<1> QED BY <1>3, <1>4, <1>9, <1>10, <1>11, Zenon

LEMMA HeldWake ==
    ASSUME Types, HandTypes, Hand, Held, NEW t \in SimThreads, UNCHANGED numSimThreads, simThreadLoop_wake(t)
    PROVE  Held'
<1> SUFFICES ASSUME numSimThreads = 1 PROVE Held'
  BY Zenon DEF Held
<1>1. DomainsOf(t) = Cores
  BY Zenon DEF DomainsOf
<1>2. /\ domPq' = Cores /\ stalled' = stalled /\ nextStalled' = nextStalled /\ turn' = turn
      /\ \A d \in Cores : pc[d] = "finished" /\ pc'[d] = "loop"
  BY <1>1, Zenon DEF simThreadLoop_wake, Hand, Counted, HandOf
<1>3. /\ stalled \in Seq(Cores) /\ nextStalled \in Seq(Cores)
      /\ turn = Idle \/ \E d \in Cores, s \in {"domPq", "stalled"} : turn = <<d, s>>
  BY Zenon DEF Held
<1>4. ASSUME NEW d \in Cores PROVE places(d)' = 1
  <2>1. places(d) = 0
    BY <1>2, Zenon DEF Held
  <2>2. /\ places(d) = (IF d \in domPq THEN 1 ELSE 0) + In(stalled, d) + In(nextStalled, d) + Turn(d)
        /\ In(stalled, d) \in Nat /\ In(nextStalled, d) \in Nat /\ Turn(d) \in {0, 1}
    BY <1>3, PlacesIs, Zenon
  <2>3. places(d)' = 1 + In(stalled, d) + In(nextStalled, d) + Turn(d)
    BY <1>2, Zenon DEF places, Turn
  <2> QED BY <2>1, <2>2, <2>3
<1> QED BY <1>2, <1>3, <1>4, Zenon DEF Held

-----------------------------------------------------------------------------
(* The theorems.                                                           *)

IInv == WInv /\ HInv
LEMMA InitIInv == SharedInit => IInv
<1> SUFFICES ASSUME SharedInit PROVE IInv
  OBVIOUS
<1>1. WInv
  BY InitWInv, Zenon DEF SharedInit
<1>2. HandTypes
  BY Zenon DEF SharedInit, HandTypes
<1>3. /\ pc = [d \in Cores |-> "finished"] /\ cur = [d \in Cores |-> 0] /\ limit = 0
      /\ sim = [t \in Cores |-> "asleep"] /\ locked = [l \in Cores \cup {WaitLock} |-> TRUE]
      /\ threadsDone = 0 /\ caller = "idle" /\ toWake = {}
  BY Zenon DEF SharedInit, Init
<1>4. Hand
  BY <1>2, <1>3, Threads, Zenon DEF Hand, Counted, HandOf, AtLimit
<1>5. Held
  <2>1. domPq = {} /\ stalled = <<>> /\ nextStalled = <<>> /\ turn = Idle
    BY Zenon DEF SharedInit
  <2>2. \A d \in Cores : places(d) = 0
    BY <2>1, InNone DEF places
  <2> QED BY <1>3, <2>1, <2>2 DEF Held
<1> QED BY <1>1, <1>2, <1>4, <1>5, Zenon DEF IInv, HInv

LEMMA StutterIInv == ASSUME IInv, UNCHANGED sharedVars PROVE IInv'
<1>1. UNCHANGED <<pqs, cur, limit, pc, running, next, called, doneCycle, first, slack>>
  BY Zenon DEF sharedVars, vars
<1>2. WInv'
  BY StutterWInv, Zenon DEF IInv, sharedVars
<1>3. /\ numSimThreads' = numSimThreads /\ sim' = sim /\ locked' = locked /\ threadsDone' = threadsDone
      /\ caller' = caller /\ toWake' = toWake /\ UNCHANGED <<numSimThreads, sched>>
  BY Zenon DEF sharedVars, handshake
<1>5. HandTypes' /\ Hand'
  BY <1>1, <1>3, HandSame, Zenon DEF IInv, HInv, sharedVars
<1>6. Held'
  BY <1>1, <1>3, HeldSame, Zenon DEF IInv, HInv
<1> QED BY <1>2, <1>5, <1>6, Zenon DEF IInv, HInv

LEMMA CallerIInv == ASSUME IInv, Caller PROVE IInv'
<1>1. WInv /\ Types /\ HandTypes /\ Hand /\ Held
  BY Zenon DEF IInv, HInv, WInv
<1>2. /\ UNCHANGED <<pqs, cur, pc, running, next, called, doneCycle, first, slack>>
      /\ UNCHANGED <<numSimThreads, sched>> /\ limit' \in Nat /\ limit' >= limit
  <2>1. limit \in Nat /\ PhaseLength \in Nat
    BY <1>1, WeaveAssumption, Zenon DEF Types
  <2>2. /\ UNCHANGED <<pqs, cur, pc, running, next, called, doneCycle, first, slack>>
        /\ UNCHANGED <<numSimThreads, sched>> /\ (limit' = limit \/ limit' = limit + PhaseLength)
    BY Zenon DEF Caller, simulatePhase, unlock_wakeLock, simulatePhase_done, vars
  <2>3. limit' \in Nat /\ limit' >= limit
    BY <2>1, <2>2
  <2> QED BY <2>2, <2>3, Zenon
<1>3. WInv'
  BY <1>1, <1>2, IdleWInv, Zenon DEF Types
<1>4. HandTypes' /\ Hand'
  BY <1>1, HandCaller, Zenon
<1>5. Held'
  BY <1>1, <1>2, HeldSame, Zenon
<1> QED BY <1>3, <1>4, <1>5, Zenon DEF IInv, HInv

LEMMA ThreadIInv == ASSUME IInv, NEW t \in SimThreads, SimThread(t) PROVE IInv'
<1>1. WInv /\ Types /\ HandTypes /\ Hand /\ Held /\ UNCHANGED numSimThreads
  BY Zenon DEF IInv, HInv, WInv, SimThread
<1>2. t \in Cores /\ t \in DomainsOf(t) /\ DomainsOf(t) \subseteq Cores
  BY <1>1, Threads, Zenon
<1>3. CASE simThreadLoop_wake(t)
  <2>1. /\ UNCHANGED <<pqs, cur, limit, running, next, called, doneCycle, first, slack>>
        /\ pc' = [d \in Cores |-> IF d \in DomainsOf(t) THEN "loop" ELSE pc[d]]
        /\ \A d \in DomainsOf(t) : pc[d] = "finished"
    BY <1>1, <1>3, Zenon DEF simThreadLoop_wake, Hand, Counted, HandOf
  <2>2. \A c \in Cores : (pc'[c] \in Serving \/ pc[c] \in Serving) => pc'[c] = pc[c]
    BY <2>1, Zenon DEF Serving
  <2>3. pc' \in [Cores -> Serving \cup {"loop", "advance", "finished"}]
    BY <1>1, <2>1, Zenon DEF Types
  <2>4. WInv'
    <3>1. cur' \in [Cores -> Nat] /\ limit' \in Nat /\ limit' >= limit /\ cur' = cur
      BY <1>1, <2>1 DEF Types
    <3> QED BY <1>1, <2>1, <2>2, <2>3, <3>1, IdleWInv, Zenon
  <2>5. HandTypes' /\ Hand' /\ Held'
    BY <1>1, <1>3, HandThread, HeldWake, Zenon
  <2> QED BY <2>4, <2>5, Zenon DEF IInv, HInv
<1>4. CASE simThreadLoop_done(t) \/ simThreadLoop_last(t)
  <2>1. UNCHANGED vars /\ UNCHANGED sched
    BY <1>4, Zenon DEF simThreadLoop_done, simThreadLoop_last
  <2>2. WInv'
    BY <1>1, <2>1, StutterWInv, Zenon
  <2>3. HandTypes' /\ Hand'
    BY <1>1, <1>4, HandThread, Zenon
  <2>4. Held'
    BY <1>1, <2>1, HeldSame, Zenon DEF vars
  <2> QED BY <2>2, <2>3, <2>4, Zenon DEF IInv, HInv
<1>5. CASE numSimThreads > 1 /\ sim[t] = "run" /\ Step(t) /\ UNCHANGED <<prio, sched, handshake>>
  <2>1. Steps(t)
    BY <1>5, Zenon DEF Step, Steps
  <2>2. WInv'
    BY <1>1, <1>2, <2>1, StepsWInv, Zenon
  <2>3. HandTypes' /\ Hand'
    BY <1>1, <1>2, <1>5, <2>1, HandSteps, Zenon
  <2>4. Held'
    BY <1>1, <1>5 DEF Held
  <2> QED BY <2>2, <2>3, <2>4, Zenon DEF IInv, HInv
<1>6. CASE numSimThreads = 1 /\ sim[t] = "run" /\ (pop_domPq \/ pop_stalled \/ Serve) /\ UNCHANGED handshake
  <2>1. CASE pop_domPq \/ pop_stalled
    <3>1. UNCHANGED vars
      BY <2>1, Zenon DEF pop_domPq, pop_stalled
    <3>2. WInv'
      BY <1>1, <3>1, StutterWInv, Zenon
    <3>3. Held'
      BY <1>1, <1>6, <2>1, HeldPop, Zenon
    <3>4. HandTypes' /\ Hand'
      BY <1>1, <1>6, <3>1, HandSame, Zenon DEF vars
    <3> QED BY <3>2, <3>3, <3>4, Zenon DEF IInv, HInv
  <2>2. CASE Serve
    <3>1. PICK d \in Cores : Steps(d)
      BY <1>1, <1>6, <2>2, HeldServe, Zenon
    <3>2. Held'
      BY <1>1, <1>6, <2>2, HeldServe, Zenon
    <3>3. d \in DomainsOf(t)
      BY <1>6, Zenon DEF DomainsOf
    <3>4. WInv'
      BY <1>1, <3>1, StepsWInv, Zenon
    <3>5. HandTypes' /\ Hand'
      BY <1>1, <1>6, <3>1, <3>3, HandSteps, Zenon
    <3> QED BY <3>2, <3>4, <3>5, Zenon DEF IInv, HInv
  <2> QED BY <1>6, <2>1, <2>2, Zenon
<1> QED BY <1>3, <1>4, <1>5, <1>6, Zenon DEF SimThread

LEMMA AlwaysIInv == SharedSpec => []IInv
<1>1. IInv /\ [SharedNext]_sharedVars => IInv'
  <2> SUFFICES ASSUME IInv, [SharedNext]_sharedVars PROVE IInv'
    OBVIOUS
  <2>1. CASE Caller
    BY <2>1, CallerIInv, Zenon
  <2>2. CASE \E t \in SimThreads : SimThread(t)
    BY <2>2, ThreadIInv, Zenon
  <2>3. CASE AllDone \/ UNCHANGED sharedVars
    BY <2>3, StutterIInv, Zenon DEF AllDone
  <2> QED BY <2>1, <2>2, <2>3, Zenon DEF SharedNext
<1> QED BY <1>1, InitIInv, PTL DEF SharedSpec

\* However the two domains interleave, and whether one thread simulates them
\* or two, CrossingEvent::simulate never leaves a crossing whose source is done
\* in the queue for a cycle later than its first one or the source's cycle
\* plus the slack, whichever is later.
THEOREM CrossingTheorem == SharedSpec => []CrossingNotLate
<1>1. IInv => CrossingNotLate
  BY Zenon DEF IInv, WInv
<1> QED BY <1>1, AlwaysIInv, PTL

\* No event is queued for a cycle before the one at which the event that it
\* waits for was done, and no core event runs before its minimum start.
THEOREM CausalityTheorem == SharedSpec => []Causality
<1>1. IInv => Causality
  BY WInvCausality, Zenon DEF IInv
<1> QED BY <1>1, AlwaysIInv, PTL

\* PrioQueue::firstCycle and PrioQueue::dequeue agree on the earliest cycle of
\* the queue, whatever the size of the ring, and it is not in the past.
THEOREM QueueTheorem == SharedSpec => []QueueExact
<1>1. IInv => QueueExact
  BY QueueIsExact, Zenon DEF IInv, WInv
<1> QED BY <1>1, AlwaysIInv, PTL

\* ContentionSim::simulatePhase returns only when every simulation thread is
\* back asleep with its domains at the limit, and a thread that serves several
\* domains neither drops one nor has it twice.
THEOREM PhaseTheorem == SharedSpec => []PhaseComplete
<1>1. IInv => PhaseComplete
  <2> SUFFICES ASSUME IInv PROVE PhaseComplete
    OBVIOUS
  <2>1. HandTypes /\ Hand /\ Held
    BY Zenon DEF IInv, HInv
  <2>2. ASSUME caller = "idle", NEW d \in Cores PROVE pc[d] = "finished" /\ cur[d] = limit
    <3>1. PICK t \in SimThreads : d \in DomainsOf(t)
      BY <2>1, Threads, Zenon
    <3>2. t \in Back
      BY <2>1, <2>2, Zenon DEF Hand, Counted, HandOf, Back
    <3> QED BY <2>1, <3>1, <3>2, Zenon DEF Hand, Counted, HandOf, AtLimit
  <2> QED BY <2>1, <2>2, Zenon DEF PhaseComplete, Hand, Counted, HandOf, Held
<1> QED BY <1>1, AlwaysIInv, PTL
=============================================================================
