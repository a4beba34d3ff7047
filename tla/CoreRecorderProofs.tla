------------------------- MODULE CoreRecorderProofs -------------------------
(***************************************************************************)
(* Proofs about CoreRecorder for every phase length, any number of phases  *)
(* and events, and any work, latencies and contention.                     *)
(***************************************************************************)
EXTENDS CoreRecorder, SequenceTheorems, TLAPS

Events == [orig : Int, min : Int, delay : Nat, access : BOOLEAN]
Simulated == [orig : Int, start : Int]
Accounts == [last : Int, ready : Int]

Type ==
    /\ phase \in {"bound", "weave"} /\ state \in {"HALTED", "RUNNING", "DRAINING"}
    /\ globPhaseCycles \in Int /\ curCycle \in Int /\ prevRespCycle \in Int
    /\ gapCycles \in Int /\ totalGapCycles \in Int
    /\ totalHaltedCycles \in Int /\ lastUnhaltedCycle \in Int
    /\ chain \in Seq(Events) /\ ready \in Int
    /\ last \in {None} \cup Simulated
    /\ delayed \in Accounts
    /\ prevRespCycle <= curCycle

\* Zero-load starts differ by the delays, whatever skew was added between the
\* recording of two events, and a minimum start is the zero-load start plus a
\* gap of some earlier time.
Chained(s, prev, gap) ==
    /\ \A k \in 1 .. Len(s) : s[k].min <= s[k].orig + gap
    /\ \A k \in 1 .. Len(s) - 1 : s[k + 1].orig = s[k].orig + s[k].delay
    /\ s # <<>> => s[Len(s)].orig + s[Len(s)].delay = prev - gap

ChainOK == Chained(chain, prevRespCycle, gapCycles)

\* The next event is as late as the contention before it, and the gap is part
\* of that.
ReadyOK ==
    /\ delayed.last <= delayed.ready
    /\ chain # <<>> =>
          /\ ready >= chain[1].orig + gapCycles
          /\ delayed.ready = totalGapCycles + (ready - chain[1].orig)

\* So was the last one that was simulated; outside the weave phase the gap
\* is all of it.
LastOK ==
    last # None =>
        /\ last.start >= last.orig + gapCycles
        /\ last.start < limit /\ last.start >= totalHaltedCycles
        /\ phase = "bound" => last.start = last.orig + gapCycles
        /\ delayed.last = totalGapCycles + (last.start - last.orig)

HaltedOK ==
    state = "HALTED" =>
        /\ last = None /\ chain = <<>>
        /\ totalGapCycles + gapCycles = delayed.last /\ delayed.ready = delayed.last
        /\ totalHaltedCycles <= lastUnhaltedCycle /\ lastUnhaltedCycle <= globPhaseCycles

\* Until the first event of a thread that joined was simulated it waits in
\* the phase of the join.
JoinedOK ==
    state # "HALTED" /\ last = None =>
        /\ chain # <<>> /\ ready = globPhaseCycles /\ chain[1].orig = globPhaseCycles
        /\ gapCycles = 0 /\ delayed.last = totalGapCycles

\* A running core always has an event to come, in the weave phase one beyond
\* the end of the phase; the last event of a chain that may be drained meets
\* no contention.
ActiveOK ==
    state # "HALTED" =>
        /\ ready >= totalHaltedCycles /\ totalHaltedCycles <= globPhaseCycles
        /\ phase = "bound" \/ state = "RUNNING" => chain # <<>>
        /\ chain = <<>> => delayed.ready = delayed.last
        /\ phase = "weave" => curCycle >= limit
        /\ phase = "weave" /\ state = "RUNNING" =>
              curCycle > limit /\ prevRespCycle = curCycle /\ chain[Len(chain)].delay = 0
        /\ (phase = "weave" \/ state = "DRAINING") /\ chain # <<>> => ~ chain[Len(chain)].access

IInv == Type /\ ChainOK /\ ReadyOK /\ LastOK /\ HaltedOK /\ JoinedOK /\ ActiveOK

-----------------------------------------------------------------------------
(* Chains of events.                                                       *)

LEMMA EventType ==
    ASSUME NEW o \in Int, NEW m \in Int, NEW d \in Nat, NEW a \in BOOLEAN
    PROVE  /\ Event(o, m, d, a) \in Events
           /\ Event(o, m, d, a).orig = o /\ Event(o, m, d, a).min = m
           /\ Event(o, m, d, a).delay = d /\ Event(o, m, d, a).access = a
  BY DEF Event, Events

LEMMA NotNone ==
    ASSUME NEW o \in Int, NEW s \in Int
    PROVE  [orig |-> o, start |-> s] # None
  BY DEF None

LEMMA Members ==
    ASSUME NEW s \in Seq(Events)
    PROVE  /\ Len(s) \in Nat
           /\ \A i \in 1 .. Len(s) :
                 s[i] \in Events /\ s[i].min \in Int /\ s[i].orig \in Int /\ s[i].delay \in Nat
           /\ s # <<>> => 1 \in 1 .. Len(s) /\ Len(s) \in 1 .. Len(s)
<1>1. \A e \in Events : e.min \in Int /\ e.orig \in Int /\ e.delay \in Nat
  BY DEF Events
<1>2. Len(s) \in Nat /\ \A i \in 1 .. Len(s) : s[i] \in Events
  OBVIOUS
<1>3. s # <<>> => Len(s) \in Nat \ {0}
  BY EmptySeq
<1> QED BY <1>1, <1>2, <1>3

\* An event at the end of a chain leaves the others where they are.
LEMMA Appended ==
    ASSUME NEW s \in Seq(Events), NEW e \in Events
    PROVE  /\ Append(s, e) \in Seq(Events) /\ Append(s, e) # <<>>
           /\ Len(Append(s, e)) = Len(s) + 1 /\ Len(s) \in Nat
           /\ \A k \in 1 .. Len(s) : Append(s, e)[k] = s[k]
           /\ Append(s, e)[Len(s) + 1] = e
           /\ s # <<>> => Append(s, e)[1] = s[1]
  BY AppendProperties

\* Recording an event that starts at the last response keeps a chain.
LEMMA Recorded ==
    ASSUME NEW s \in Seq(Events), s # <<>>, NEW prev \in Int, NEW gap \in Int, NEW d \in Nat,
           NEW a \in BOOLEAN, Chained(s, prev, gap)
    PROVE  Chained(Append(s, Event(prev - gap, prev, d, a)), prev + d, gap)
<1> DEFINE e == Event(prev - gap, prev, d, a)
           t == Append(s, e)
<1>1. /\ e \in Events /\ e.orig = prev - gap /\ e.min = prev /\ e.delay = d
  BY EventType
<1> HIDE DEF e
<1>2. /\ t \in Seq(Events) /\ t # <<>> /\ Len(t) = Len(s) + 1 /\ Len(s) \in Nat
      /\ \A k \in 1 .. Len(s) : t[k] = s[k]
      /\ t[Len(s) + 1] = e
  BY <1>1, Appended
<1>3. Len(s) > 0
  BY <1>2, EmptySeq
<1> HIDE DEF t
<1>4. ASSUME NEW k \in 1 .. Len(t)
      PROVE  t[k].min <= t[k].orig + gap
  <2>1. CASE k \in 1 .. Len(s)
    BY <2>1, <1>2 DEF Chained
  <2>2. CASE k = Len(s) + 1
    BY <2>2, <1>1, <1>2
  <2> QED BY <2>1, <2>2, <1>2
<1>5. ASSUME NEW k \in 1 .. Len(t) - 1
      PROVE  t[k + 1].orig = t[k].orig + t[k].delay
  <2>1. CASE k \in 1 .. Len(s) - 1
    BY <2>1, <1>2 DEF Chained
  <2>2. CASE k = Len(s)
    BY <2>2, <1>1, <1>2, <1>3 DEF Chained
  <2> QED BY <2>1, <2>2, <1>2
<1>6. t[Len(t)].orig + t[Len(t)].delay = (prev + d) - gap
  BY <1>1, <1>2
<1>7. Chained(t, prev + d, gap)
  BY <1>4, <1>5, <1>6 DEF Chained
<1> QED BY <1>7 DEF t, e

\* So does simulating the first one.
LEMMA Shortened ==
    ASSUME NEW s \in Seq(Events), s # <<>>, NEW prev \in Int, NEW gap \in Int, Chained(s, prev, gap)
    PROVE  /\ Tail(s) \in Seq(Events) /\ Len(s) \in Nat /\ Len(Tail(s)) = Len(s) - 1
           /\ Chained(Tail(s), prev, gap)
           /\ Tail(s) # <<>> => /\ Len(s) > 1
                                /\ Tail(s)[1].orig = s[1].orig + s[1].delay
                                /\ Tail(s)[Len(Tail(s))] = s[Len(s)]
           /\ Tail(s) = <<>> => Len(s) = 1
<1>1. /\ Tail(s) \in Seq(Events) /\ Len(Tail(s)) = Len(s) - 1 /\ Len(s) \in Nat
      /\ \A k \in 1 .. Len(Tail(s)) : Tail(s)[k] = s[k + 1]
  BY HeadTailProperties
<1>2. Tail(s) = <<>> <=> Len(Tail(s)) = 0
  BY <1>1, EmptySeq
<1> DEFINE t == Tail(s)
<1>3. /\ t \in Seq(Events) /\ Len(t) = Len(s) - 1
      /\ \A k \in 1 .. Len(t) : t[k] = s[k + 1]
      /\ t = <<>> <=> Len(t) = 0
      /\ Len(s) \in Nat
  BY <1>1, <1>2
<1> HIDE DEF t
<1>4. ASSUME NEW k \in 1 .. Len(t)
      PROVE  t[k].min <= t[k].orig + gap
  BY <1>3 DEF Chained
<1>5. ASSUME NEW k \in 1 .. Len(t) - 1
      PROVE  t[k + 1].orig = t[k].orig + t[k].delay
  <2>1. k + 1 \in 1 .. Len(t) /\ k \in 1 .. Len(t) /\ k + 1 \in 1 .. Len(s) - 1
    BY <1>3
  <2> QED BY <2>1, <1>3 DEF Chained
<1>6. t # <<>> => t[Len(t)] = s[Len(s)]
  BY <1>3
<1>7. t # <<>> => Len(s) > 1 /\ t[1].orig = s[1].orig + s[1].delay
  BY <1>3 DEF Chained
<1>8. Chained(t, prev, gap)
  BY <1>3, <1>4, <1>5, <1>6 DEF Chained
<1> QED BY <1>3, <1>6, <1>7, <1>8 DEF t

-----------------------------------------------------------------------------
(* The invariant is inductive.                                             *)

LEMMA InitIInv == Init => IInv
<1> SUFFICES ASSUME Init PROVE IInv
  OBVIOUS
<1>1. chain = <<>> /\ chain \in Seq(Events) /\ Len(chain) = 0
  BY EmptySeq DEF Init
<1>2. Type
  BY <1>1 DEF Init, Type, Accounts
<1>3. ChainOK
  BY <1>1 DEF ChainOK, Chained
<1>4. ReadyOK /\ LastOK /\ HaltedOK /\ JoinedOK /\ ActiveOK
  BY <1>1 DEF Init, ReadyOK, LastOK, HaltedOK, JoinedOK, ActiveOK
<1> QED BY <1>2, <1>3, <1>4 DEF IInv

LEMMA JoinHaltedIInv == IInv /\ notifyJoin_halted => IInv'
<1> SUFFICES ASSUME IInv, notifyJoin_halted PROVE IInv'
  OBVIOUS
<1> DEFINE e == Event(globPhaseCycles, globPhaseCycles, 0, FALSE)
<1>1. /\ e \in Events /\ e.orig = globPhaseCycles /\ e.min = globPhaseCycles
      /\ e.delay = 0 /\ e.access = FALSE
  BY DEF Event, Events, IInv, Type
<1>2. chain' = <<e>>
  BY DEF notifyJoin_halted
<1> HIDE DEF e
<1>3. /\ chain' \in Seq(Events) /\ chain' # <<>> /\ Len(chain') = 1 /\ chain'[1] = e
  BY <1>1, <1>2
<1>4. Type'
  BY <1>3, RecorderAssumption DEF IInv, Type, notifyJoin_halted, Event, halted
<1>5. ChainOK'
  BY <1>1, <1>3 DEF ChainOK, Chained, notifyJoin_halted, Event, IInv, Type
<1>6. ReadyOK' /\ LastOK'
  BY <1>1, <1>3 DEF ReadyOK, LastOK, HaltedOK, notifyJoin_halted, Event, IInv, Type, Accounts
<1>7. HaltedOK' /\ JoinedOK' /\ ActiveOK'
  BY <1>1, <1>3 DEF HaltedOK, JoinedOK, ActiveOK, notifyJoin_halted, Event, halted, IInv, Type, Accounts
<1> QED BY <1>4, <1>5, <1>6, <1>7 DEF IInv

LEMMA JoinDrainingIInv == IInv /\ notifyJoin_draining => IInv'
  BY DEF IInv, Type, ChainOK, ReadyOK, LastOK, HaltedOK, JoinedOK, ActiveOK,
         notifyJoin_draining, accounts, weaving, limit

LEMMA WorkIInv == IInv /\ work => IInv'
<1> SUFFICES ASSUME IInv, work PROVE IInv'
  OBVIOUS
<1>1. PICK w \in Nat : curCycle' = curCycle + w
  BY RecorderAssumption DEF work
<1>2. Type'
  BY <1>1 DEF IInv, Type, work, accounts, weaving
<1>3. ChainOK' /\ ReadyOK' /\ LastOK' /\ HaltedOK' /\ JoinedOK' /\ ActiveOK'
  BY <1>1 DEF IInv, Type, ChainOK, ReadyOK, LastOK, HaltedOK, JoinedOK, ActiveOK,
         work, runs, accounts, weaving, limit
<1> QED BY <1>2, <1>3 DEF IInv

\* What recording one event at the end of the chain does, for the calls below.
LEMMA OneMore ==
    ASSUME IInv, chain # <<>>, NEW d \in Nat, NEW a \in BOOLEAN
    PROVE  LET t == Append(chain, Event(prevRespCycle - gapCycles, prevRespCycle, d, a))
           IN  /\ t \in Seq(Events) /\ t # <<>> /\ t[1] = chain[1]
               /\ Chained(t, prevRespCycle + d, gapCycles)
               /\ t[Len(t)].delay = d /\ t[Len(t)].access = a
<1>1. /\ chain \in Seq(Events) /\ prevRespCycle \in Int /\ gapCycles \in Int
      /\ Chained(chain, prevRespCycle, gapCycles)
  BY DEF IInv, Type, ChainOK
<1> DEFINE e == Event(prevRespCycle - gapCycles, prevRespCycle, d, a)
<1>2. e \in Events /\ e.delay = d /\ e.access = a
  BY <1>1 DEF Event, Events
<1>3. Chained(Append(chain, e), prevRespCycle + d, gapCycles)
  BY <1>1, Recorded
<1> HIDE DEF e
<1>4. /\ Append(chain, e) \in Seq(Events) /\ Append(chain, e) # <<>>
      /\ Append(chain, e)[1] = chain[1]
      /\ Append(chain, e)[Len(Append(chain, e))] = e
  BY <1>1, <1>2, Appended
<1> QED BY <1>2, <1>3, <1>4 DEF e

LEMMA RecordAccessIInv == IInv /\ recordAccess => IInv'
<1> SUFFICES ASSUME IInv, recordAccess PROVE IInv'
  OBVIOUS
<1>1. PICK l \in Nat :
          /\ chain' = Append(chain, Event(prevRespCycle - gapCycles, prevRespCycle,
                                          (curCycle - prevRespCycle) + l, TRUE))
          /\ curCycle' = curCycle + l /\ prevRespCycle' = curCycle + l
  BY RecorderAssumption DEF recordAccess
<1>2. /\ chain # <<>> /\ (curCycle - prevRespCycle) + l \in Nat
      /\ prevRespCycle + ((curCycle - prevRespCycle) + l) = prevRespCycle'
  BY <1>1 DEF IInv, Type, ActiveOK, recordAccess, runs
<1>3. /\ chain' \in Seq(Events) /\ chain' # <<>> /\ chain'[1] = chain[1]
      /\ Chained(chain', prevRespCycle', gapCycles)
  BY <1>1, <1>2, OneMore
<1>4. Type'
  BY <1>1, <1>3 DEF IInv, Type, recordAccess, Event, accounts, weaving
<1>5. ChainOK'
  BY <1>3 DEF ChainOK, recordAccess
<1>6. ReadyOK' /\ LastOK' /\ HaltedOK' /\ JoinedOK' /\ ActiveOK'
  BY <1>2, <1>3 DEF IInv, Type, ReadyOK, LastOK, HaltedOK, JoinedOK, ActiveOK,
         recordAccess, Event, runs, accounts, weaving, limit
<1> QED BY <1>4, <1>5, <1>6 DEF IInv

\* The chain up to curCycle, ended by an event without delay.
LEMMA Ended ==
    ASSUME NEW s \in Seq(Events), s # <<>>, NEW gap \in Int, NEW cur \in Int, Chained(s, cur, gap)
    PROVE  LET t == Append(s, Event(cur - gap, cur, 0, FALSE))
           IN  /\ t \in Seq(Events) /\ t # <<>> /\ t[1] = s[1]
               /\ Chained(t, cur, gap)
               /\ t[Len(t)].delay = 0 /\ t[Len(t)].access = FALSE
<1> DEFINE e == Event(cur - gap, cur, 0, FALSE)
<1>1. e \in Events /\ e.delay = 0 /\ e.access = FALSE
  BY DEF Event, Events
<1>2. Chained(Append(s, e), cur, gap)
  <2>1. cur + 0 = cur
    OBVIOUS
  <2> QED BY <2>1, Recorded
<1> HIDE DEF e
<1>3. /\ Append(s, e) \in Seq(Events) /\ Append(s, e) # <<>>
      /\ Append(s, e)[1] = s[1]
      /\ Append(s, e)[Len(Append(s, e))] = e
  BY <1>1, Appended
<1> QED BY <1>1, <1>2, <1>3 DEF e

LEMMA LeaveIInv == IInv /\ notifyLeave => IInv'
<1> SUFFICES ASSUME IInv, notifyLeave PROVE IInv'
  OBVIOUS
<1> DEFINE s == Append(chain, Event(prevRespCycle - gapCycles, prevRespCycle, curCycle - prevRespCycle, FALSE))
<1>1. /\ chain # <<>> /\ curCycle - prevRespCycle \in Nat
      /\ prevRespCycle + (curCycle - prevRespCycle) = curCycle
      /\ curCycle \in Int /\ gapCycles \in Int
  BY DEF IInv, Type, ActiveOK, notifyLeave
<1>2. s \in Seq(Events) /\ s # <<>> /\ s[1] = chain[1] /\ Chained(s, curCycle, gapCycles)
  BY <1>1, OneMore
<1>3. chain' = Append(s, Event(curCycle - gapCycles, curCycle, 0, FALSE)) /\ prevRespCycle' = curCycle
  BY DEF notifyLeave, taper
<1> HIDE DEF s
<1>4. /\ chain' \in Seq(Events) /\ chain' # <<>> /\ chain'[1] = chain[1]
      /\ Chained(chain', curCycle, gapCycles)
      /\ chain'[Len(chain')].access = FALSE
  BY <1>1, <1>2, <1>3, Ended
<1>5. Type'
  BY <1>3, <1>4 DEF IInv, Type, notifyLeave, taper, Event, accounts, weaving
<1>6. ChainOK'
  BY <1>3, <1>4 DEF ChainOK, notifyLeave
<1>7. ReadyOK' /\ LastOK' /\ HaltedOK' /\ JoinedOK' /\ ActiveOK'
  BY <1>1, <1>4 DEF IInv, Type, ReadyOK, LastOK, HaltedOK, JoinedOK, ActiveOK,
         notifyLeave, taper, Event, accounts, weaving, limit
<1> QED BY <1>5, <1>6, <1>7 DEF IInv

LEMMA SimStartIInv == IInv /\ cSimStart => IInv'
<1> SUFFICES ASSUME IInv, cSimStart PROVE IInv'
  OBVIOUS
<1>1. CASE state # "RUNNING"
  <2>1. chain' = chain /\ prevRespCycle' = prevRespCycle /\ curCycle' \in Int /\ curCycle' >= curCycle
        /\ (state = "DRAINING" => curCycle' >= limit)
    BY <1>1, RecorderAssumption DEF cSimStart, bringUp, limit, IInv, Type
  <2>2. Type'
    BY <2>1 DEF IInv, Type, cSimStart, Event, accounts, weaving
  <2>3. ChainOK' /\ ReadyOK' /\ LastOK' /\ HaltedOK' /\ JoinedOK' /\ ActiveOK'
    BY <1>1, <2>1 DEF IInv, Type, ChainOK, ReadyOK, LastOK, HaltedOK, JoinedOK, ActiveOK,
         cSimStart, Event, accounts, weaving, limit
  <2> QED BY <2>2, <2>3 DEF IInv
<1>2. CASE state = "RUNNING"
  <2> DEFINE s == IF prevRespCycle < curCycle
                  THEN Append(chain, Event(prevRespCycle - gapCycles, prevRespCycle,
                                           curCycle - prevRespCycle, FALSE))
                  ELSE chain
  <2>1. /\ chain # <<>> /\ curCycle - prevRespCycle \in Nat
        /\ prevRespCycle + (curCycle - prevRespCycle) = curCycle
        /\ curCycle \in Int /\ gapCycles \in Int
    BY <1>2 DEF IInv, Type, ActiveOK, cSimStart
  <2>2. s \in Seq(Events) /\ s # <<>> /\ s[1] = chain[1] /\ Chained(s, curCycle, gapCycles)
    <3>1. CASE prevRespCycle < curCycle
      BY <3>1, <2>1, OneMore
    <3>2. CASE ~ (prevRespCycle < curCycle)
      <4>1. prevRespCycle = curCycle
        BY <3>2 DEF IInv, Type
      <4> QED BY <3>2, <4>1, <2>1 DEF IInv, Type, ChainOK
    <3> QED BY <3>1, <3>2
  <2>3. /\ chain' = Append(s, Event(curCycle - gapCycles, curCycle, 0, FALSE))
        /\ prevRespCycle' = curCycle /\ curCycle' = curCycle
    BY <1>2 DEF cSimStart
  <2> HIDE DEF s
  <2>4. /\ chain' \in Seq(Events) /\ chain' # <<>> /\ chain'[1] = chain[1]
        /\ Chained(chain', curCycle, gapCycles)
        /\ chain'[Len(chain')].delay = 0 /\ chain'[Len(chain')].access = FALSE
    BY <2>1, <2>2, <2>3, Ended
  <2>5. Type'
    BY <2>3, <2>4 DEF IInv, Type, cSimStart, Event, accounts, weaving
  <2>6. ChainOK'
    BY <2>3, <2>4 DEF ChainOK, cSimStart
  <2>7. ReadyOK' /\ LastOK' /\ HaltedOK' /\ JoinedOK'
    BY <1>2, <2>1, <2>4 DEF IInv, Type, ReadyOK, LastOK, HaltedOK, JoinedOK,
           cSimStart, Event, accounts, weaving, limit
  <2>8. ActiveOK'
    <3>1. curCycle > limit /\ limit \in Int /\ limit' = limit
      BY <1>2, RecorderAssumption DEF cSimStart, limit, IInv, Type
    <3>2. UNCHANGED <<globPhaseCycles, totalHaltedCycles, ready, state>>
      BY DEF cSimStart, accounts, weaving
    <3>3. ~ chain'[Len(chain')].access
      BY <2>4, Zenon
    <3>4. prevRespCycle' = curCycle /\ curCycle' = curCycle
      BY <2>3
    <3> QED BY <1>2, <2>1, <2>4, <3>1, <3>2, <3>3, <3>4 DEF IInv, Type, ActiveOK
  <2> QED BY <2>5, <2>6, <2>7, <2>8 DEF IInv
<1> QED BY <1>1, <1>2

LEMMA SimulateIInv == IInv /\ simulate => IInv'
<1> SUFFICES ASSUME IInv, simulate PROVE IInv'
  OBVIOUS
<1>1. /\ chain \in Seq(Events) /\ chain # <<>> /\ prevRespCycle \in Int /\ gapCycles \in Int
      /\ Chained(chain, prevRespCycle, gapCycles)
  BY DEF IInv, Type, ChainOK, simulate
<1>2. /\ chain' \in Seq(Events) /\ Len(chain) \in Nat /\ Len(chain') = Len(chain) - 1
      /\ Chained(chain', prevRespCycle, gapCycles)
      /\ chain' # <<>> => /\ Len(chain) > 1
                          /\ chain'[1].orig = chain[1].orig + chain[1].delay
                          /\ chain'[Len(chain')] = chain[Len(chain)]
      /\ chain' = <<>> => Len(chain) = 1
  BY <1>1, Shortened DEF simulate
<1>3. PICK e \in Events : e = chain[1]
  BY <1>1
<1>4. e.orig \in Int /\ e.delay \in Nat /\ e.access \in BOOLEAN
  BY DEF Events
<1>5. PICK n \in Nat :
          /\ ~ e.access => n = 0
          /\ ready' = ready + e.delay + n
          /\ delayed' = [last |-> delayed.ready, ready |-> delayed.ready + n]
  BY <1>3, <1>4, RecorderAssumption DEF simulate
<1>6. /\ last' = [orig |-> e.orig, start |-> ready] /\ ready < limit /\ phase = "weave"
      /\ UNCHANGED <<phase, globPhaseCycles, state, curCycle, gapCycles, prevRespCycle,
                     totalGapCycles, totalHaltedCycles, lastUnhaltedCycle>>
  BY <1>3 DEF simulate, accounts
<1>7. /\ last' \in Simulated /\ last' # None /\ last'.orig = e.orig /\ last'.start = ready
      /\ delayed' \in Accounts /\ delayed'.last = delayed.ready /\ delayed'.ready = delayed.ready + n
      /\ delayed.ready \in Int
  BY <1>4, <1>5, <1>6, NotNone DEF IInv, Type, Simulated, Accounts
<1>8. Type'
  BY <1>2, <1>4, <1>5, <1>6, <1>7 DEF IInv, Type
<1>9. ChainOK'
  BY <1>2, <1>6 DEF ChainOK
<1>10. state # "HALTED"
  BY <1>1 DEF IInv, HaltedOK
<1>11. /\ ready >= e.orig + gapCycles
       /\ delayed.ready = totalGapCycles + (ready - e.orig)
  BY <1>1, <1>3 DEF IInv, ReadyOK
<1>12. ReadyOK'
  <2>1. delayed'.last <= delayed'.ready
    BY <1>7
  <2>2. ready \in Int /\ totalGapCycles \in Int /\ gapCycles \in Int
    BY DEF IInv, Type
  <2>3. ASSUME chain' # <<>>
        PROVE  /\ ready' >= chain'[1].orig + gapCycles
               /\ delayed'.ready = totalGapCycles + (ready' - chain'[1].orig)
    <3>1. chain'[1].orig = e.orig + e.delay
      BY <1>2, <1>3, <2>3
    <3>2. ready' = ready + e.delay + n /\ delayed'.ready = delayed.ready + n
      BY <1>5, <1>7
    <3> QED BY <3>1, <3>2, <1>4, <1>11, <2>2
  <2> QED BY <1>6, <2>1, <2>3 DEF ReadyOK
<1>13. limit' = limit
  BY <1>6 DEF limit
<1>14. LastOK' /\ HaltedOK' /\ JoinedOK'
  BY <1>4, <1>6, <1>7, <1>10, <1>11, <1>13 DEF LastOK, HaltedOK, JoinedOK, ActiveOK, IInv, Type
<1>15. ActiveOK'
  <2>1. state = "RUNNING" => chain' # <<>>
    <3> SUFFICES ASSUME state = "RUNNING", chain' = <<>> PROVE FALSE
      OBVIOUS
    <3>1. Len(chain) = 1
      BY <1>2
    <3>2. e.orig + e.delay = prevRespCycle - gapCycles /\ e.delay = 0
      BY <3>1, <1>1, <1>3, <1>6 DEF Chained, ActiveOK, IInv
    <3>3. ready >= curCycle /\ curCycle > limit
      BY <3>2, <1>4, <1>6, <1>11 DEF ActiveOK, IInv, Type
    <3> QED BY <3>3, <1>6, RecorderAssumption DEF IInv, Type, limit
  <2>2. chain' = <<>> => delayed'.ready = delayed'.last
    <3> SUFFICES ASSUME chain' = <<>> PROVE n = 0
      BY <1>7
    <3>1. ~ e.access
      BY <1>1, <1>2, <1>3, <1>6, <1>10 DEF IInv, ActiveOK
    <3> QED BY <3>1, <1>5
  <2>3. ready' >= ready /\ ready \in Int
    BY <1>4, <1>5 DEF IInv, Type
  <2>4. chain' # <<>> =>
           /\ ~ chain'[Len(chain')].access
           /\ state = "RUNNING" => chain'[Len(chain')].delay = 0
    BY <1>1, <1>2, <1>6, <1>10 DEF IInv, ActiveOK
  <2> QED BY <1>5, <1>6, <1>10, <1>13, <2>1, <2>2, <2>3, <2>4 DEF ActiveOK, IInv, Type
<1> QED BY <1>8, <1>9, <1>12, <1>14, <1>15 DEF IInv

\* At the end of a weave phase of a core that is not halted some event was
\* simulated, and the gap only grows.
LEMMA WeaveEnds ==
    ASSUME IInv, phase = "weave", state # "HALTED", chain = <<>> \/ ready >= limit
    PROVE  /\ last # None /\ last \in Simulated /\ last.orig \in Int /\ last.start \in Int
           /\ last.start >= last.orig + gapCycles /\ last.start < limit /\ limit \in Int
           /\ skew \in Nat /\ gapCycles + skew = last.start - last.orig
<1>1. limit \in Int /\ globPhaseCycles < limit
  BY RecorderAssumption DEF limit, IInv, Type
<1>2. last # None
  BY <1>1 DEF IInv, Type, JoinedOK
<1>3. last \in Simulated /\ last.orig \in Int /\ last.start \in Int
  BY <1>2 DEF IInv, Type, Simulated
<1>4. last.start >= last.orig + gapCycles /\ last.start < limit
  BY <1>2 DEF IInv, LastOK
<1> QED BY <1>1, <1>2, <1>3, <1>4 DEF skew, lastEvCycle1, lastEvCycle2, IInv, Type

\* A chain stays one when the clock and the gap move together.
LEMMA Skewed ==
    ASSUME NEW s \in Seq(Events), NEW prev \in Int, NEW gap \in Int, NEW k \in Nat, Chained(s, prev, gap)
    PROVE  Chained(s, prev + k, gap + k)
<1>1. \A i \in 1 .. Len(s) : s[i].min \in Int /\ s[i].orig \in Int /\ s[i].delay \in Nat
  BY Members
<1>2. s # <<>> => Len(s) \in 1 .. Len(s)
  BY Members
<1>3. \A i \in 1 .. Len(s) : s[i].min <= s[i].orig + (gap + k)
  BY <1>1 DEF Chained
<1>4. s # <<>> => s[Len(s)].orig + s[Len(s)].delay = (prev + k) - (gap + k)
  BY <1>1, <1>2 DEF Chained
<1> QED BY <1>3, <1>4 DEF Chained

LEMMA SimEndIInv == IInv /\ cSimEnd => IInv'
<1> SUFFICES ASSUME IInv, cSimEnd PROVE IInv'
  OBVIOUS
<1>1. /\ limit \in Int /\ globPhaseCycles < limit /\ globPhaseCycles' = limit
      /\ limit' \in Int /\ limit < limit' /\ phase' = "bound" /\ phase = "weave"
      /\ chain = <<>> \/ ready >= limit
      /\ UNCHANGED <<totalGapCycles, totalHaltedCycles, chain, ready, delayed>>
  BY RecorderAssumption DEF limit, IInv, Type, cSimEnd
<1>2. CASE state = "HALTED"
  <2>1. UNCHANGED <<curCycle, gapCycles, prevRespCycle, state, lastUnhaltedCycle, last>>
    BY <1>2 DEF cSimEnd
  <2>2. Type' /\ ChainOK' /\ ReadyOK'
    BY <1>1, <2>1 DEF IInv, Type, ChainOK, ReadyOK
  <2>3. LastOK' /\ HaltedOK' /\ JoinedOK' /\ ActiveOK'
    BY <1>1, <1>2, <2>1 DEF IInv, Type, LastOK, HaltedOK, JoinedOK, ActiveOK
  <2> QED BY <2>2, <2>3 DEF IInv
<1>3. CASE state # "HALTED"
  <2>1. PICK k \in Nat : k = skew
    BY <1>1, <1>3, WeaveEnds
  <2>2. /\ last # None /\ last \in Simulated /\ last.orig \in Int /\ last.start \in Int
        /\ last.start >= last.orig + gapCycles /\ last.start < limit
        /\ gapCycles + k = last.start - last.orig
    BY <1>1, <1>3, <2>1, WeaveEnds
  <2>3. /\ curCycle' = curCycle + k /\ gapCycles' = gapCycles + k /\ prevRespCycle' = prevRespCycle + k
        /\ chain = <<>> => state' = "HALTED" /\ lastUnhaltedCycle' = last.start /\ last' = None
        /\ chain # <<>> => UNCHANGED <<state, lastUnhaltedCycle, last>>
    BY <1>3, <2>1 DEF cSimEnd, drained
  <2>4. Type'
    BY <1>1, <2>2, <2>3 DEF IInv, Type
  <2>5. ChainOK'
    BY <1>1, <2>3, Skewed DEF IInv, Type, ChainOK
  <2>6. delayed.last = totalGapCycles + (last.start - last.orig) /\ delayed.last \in Int /\ delayed.ready \in Int
    BY <2>2 DEF IInv, LastOK, Type, Accounts
  <2>7. chain # <<>> => chain[1].orig \in Int
    BY Members DEF IInv, Type
  <2>8. ReadyOK'
    BY <1>1, <2>2, <2>3, <2>6, <2>7 DEF IInv, Type, ReadyOK
  <2>9. LastOK'
    BY <1>1, <2>2, <2>3, <2>6 DEF IInv, Type, LastOK
  <2>10. HaltedOK'
    BY <1>1, <1>3, <2>2, <2>3, <2>6 DEF IInv, Type, HaltedOK, ActiveOK, LastOK
  <2>11. JoinedOK'
    BY <1>1, <2>2, <2>3 DEF JoinedOK
  <2>12. ActiveOK'
    BY <1>1, <1>3, <2>3 DEF IInv, Type, ActiveOK
  <2> QED BY <2>4, <2>5, <2>8, <2>9, <2>10, <2>11, <2>12 DEF IInv
<1> QED BY <1>2, <1>3

LEMMA NextIInv == IInv /\ [Next]_vars => IInv'
<1> SUFFICES ASSUME IInv, [Next]_vars PROVE IInv'
  OBVIOUS
<1>1. CASE UNCHANGED vars
  BY <1>1 DEF vars, IInv, Type, ChainOK, ReadyOK, LastOK, HaltedOK, JoinedOK, ActiveOK, limit
<1>2. CASE Stop
  BY <1>1, <1>2 DEF Stop
<1> QED
  BY <1>1, <1>2, JoinHaltedIInv, JoinDrainingIInv, WorkIInv, RecordAccessIInv, LeaveIInv,
     SimStartIInv, SimulateIInv, SimEndIInv DEF Next, Weave

-----------------------------------------------------------------------------
LEMMA AlwaysIInv == Spec => []IInv
  BY InitIInv, NextIInv, PTL DEF Spec

\* The recorder's assertions about the skew hold and no event is queued before
\* its minimum start, for every length of a phase, any number of phases and
\* events, and whatever work, latencies and contention the core meets
\* (cSimEnd and the chain of core_recorder.cpp).
THEOREM SkewTheorem == Spec => []SkewIsSound
<1>1. IInv => SkewIsSound
  <2> SUFFICES ASSUME IInv PROVE SkewIsSound
    OBVIOUS
  <2>1. ASSUME phase = "weave", state # "HALTED", chain = <<>> \/ ready >= limit
        PROVE  last # None /\ lastEvCycle1 <= curCycle /\ lastEvCycle2 <= curCycle
               /\ lastEvCycle1 <= lastEvCycle2
    <3>1. curCycle >= limit
      BY <2>1 DEF IInv, ActiveOK
    <3> QED BY <2>1, <3>1, WeaveEnds DEF lastEvCycle1, lastEvCycle2, IInv, Type
  <2>2. ASSUME chain # <<>> PROVE ready >= chain[1].min
    <3>1. chain[1] \in Events /\ 1 \in 1 .. Len(chain)
      BY <2>2, EmptySeq DEF IInv, Type
    <3>2. chain[1].min <= chain[1].orig + gapCycles /\ ready >= chain[1].orig + gapCycles
      BY <2>2, <3>1 DEF IInv, ChainOK, Chained, ReadyOK
    <3> QED BY <3>1, <3>2 DEF IInv, Type, Events
  <2> QED BY <2>1, <2>2 DEF SkewIsSound
<1> QED BY <1>1, AlwaysIInv, PTL

\* In the same generality: the cycles of contention the recorder reports are
\* exactly those its last simulated event was delayed by, and the unhalted
\* cycles are never negative (getContentionCycles, getUnhaltedCycles).
THEOREM ContentionTheorem == Spec => []ContentionAccounted
<1>1. IInv => ContentionAccounted
  <2> SUFFICES ASSUME IInv PROVE ContentionAccounted
    OBVIOUS
  <2>1. ASSUME phase = "bound", state # "HALTED"
        PROVE  totalGapCycles + gapCycles = delayed.last
    <3>1. CASE last = None
      BY <2>1, <3>1 DEF IInv, JoinedOK, Type
    <3>2. CASE last # None
      <4>1. last.orig \in Int /\ last.start \in Int
        BY <3>2 DEF IInv, Type, Simulated
      <4> QED BY <2>1, <3>2, <4>1 DEF IInv, LastOK, Type
    <3> QED BY <3>1, <3>2
  <2>2. getUnhaltedCycles >= 0
    BY DEF getUnhaltedCycles, IInv, Type, HaltedOK, ActiveOK
  <2> QED BY <2>1, <2>2 DEF ContentionAccounted
<1> QED BY <1>1, AlwaysIInv, PTL

=============================================================================
