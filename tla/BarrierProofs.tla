----------------------------- MODULE BarrierProofs -----------------------------
(***************************************************************************)
(* Proofs about the phase barrier for every number of threads, every limit *)
(* on the threads that run at a time and every cleanup period.             *)
(***************************************************************************)
EXTENDS Barrier, Functions, FiniteSetTheorems, TLAPS

-----------------------------------------------------------------------------
(* Counting.                                                               *)

\* A list of n different members of S has at most as many entries as S has
\* members, and exactly as many when it names them all.
LEMMA DistinctEntries ==
    ASSUME NEW S, IsFiniteSet(S), NEW n \in Nat, NEW f,
           \A k \in 0 .. n - 1 : f[k] \in S,
           \A a, b \in 0 .. n - 1 : f[a] = f[b] => a = b
    PROVE  /\ n <= Cardinality(S)
           /\ (\A s \in S : \E k \in 0 .. n - 1 : f[k] = s) => n = Cardinality(S)
<1> DEFINE g == [k \in 0 .. n - 1 |-> f[k]]
<1>1. g \in Injection(0 .. n - 1, S)
  BY DEF Injection, IsInjective
<1>2. Cardinality(0 .. n - 1) = n
  BY FS_Interval
<1>3. Cardinality(S) \in Nat
  BY FS_CardinalityType
<1>4. /\ Cardinality(0 .. n - 1) <= Cardinality(S)
      /\ Cardinality(0 .. n - 1) = Cardinality(S) <=> g \in Surjection(0 .. n - 1, S)
  <2> HIDE DEF g
  <2> QED BY <1>1, FS_Injection
<1>5. ASSUME \A s \in S : \E k \in 0 .. n - 1 : f[k] = s
      PROVE  g \in Surjection(0 .. n - 1, S)
  BY <1>1, <1>5 DEF Surjection, Injection
<1> QED BY <1>2, <1>3, <1>4, <1>5

LEMMA TidsFinite == IsFiniteSet(Tids) /\ Cardinality(Tids) = MAX_THREADS
  BY FS_Interval, ThreadsAssumption DEF Tids

-----------------------------------------------------------------------------
(* The inductive invariant behind the counters and the list.               *)

Listed(n) ==
    /\ \A a, b \in 0 .. n - 1 : runList[a] = runList[b] => a = b
    /\ \A k \in 0 .. n - 1 : state[runList[k]] # "OFFLINE"
    /\ \A t \in Tids : state[t] # "OFFLINE" => \E k \in 0 .. n - 1 : runList[k] = t

Counted ==
    /\ runningThreads = Cardinality(InState("RUNNING"))
    /\ runningThreads <= parallelThreads
    /\ leftThreads = Cardinality(InState("LEFT")) + (runListSize - LiveSize)

Armed ==
    \A t \in Tids :
        /\ state[t] = "WAITING" => futexWord[t] = 1
        /\ place[t] = "out" <=> state[t] \in {"OFFLINE", "LEFT"}
        /\ place[t] = "in" => state[t] = "RUNNING"

AtStage ==
    /\ pc \in {"clean", "shuffle"} => curThreadIdx = 0 /\ runningThreads = 0
    /\ pc = "clean" => newSize <= runListSize /\ \A k \in 0 .. idx - 1 : state[runList[k]] # "LEFT"
    /\ pc \in {"futex1", "futex2"} =>
          curThreadIdx > 0 /\ futexWord[runList[curThreadIdx - 1]] = 1 /\ state[runList[curThreadIdx - 1]] = "RUNNING"

Consistent == TypeOK /\ Listed(LiveSize) /\ Counted /\ Armed /\ AtStage

LEMMA InitConsistent == Init => Consistent
<1> SUFFICES ASSUME Init PROVE Consistent
  OBVIOUS
<1> USE ThreadsAssumption, ParallelAssumption, PeriodAssumption
<1>1. TypeOK
  BY DEF Init, TypeOK, Tids, States, Loops
<1>2. InState("RUNNING") = {} /\ InState("LEFT") = {}
  BY DEF Init, InState
<1>3. Counted
  BY <1>2, FS_EmptySet DEF Init, Counted, LiveSize
<1>4. Listed(LiveSize)
  BY DEF Init, Listed, LiveSize
<1>5. Armed /\ AtStage
  BY DEF Init, Armed, AtStage
<1> QED BY <1>1, <1>3, <1>4, <1>5 DEF Consistent

\* The effect on the counts of a step that changes the state of thread t.
Moves(t, b) == state' = [state EXCEPT ![t] = b]

LEMMA StateChange ==
    ASSUME TypeOK, NEW t \in Tids, NEW b \in States, Moves(t, b), NEW s \in States
    PROVE  LET before == Cardinality(InState(s))
               after == Cardinality({x \in Tids : state'[x] = s})
           IN  /\ before \in Nat /\ after \in Nat
               /\ (s = b /\ state[t] # b) => after = before + 1
               /\ (s # b /\ s = state[t]) => after = before - 1 /\ before > 0
               /\ (s = b <=> state[t] = s) => after = before
<1> DEFINE F == InState(s)
           G == {x \in Tids : state'[x] = s}
<1>1. IsFiniteSet(F) /\ IsFiniteSet(G)
  BY TidsFinite, FS_Subset DEF InState
<1>2. Cardinality(F) \in Nat /\ Cardinality(G) \in Nat
  BY <1>1, FS_CardinalityType
<1>3. \A x \in Tids : state'[x] = IF x = t THEN b ELSE state[x]
  BY DEF TypeOK, Moves
<1>4. CASE s = b /\ state[t] # b
  <2>1. G = F \cup {t} /\ t \notin F
    BY <1>3, <1>4 DEF InState
  <2> QED BY <1>1, <1>2, <1>4, <2>1, FS_AddElement
<1>5. CASE s # b /\ s = state[t]
  <2>1. G = F \ {t} /\ t \in F
    BY <1>3, <1>5 DEF InState
  <2>2. Cardinality(G) = Cardinality(F) - 1
    BY <1>1, <2>1, FS_RemoveElement
  <2> QED BY <1>2, <1>5, <2>2
<1>6. CASE s = b <=> state[t] = s
  <2>1. G = F
    BY <1>3, <1>6 DEF InState
  <2> QED BY <1>2, <1>6, <2>1
<1> QED BY <1>2, <1>4, <1>5, <1>6

Ones(p) == IF p THEN 1 ELSE 0

LEMMA CountsAfter ==
    ASSUME TypeOK, NEW t \in Tids, NEW b \in States, Moves(t, b)
    PROVE  /\ Cardinality(InState("RUNNING")) \in Nat
           /\ Cardinality(InState("LEFT")) \in Nat
           /\ state[t] = "RUNNING" => Cardinality(InState("RUNNING")) > 0
           /\ state[t] = "LEFT" => Cardinality(InState("LEFT")) > 0
           /\ Cardinality(InState("RUNNING")') =
                Cardinality(InState("RUNNING")) + Ones(b = "RUNNING") - Ones(state[t] = "RUNNING")
           /\ Cardinality(InState("LEFT")') =
                Cardinality(InState("LEFT")) + Ones(b = "LEFT") - Ones(state[t] = "LEFT")
<1>1. ASSUME NEW s \in States
      PROVE  /\ Cardinality(InState(s)) \in Nat
             /\ state[t] = s => Cardinality(InState(s)) > 0
             /\ Cardinality(InState(s)') = Cardinality(InState(s)) + Ones(b = s) - Ones(state[t] = s)
  <2>1. InState(s)' = {x \in Tids : state'[x] = s}
    BY DEF InState
  <2> DEFINE before == Cardinality(InState(s))
             after == Cardinality({x \in Tids : state'[x] = s})
  <2>2. /\ before \in Nat /\ after \in Nat
        /\ (s = b /\ state[t] # b) => after = before + 1
        /\ (s # b /\ s = state[t]) => after = before - 1 /\ before > 0
        /\ (s = b <=> state[t] = s) => after = before
    BY StateChange
  <2>3. state[t] = s => before > 0
    <3>1. ASSUME state[t] = s PROVE before # 0
      <4>1. t \in InState(s) /\ IsFiniteSet(InState(s))
        BY <3>1, TidsFinite, FS_Subset DEF InState
      <4> QED BY <4>1, FS_EmptySet
    <3> QED BY <2>2, <3>1
  <2>4. Cardinality(InState(s)') = after
    BY <2>1
  <2> HIDE DEF before, after
  <2>5. after = before + Ones(b = s) - Ones(state[t] = s)
    BY <2>2 DEF Ones
  <2> QED BY <2>2, <2>3, <2>4, <2>5 DEF before
<1> QED BY <1>1 DEF States

\* What the list looks like while nobody cleans it.
LEMMA ListFacts ==
    ASSUME Consistent, pc # "clean"
    PROVE  /\ runListSize \in Nat /\ curThreadIdx \in Nat /\ curThreadIdx <= runListSize
           /\ \A k \in 0 .. runListSize - 1 : k \in Tids /\ runList[k] \in Tids /\ state[runList[k]] # "OFFLINE"
           /\ \A a, b \in 0 .. runListSize - 1 : runList[a] = runList[b] => a = b
           /\ \A t \in Tids : state[t] # "OFFLINE" => \E k \in 0 .. runListSize - 1 : runList[k] = t
           /\ runList \in [Tids -> Tids]
<1>1. runListSize \in 0 .. MAX_THREADS /\ curThreadIdx \in 0 .. runListSize /\ runList \in [Tids -> Tids]
  BY DEF Consistent, TypeOK
<1>2. \A k \in 0 .. runListSize - 1 : k \in Tids
  BY <1>1, ThreadsAssumption DEF Tids
<1>3. Listed(runListSize)
  BY DEF Consistent, LiveSize
<1>4. \A k \in 0 .. runListSize - 1 : k \in Tids /\ runList[k] \in Tids /\ state[runList[k]] # "OFFLINE"
  BY <1>1, <1>2, <1>3 DEF Listed
<1>5. runListSize \in Nat /\ curThreadIdx \in Nat /\ curThreadIdx <= runListSize
  BY <1>1
<1> QED BY <1>1, <1>3, <1>4, <1>5 DEF Listed

\* The part of TypeOK that does not concern the list.
OtherTypes ==
    /\ state \in [Tids -> States]
    /\ futexWord \in [Tids -> {0, 1}]
    /\ runningThreads \in Nat /\ leftThreads \in Nat
    /\ phaseCount \in 0 .. CleanupPeriod - 1
    /\ pc \in Loops \cup {"free"}
    /\ caller \in [op : {"none", "join", "leave", "sync"}, tid : Tids]
    /\ newSize \in 0 .. MAX_THREADS /\ idx \in 0 .. newSize
    /\ place \in [Tids -> {"out", "wait", "in"}]

ListTypes ==
    /\ lastIdx \in [Tids -> Tids]
    /\ runList \in [Tids -> Tids]
    /\ runListSize \in 0 .. MAX_THREADS
    /\ curThreadIdx \in 0 .. runListSize

LEMMA TypeParts == TypeOK <=> ListTypes /\ OtherTypes
  BY DEF TypeOK, ListTypes, OtherTypes

\* A join: the list grows by the thread, or the thread trades places with
\* the last one the wake-up loop has passed.
LEMMA JoinConsistent ==
    ASSUME Consistent, NEW t \in Tids, join(t)
    PROVE  Consistent'
<1>0. TypeOK /\ ListTypes /\ OtherTypes /\ Counted /\ Armed /\ AtStage /\ MAX_THREADS \in Nat \ {0}
  BY TypeParts, ThreadsAssumption DEF Consistent
<1>1. /\ pc = "free" /\ pc' = "wake1" /\ LiveSize = runListSize /\ LiveSize' = runListSize'
      /\ state' = [state EXCEPT ![t] = "WAITING"] /\ futexWord' = [futexWord EXCEPT ![t] = 1]
      /\ place' = [place EXCEPT ![t] = "wait"] /\ caller' = [op |-> "join", tid |-> t]
      /\ UNCHANGED <<runningThreads, phaseCount, idx, newSize>>
  BY DEF join, tryWakeNext, LiveSize
<1>2. Armed' /\ AtStage'
  BY <1>0, <1>1 DEF OtherTypes, Armed, AtStage
<1>3. /\ \A k \in 0 .. runListSize - 1 : k \in Tids /\ runList[k] \in Tids /\ state[runList[k]] # "OFFLINE"
      /\ \A a, b \in 0 .. runListSize - 1 : runList[a] = runList[b] => a = b
      /\ \A x \in Tids : state[x] # "OFFLINE" => \E k \in 0 .. runListSize - 1 : runList[k] = x
      /\ runListSize \in Nat /\ curThreadIdx \in Nat /\ curThreadIdx <= runListSize
      /\ runList \in [Tids -> Tids]
  BY <1>1, ListFacts
<1>4. \A x \in Tids : state'[x] = IF x = t THEN "WAITING" ELSE state[x]
  BY <1>0, <1>1 DEF OtherTypes
<1>5. leftThreads' \in Nat => OtherTypes'
  BY <1>0, <1>1 DEF OtherTypes, States, Loops
<1>6. /\ Cardinality(InState("RUNNING")') = Cardinality(InState("RUNNING"))
      /\ state[t] = "OFFLINE" => Cardinality(InState("LEFT")') = Cardinality(InState("LEFT"))
      /\ state[t] = "LEFT" => Cardinality(InState("LEFT")') = Cardinality(InState("LEFT")) - 1 /\ Cardinality(InState("LEFT")) > 0
      /\ state[t] \in {"OFFLINE", "LEFT"} /\ Cardinality(InState("LEFT")) \in Nat
  <2>1. state[t] \in {"OFFLINE", "LEFT"}
    BY DEF join, join_offline, join_left
  <2>2. Moves(t, "WAITING") /\ "WAITING" \in States
    BY <1>1 DEF Moves, States
  <2> QED BY <1>0, <2>1, <2>2, CountsAfter DEF Ones
<1>7. CASE join_offline(t)
  <2>1. /\ state[t] = "OFFLINE" /\ runList' = [runList EXCEPT ![runListSize] = t]
        /\ runListSize' = runListSize + 1
        /\ UNCHANGED <<lastIdx, curThreadIdx, leftThreads>>
    BY <1>7 DEF join_offline
  <2>2. runListSize < MAX_THREADS
    <3>1. \A k \in 0 .. runListSize - 1 : runList[k] \in Tids \ {t}
      BY <1>3, <2>1
    <3>2. IsFiniteSet(Tids \ {t}) /\ Cardinality(Tids \ {t}) = MAX_THREADS - 1
      BY TidsFinite, FS_RemoveElement
    <3>3. runListSize \in Nat /\ \A a, b \in 0 .. runListSize - 1 : runList[a] = runList[b] => a = b
      BY <1>3
    <3>4. runListSize <= Cardinality(Tids \ {t})
      BY <3>1, <3>2, <3>3, DistinctEntries
    <3> QED BY <1>0, <1>3, <3>2, <3>4
  <2>3. runListSize \in Tids
    BY <1>0, <1>3, <2>2 DEF Tids
  <2>4. ListTypes'
    BY <1>0, <2>1, <2>2, <2>3 DEF ListTypes
  <2>5. OtherTypes'
    BY <1>0, <1>5, <2>1 DEF OtherTypes
  <2>6. Listed(LiveSize)'
    <3>1. \A k \in 0 .. runListSize - 1 : runList'[k] = runList[k] /\ runList[k] # t
      BY <1>3, <2>1
    <3>2. runList'[runListSize] = t
      BY <1>3, <2>1, <2>3
    <3>3. \A k \in 0 .. runListSize' - 1 : k \in 0 .. runListSize - 1 \/ k = runListSize
      BY <1>3, <2>1
    <3>6. \A a, b \in 0 .. runListSize' - 1 : runList'[a] = runList'[b] => a = b
      BY <1>3, <3>1, <3>2, <3>3
    <3>7. \A k \in 0 .. runListSize' - 1 : state'[runList'[k]] # "OFFLINE"
      BY <1>3, <1>4, <3>1, <3>2, <3>3
    <3>8. ASSUME NEW x \in Tids, state'[x] # "OFFLINE"
          PROVE  \E k \in 0 .. runListSize' - 1 : runList'[k] = x
      <4>1. CASE x = t
        BY <1>3, <3>2, <4>1, <2>1
      <4>2. CASE x # t
        <5>1. PICK k \in 0 .. runListSize - 1 : runList[k] = x
          BY <1>3, <1>4, <3>8, <4>2
        <5> QED BY <1>3, <3>1, <5>1, <2>1
      <4> QED BY <4>1, <4>2
    <3> QED BY <1>1, <3>6, <3>7, <3>8 DEF Listed
  <2>7. Counted'
    BY <1>0, <1>1, <1>3, <1>6, <2>1 DEF Counted
  <2> QED BY <1>2, <2>4, <2>5, <2>6, <2>7, TypeParts DEF Consistent, TypeOK, ListTypes, OtherTypes
<1>8. CASE join_left(t)
  <2>1. /\ state[t] = "LEFT" /\ leftThreads' = leftThreads - 1 /\ runListSize' = runListSize
    BY <1>8 DEF join_left
  <2>2. Counted' /\ leftThreads' \in Nat
    BY <1>0, <1>1, <1>3, <1>6, <2>1 DEF Counted
  <2>3. SUFFICES ListTypes' /\ Listed(LiveSize)'
    BY <1>2, <1>5, <2>2 DEF Consistent, TypeOK, ListTypes, OtherTypes
  <2>4. CASE UNCHANGED <<runList, lastIdx, curThreadIdx>>
    <3>1. ListTypes'
      BY <1>0, <2>1, <2>4 DEF ListTypes
    <3>2. Listed(runListSize)'
      BY <1>3, <1>4, <2>1, <2>4 DEF Listed
    <3> QED BY <1>1, <3>1, <3>2
  <2>5. CASE curThreadIdx > lastIdx[t] /\ runList[lastIdx[t]] = t /\ ~ UNCHANGED <<runList, lastIdx, curThreadIdx>>
    <3> DEFINE c == curThreadIdx - 1
               l == lastIdx[t]
               other == runList[c]
    <3>0. lastIdx[t] \in Tids /\ lastIdx[t] \in Nat
      BY <1>0 DEF ListTypes, Tids
    <3>1. c \in 0 .. runListSize - 1 /\ l \in 0 .. runListSize - 1 /\ runList[l] = t
      BY <1>3, <2>5, <3>0
    <3>2. other \in Tids /\ c \in Tids /\ l \in Tids
      BY <1>3, <3>1
    <3>3. /\ runList' = [runList EXCEPT ![l] = other, ![c] = t]
          /\ lastIdx' = [lastIdx EXCEPT ![other] = l, ![t] = c]
          /\ curThreadIdx' = c
      BY <1>8, <2>5, <3>0 DEF join_left
    <3> HIDE DEF c, l, other
    <3>4. ListTypes'
      <4>1. runList' \in [Tids -> Tids] /\ lastIdx' \in [Tids -> Tids]
        BY <1>0, <3>2, <3>3 DEF ListTypes
      <4> QED BY <1>0, <2>1, <3>1, <3>3, <4>1 DEF ListTypes
    <3>5. \A k \in Tids : runList'[k] = IF k = c THEN t ELSE IF k = l THEN other ELSE runList[k]
      BY <1>3, <3>2, <3>3
    <3>6. \A k \in 0 .. runListSize - 1 : runList'[k] = IF k = c THEN t ELSE IF k = l THEN other ELSE runList[k]
      BY <1>3, <3>5
    <3>7. other = runList[c]
      BY DEF other
    <3>8. \A a, b \in 0 .. runListSize - 1 : runList'[a] = runList'[b] => a = b
      BY <1>3, <3>1, <3>6, <3>7
    <3>9. \A k \in 0 .. runListSize - 1 : state'[runList'[k]] # "OFFLINE"
      BY <1>3, <1>4, <3>1, <3>6, <3>7
    <3>10. ASSUME NEW x \in Tids, state'[x] # "OFFLINE"
           PROVE  \E k \in 0 .. runListSize - 1 : runList'[k] = x
      <4>1. CASE x = t
        BY <3>1, <3>6, <4>1
      <4>2. CASE x # t
        <5>1. PICK k \in 0 .. runListSize - 1 : runList[k] = x
          BY <1>3, <1>4, <3>10, <4>2
        <5>2. CASE k = c
          <6>1. c # l
            BY <3>1, <4>2, <5>1, <5>2
          <6> QED BY <3>1, <3>6, <3>7, <5>1, <5>2, <6>1
        <5>3. CASE k # c
          <6>1. k # l
            BY <3>1, <4>2, <5>1
          <6> QED BY <3>6, <5>1, <5>3, <6>1
        <5> QED BY <5>2, <5>3
      <4> QED BY <4>1, <4>2
    <3> QED BY <1>1, <2>1, <3>4, <3>8, <3>9, <3>10 DEF Listed
  <2> QED BY <1>8, <2>4, <2>5 DEF join_left
<1> QED BY <1>7, <1>8 DEF join

\* leave and sync: a thread stops running, or one that waits is taken out.
LEMMA StopConsistent ==
    ASSUME Consistent, NEW t \in Tids, leave_running(t) \/ leave_waiting(t) \/ sync(t)
    PROVE  Consistent'
<1>0. TypeOK /\ ListTypes /\ OtherTypes /\ Counted /\ Armed /\ AtStage
  BY TypeParts DEF Consistent
<1>1. PICK b \in {"LEFT", "WAITING"} : state' = [state EXCEPT ![t] = b]
  BY DEF leave_running, leave_waiting, sync
<1>2. /\ pc = "free" /\ pc' \in {"free", "wake1"} /\ LiveSize = runListSize /\ LiveSize' = runListSize
      /\ UNCHANGED <<lastIdx, runList, runListSize, curThreadIdx>>
  BY DEF leave_running, leave_waiting, sync, tryWakeNext, list, LiveSize
<1>3. \A x \in Tids : state'[x] = IF x = t THEN b ELSE state[x]
  BY <1>0, <1>1 DEF OtherTypes
<1>4. ListTypes' /\ AtStage'
  BY <1>0, <1>2 DEF ListTypes, AtStage
<1>5. Listed(LiveSize)'
  <2>1. /\ \A k \in 0 .. runListSize - 1 : runList[k] \in Tids /\ state[runList[k]] # "OFFLINE"
        /\ \A a, c \in 0 .. runListSize - 1 : runList[a] = runList[c] => a = c
        /\ \A x \in Tids : state[x] # "OFFLINE" => \E k \in 0 .. runListSize - 1 : runList[k] = x
    BY <1>2, ListFacts
  <2>2. \A x \in Tids : state'[x] # "OFFLINE" <=> state[x] # "OFFLINE"
    BY <1>3 DEF leave_running, leave_waiting, sync
  <2>3. Listed(runListSize)'
    BY <1>2, <2>1, <2>2 DEF Listed
  <2> QED BY <1>2, <2>3
<1>7. CASE leave_running(t)
  <2>1. /\ state[t] = "RUNNING" /\ state' = [state EXCEPT ![t] = "LEFT"]
        /\ runningThreads' = runningThreads - 1 /\ leftThreads' = leftThreads + 1
        /\ place' = [place EXCEPT ![t] = "out"] /\ caller' = [op |-> "leave", tid |-> t]
        /\ UNCHANGED <<futexWord, phaseCount, idx, newSize>>
    BY <1>7 DEF leave_running, tryWakeNext
  <2>2. /\ Cardinality(InState("RUNNING")') = Cardinality(InState("RUNNING")) - 1
        /\ Cardinality(InState("RUNNING")) > 0
        /\ Cardinality(InState("LEFT")') = Cardinality(InState("LEFT")) + 1
        /\ Cardinality(InState("LEFT")) \in Nat /\ Cardinality(InState("RUNNING")) \in Nat
    <3>1. Moves(t, "LEFT") /\ "LEFT" \in States
      BY <2>1 DEF Moves, States
    <3> QED BY <1>0, <2>1, <3>1, CountsAfter DEF Ones
  <2>3. runningThreads' \in Nat /\ leftThreads' \in Nat
    BY <1>0, <2>1, <2>2 DEF OtherTypes, Counted
  <2>4. OtherTypes'
    BY <1>0, <1>2, <2>1, <2>3 DEF OtherTypes, States, Loops
  <2>5. Counted'
    BY <1>0, <1>2, <2>1, <2>2, ParallelAssumption DEF Counted, OtherTypes, ListTypes
  <2>6. Armed'
    BY <1>0, <2>1 DEF Armed, OtherTypes
  <2> QED BY <1>4, <1>5, <2>4, <2>5, <2>6 DEF Consistent, TypeOK, ListTypes, OtherTypes
<1>8. CASE leave_waiting(t)
  <2>1. /\ state[t] = "WAITING" /\ state' = [state EXCEPT ![t] = "LEFT"]
        /\ leftThreads' = leftThreads + 1 /\ place' = [place EXCEPT ![t] = "out"]
        /\ UNCHANGED <<futexWord, runningThreads, phaseCount, caller, idx, newSize>>
    BY <1>8 DEF leave_waiting
  <2>2. /\ Cardinality(InState("RUNNING")') = Cardinality(InState("RUNNING"))
        /\ Cardinality(InState("LEFT")') = Cardinality(InState("LEFT")) + 1
        /\ Cardinality(InState("LEFT")) \in Nat
    <3>1. Moves(t, "LEFT") /\ "LEFT" \in States
      BY <2>1 DEF Moves, States
    <3> QED BY <1>0, <2>1, <3>1, CountsAfter DEF Ones
  <2>3. OtherTypes'
    BY <1>0, <1>2, <2>1 DEF OtherTypes, States, Loops
  <2>4. Counted'
    BY <1>0, <1>2, <2>1, <2>2 DEF Counted, OtherTypes, ListTypes
  <2>5. Armed'
    BY <1>0, <2>1 DEF Armed, OtherTypes
  <2> QED BY <1>4, <1>5, <2>3, <2>4, <2>5 DEF Consistent, TypeOK, ListTypes, OtherTypes
<1>9. CASE sync(t)
  <2>1. /\ state[t] = "RUNNING" /\ state' = [state EXCEPT ![t] = "WAITING"]
        /\ runningThreads' = runningThreads - 1 /\ futexWord' = [futexWord EXCEPT ![t] = 1]
        /\ place' = [place EXCEPT ![t] = "wait"] /\ caller' = [op |-> "sync", tid |-> t]
        /\ UNCHANGED <<leftThreads, phaseCount, idx, newSize>>
    BY <1>9 DEF sync, tryWakeNext
  <2>2. /\ Cardinality(InState("RUNNING")') = Cardinality(InState("RUNNING")) - 1
        /\ Cardinality(InState("RUNNING")) > 0
        /\ Cardinality(InState("LEFT")') = Cardinality(InState("LEFT"))
    <3>1. Moves(t, "WAITING") /\ "WAITING" \in States
      BY <2>1 DEF Moves, States
    <3> QED BY <1>0, <2>1, <3>1, CountsAfter DEF Ones
  <2>3. runningThreads' \in Nat
    BY <1>0, <2>1, <2>2 DEF OtherTypes, Counted
  <2>4. OtherTypes'
    BY <1>0, <1>2, <2>1, <2>3 DEF OtherTypes, States, Loops
  <2>5. Counted'
    BY <1>0, <1>2, <2>1, <2>2, ParallelAssumption DEF Counted, OtherTypes, ListTypes
  <2>6. Armed'
    BY <1>0, <2>1 DEF Armed, OtherTypes
  <2> QED BY <1>4, <1>5, <2>4, <2>5, <2>6 DEF Consistent, TypeOK, ListTypes, OtherTypes
<1> QED BY <1>7, <1>8, <1>9

\* One round of the wake-up loop.
LEMMA WakeConsistent ==
    ASSUME Consistent, wake_next
    PROVE  Consistent'
<1> DEFINE w == runList[curThreadIdx]
<1>0. TypeOK /\ ListTypes /\ OtherTypes /\ Counted /\ Armed /\ AtStage
  BY TypeParts DEF Consistent
<1>1. /\ pc \in {"wake1", "wake2"} /\ LiveSize = runListSize /\ LiveSize' = runListSize
      /\ pc' \in {"wake1", "futex1", "wake2", "futex2"}
      /\ runningThreads < parallelThreads /\ curThreadIdx < runListSize
      /\ curThreadIdx' = curThreadIdx + 1
      /\ UNCHANGED <<runList, runListSize, leftThreads, phaseCount, caller, idx, newSize, place>>
  BY DEF wake_next, CanWake, LiveSize
<1>2. /\ \A k \in 0 .. runListSize - 1 : k \in Tids /\ runList[k] \in Tids /\ state[runList[k]] # "OFFLINE"
      /\ \A a, c \in 0 .. runListSize - 1 : runList[a] = runList[c] => a = c
      /\ \A x \in Tids : state[x] # "OFFLINE" => \E k \in 0 .. runListSize - 1 : runList[k] = x
      /\ runListSize \in Nat /\ curThreadIdx \in Nat
  BY <1>1, ListFacts
<1>3. w \in Tids /\ curThreadIdx \in Tids
  BY <1>1, <1>2
<1>5. CASE UNCHANGED <<threads, runningThreads, pc>>
  <2>1. OtherTypes' /\ ListTypes' /\ Armed' /\ AtStage'
    BY <1>0, <1>1, <1>2, <1>5 DEF OtherTypes, ListTypes, Armed, AtStage, threads
  <2>2. Listed(runListSize)'
    BY <1>1, <1>2, <1>5 DEF Listed, threads
  <2>3. Counted'
    BY <1>0, <1>1, <1>5 DEF Counted, InState, threads
  <2> QED BY <1>1, <2>1, <2>2, <2>3 DEF Consistent, TypeOK, ListTypes, OtherTypes
<1>6. CASE /\ state[w] = "WAITING" /\ state' = [state EXCEPT ![w] = "RUNNING"]
           /\ lastIdx' = [lastIdx EXCEPT ![w] = curThreadIdx]
           /\ pc' = IF pc = "wake1" THEN "futex1" ELSE "futex2"
           /\ runningThreads' = runningThreads + 1 /\ UNCHANGED futexWord
  <2>0. w = runList[curThreadIdx]
    OBVIOUS
  <2> HIDE DEF w
  <2>1. \A x \in Tids : state'[x] = IF x = w THEN "RUNNING" ELSE state[x]
    BY <1>0, <1>6 DEF OtherTypes
  <2>2. ListTypes'
    BY <1>0, <1>1, <1>2, <1>3, <1>6 DEF ListTypes
  <2>3. OtherTypes'
    BY <1>0, <1>1, <1>3, <1>6 DEF OtherTypes, States, Loops
  <2>6. AtStage'
    BY <1>0, <1>1, <1>2, <1>3, <1>6, <2>0, <2>1 DEF AtStage, Armed
  <2>4. Armed'
    BY <1>0, <1>1, <1>3, <1>6 DEF Armed, OtherTypes
  <2>5. Listed(runListSize)'
    <3>1. \A x \in Tids : state'[x] # "OFFLINE" <=> state[x] # "OFFLINE"
      BY <1>6, <2>1
    <3> QED BY <1>1, <1>2, <3>1 DEF Listed
  <2>7. /\ Cardinality(InState("RUNNING")') = Cardinality(InState("RUNNING")) + 1
        /\ Cardinality(InState("LEFT")') = Cardinality(InState("LEFT"))
    <3>1. Moves(w, "RUNNING") /\ "RUNNING" \in States
      BY <1>6 DEF Moves, States
    <3> QED BY <1>0, <1>3, <1>6, <3>1, CountsAfter DEF Ones
  <2>8. Counted'
    BY <1>0, <1>1, <1>6, <2>7, ParallelAssumption DEF Counted, OtherTypes
  <2> QED BY <1>1, <2>2, <2>3, <2>4, <2>6, <2>5, <2>8 DEF Consistent, TypeOK, ListTypes, OtherTypes
<1> QED BY <1>5, <1>6 DEF wake_next

\* The futexWord of the thread that was woken is cleared.
LEMMA FutexConsistent ==
    ASSUME Consistent, wake_futex
    PROVE  Consistent'
<1> DEFINE w == runList[curThreadIdx - 1]
<1>0. TypeOK /\ ListTypes /\ OtherTypes /\ Counted /\ Armed /\ AtStage /\ Listed(LiveSize)
  BY TypeParts DEF Consistent
<1>1. /\ pc \in {"futex1", "futex2"} /\ pc' \in {"wake1", "wake2"}
      /\ futexWord' = [futexWord EXCEPT ![w] = 0]
      /\ UNCHANGED <<state, lastIdx, runList, runListSize, curThreadIdx, runningThreads, leftThreads,
                     phaseCount, caller, idx, newSize, place>>
  BY DEF wake_futex, list, counts
<1>2. LiveSize = runListSize /\ LiveSize' = runListSize
  BY <1>1 DEF LiveSize
<1>3. w \in Tids /\ state[w] = "RUNNING"
  <2>1. curThreadIdx - 1 \in 0 .. runListSize - 1 /\ state[w] = "RUNNING"
    BY <1>0, <1>1, ThreadsAssumption DEF AtStage, ListTypes
  <2>2. \A k \in 0 .. runListSize - 1 : runList[k] \in Tids
    BY <1>1, ListFacts
  <2> QED BY <2>1, <2>2
<1> HIDE DEF w
<1>4. ListTypes' /\ OtherTypes' /\ AtStage'
  BY <1>0, <1>1, <1>3 DEF ListTypes, OtherTypes, AtStage, Loops
<1>5. Armed'
  BY <1>0, <1>1, <1>3 DEF Armed, OtherTypes
<1>6. Counted' /\ Listed(LiveSize)'
  BY <1>0, <1>1, <1>2 DEF Counted, InState, Listed
<1> QED BY <1>4, <1>5, <1>6 DEF Consistent, TypeOK, ListTypes, OtherTypes

\* One round of the cleanup pass.
LEMMA CleanupRoundConsistent ==
    ASSUME Consistent, cleanup_round
    PROVE  Consistent'
<1> DEFINE w == runList[idx]
           s == runList[newSize - 1]
<1>0. TypeOK /\ ListTypes /\ OtherTypes /\ Counted /\ Armed /\ AtStage /\ MAX_THREADS \in Nat \ {0}
  BY TypeParts, ThreadsAssumption DEF Consistent
<1>1. /\ pc = "clean" /\ idx < newSize /\ pc' = pc
      /\ UNCHANGED <<futexWord, runListSize, curThreadIdx, runningThreads, leftThreads, phaseCount, caller, place>>
      /\ LiveSize = newSize /\ LiveSize' = newSize'
  BY DEF cleanup_round, counts, LiveSize
<1>2. /\ newSize \in Nat /\ idx \in Nat /\ newSize <= runListSize /\ newSize - 1 \in Nat /\ runListSize \in Nat
      /\ \A k \in 0 .. newSize - 1 : k \in Tids
  BY <1>0, <1>1 DEF OtherTypes, ListTypes, AtStage, Tids
<1>3. /\ \A k \in 0 .. newSize - 1 : k \in Tids /\ runList[k] \in Tids /\ state[runList[k]] # "OFFLINE"
      /\ \A a, b \in 0 .. newSize - 1 : runList[a] = runList[b] => a = b
      /\ \A x \in Tids : state[x] # "OFFLINE" => \E k \in 0 .. newSize - 1 : runList[k] = x
      /\ \A k \in 0 .. idx - 1 : state[runList[k]] # "LEFT"
      /\ runList \in [Tids -> Tids]
  BY <1>0, <1>1, <1>2 DEF Consistent, Listed, ListTypes, AtStage
<1>4. w \in Tids /\ s \in Tids /\ idx \in 0 .. newSize - 1 /\ newSize - 1 \in 0 .. newSize - 1 /\ idx \in Tids
  BY <1>1, <1>2, <1>3
<1>5. CASE /\ state[w] # "LEFT" /\ idx' = idx + 1
           /\ UNCHANGED <<state, runList, lastIdx, newSize>>
  <2>1. ListTypes' /\ OtherTypes' /\ Armed'
    BY <1>0, <1>1, <1>5 DEF ListTypes, OtherTypes, Armed
  <2>2. Counted'
    BY <1>0, <1>1, <1>5 DEF Counted, InState
  <2>3. AtStage'
    <3>1. \A k \in 0 .. idx' - 1 : k \in 0 .. idx - 1 \/ k = idx
      BY <1>2, <1>5
    <3> QED BY <1>0, <1>1, <1>3, <1>5, <3>1 DEF AtStage
  <2>4. Listed(newSize)'
    BY <1>3, <1>5 DEF Listed
  <2> QED BY <1>1, <2>1, <2>2, <2>3, <2>4 DEF Consistent, TypeOK, ListTypes, OtherTypes
<1>6. CASE /\ state[w] = "LEFT" /\ state' = [state EXCEPT ![w] = "OFFLINE"]
           /\ runList' = [runList EXCEPT ![idx] = s]
           /\ lastIdx' = [lastIdx EXCEPT ![s] = idx]
           /\ newSize' = newSize - 1 /\ idx' = idx
  <2>0. s = runList[newSize - 1] /\ w = runList[idx]
    OBVIOUS
  <2> HIDE DEF s, w
  <2>1. \A x \in Tids : state'[x] = IF x = w THEN "OFFLINE" ELSE state[x]
    BY <1>0, <1>6 DEF OtherTypes
  <2>2. \A k \in 0 .. newSize - 1 : runList'[k] = IF k = idx THEN s ELSE runList[k]
    BY <1>3, <1>6
  <2>3. ListTypes'
    BY <1>0, <1>1, <1>4, <1>6 DEF ListTypes
  <2>4. OtherTypes'
    <3>1. newSize' \in 0 .. MAX_THREADS /\ idx' \in 0 .. newSize'
      BY <1>0, <1>1, <1>2, <1>6 DEF OtherTypes
    <3>2. state' \in [Tids -> States]
      BY <1>0, <1>6 DEF OtherTypes, States
    <3> QED BY <1>0, <1>1, <3>1, <3>2 DEF OtherTypes
  <2>5. Armed'
    BY <1>0, <1>1, <1>6, <2>1 DEF Armed
  <2>6. Counted'
    <3>1. Moves(w, "OFFLINE") /\ "OFFLINE" \in States
      BY <1>6 DEF Moves, States
    <3>2. /\ Cardinality(InState("RUNNING")') = Cardinality(InState("RUNNING"))
          /\ Cardinality(InState("LEFT")') = Cardinality(InState("LEFT")) - 1
          /\ Cardinality(InState("LEFT")) \in Nat
      BY <1>0, <1>4, <1>6, <3>1, CountsAfter DEF Ones
    <3> QED BY <1>0, <1>1, <1>2, <1>6, <3>2 DEF Counted
  <2>7. \A k \in 0 .. newSize - 2 : k \in 0 .. newSize - 1 /\ k # newSize - 1
    BY <1>2
  <2>8. AtStage'
    <3>1. \A k \in 0 .. idx - 1 : k \in 0 .. newSize - 1 /\ k # idx
      BY <1>1, <1>2
    <3>2. \A k \in 0 .. idx - 1 : state'[runList'[k]] # "LEFT"
      BY <1>3, <2>1, <2>2, <3>1
    <3> QED BY <1>0, <1>1, <1>2, <1>6, <3>2 DEF AtStage
  <2>9. Listed(newSize)'
    <3>1. \A a, b \in 0 .. newSize - 2 : runList'[a] = runList'[b] => a = b
      BY <1>3, <1>4, <2>0, <2>2, <2>7
    <3>2. ASSUME NEW k \in 0 .. newSize - 2 PROVE state'[runList'[k]] # "OFFLINE"
      <4>1. runList'[k] # w /\ runList'[k] \in Tids
        BY <1>3, <1>4, <2>0, <2>2, <2>7
      <4>2. state[runList'[k]] # "OFFLINE"
        BY <1>3, <1>4, <2>0, <2>2, <2>7
      <4> QED BY <2>1, <4>1, <4>2
    <3>3. ASSUME NEW x \in Tids, state'[x] # "OFFLINE"
          PROVE  \E k \in 0 .. newSize - 2 : runList'[k] = x
      <4>1. x # w /\ state[x] # "OFFLINE"
        BY <2>1, <3>3
      <4>2. PICK k \in 0 .. newSize - 1 : runList[k] = x
        BY <1>3, <4>1
      <4>3. k # idx
        BY <2>0, <4>1, <4>2
      <4>4. CASE k = newSize - 1
        <5>1. idx \in 0 .. newSize - 2 /\ runList'[idx] = x
          BY <1>1, <1>2, <1>4, <2>0, <2>2, <4>2, <4>3, <4>4
        <5> QED BY <5>1
      <4>5. CASE k # newSize - 1
        <5>1. k \in 0 .. newSize - 2 /\ runList'[k] = x
          BY <1>2, <2>2, <4>2, <4>3, <4>5
        <5> QED BY <5>1
      <4> QED BY <4>4, <4>5
    <3>4. newSize' - 1 = newSize - 2
      BY <1>2, <1>6
    <3>5. \A a, b \in 0 .. newSize' - 1 : runList'[a] = runList'[b] => a = b
      BY <3>1, <3>4
    <3>6. \A k \in 0 .. newSize' - 1 : state'[runList'[k]] # "OFFLINE"
      BY <3>2, <3>4
    <3>7. \A x \in Tids : state'[x] # "OFFLINE" => \E k \in 0 .. newSize' - 1 : runList'[k] = x
      BY <3>3, <3>4
    <3> QED BY <3>5, <3>6, <3>7 DEF Listed
  <2> QED BY <1>1, <2>3, <2>4, <2>5, <2>6, <2>8, <2>9 DEF Consistent, TypeOK, ListTypes, OtherTypes
<1> QED BY <1>5, <1>6 DEF cleanup_round

\* The shuffle puts the same threads in another order.
LEMMA ShuffleConsistent ==
    ASSUME Consistent, shuffle
    PROVE  Consistent'
<1>0. TypeOK /\ ListTypes /\ OtherTypes /\ Counted /\ Armed /\ AtStage
  BY TypeParts DEF Consistent
<1>1. /\ pc = "shuffle" /\ pc' = "wake2"
      /\ UNCHANGED <<state, futexWord, runListSize, curThreadIdx, runningThreads, leftThreads, phaseCount,
                     caller, idx, newSize, place>>
      /\ LiveSize = runListSize /\ LiveSize' = runListSize
  BY DEF shuffle, counts, LiveSize
<1>2. /\ \A k \in 0 .. runListSize - 1 : k \in Tids /\ runList[k] \in Tids /\ state[runList[k]] # "OFFLINE"
      /\ \A a, b \in 0 .. runListSize - 1 : runList[a] = runList[b] => a = b
      /\ \A x \in Tids : state[x] # "OFFLINE" => \E k \in 0 .. runListSize - 1 : runList[k] = x
      /\ runListSize \in Nat /\ runList \in [Tids -> Tids]
  BY <1>1, ListFacts
<1>3. OtherTypes' /\ Armed' /\ AtStage' /\ Counted'
  BY <1>0, <1>1 DEF OtherTypes, Armed, AtStage, Counted, InState, Loops
<1>4. SUFFICES lastIdx' \in [Tids -> Tids] /\ runList' \in [Tids -> Tids] /\ Listed(runListSize)'
  BY <1>0, <1>1, <1>3 DEF Consistent, TypeOK, ListTypes, OtherTypes
<1>5. CASE UNCHANGED <<runList, lastIdx>>
  BY <1>0, <1>1, <1>2, <1>5 DEF Listed, ListTypes
<1>6. ASSUME NEW f \in Shuffles,
             runList' = [k \in Tids |-> IF k < runListSize THEN runList[f[k]] ELSE runList[k]],
             lastIdx' \in [Tids -> Tids]
      PROVE  lastIdx' \in [Tids -> Tids] /\ runList' \in [Tids -> Tids] /\ Listed(runListSize)'
  <2> DEFINE D == 0 .. runListSize - 1
  <2>1. f \in [D -> D] /\ \A a, b \in D : f[a] = f[b] => a = b
    BY <1>6 DEF Shuffles
  <2>2. \A y \in D : \E k \in D : f[k] = y
    <3>1. f \in Injection(D, D)
      BY <2>1 DEF Injection, IsInjective
    <3>2. IsFiniteSet(D)
      BY <1>2, FS_Interval
    <3> HIDE DEF D
    <3>3. f \in Surjection(D, D)
      BY <3>1, <3>2, FS_Injection
    <3> QED BY <3>3 DEF Surjection
  <2>3. \A k \in D : k \in Tids /\ k < runListSize /\ f[k] \in D
    BY <1>2, <2>1
  <2>4. \A k \in D : runList'[k] = runList[f[k]]
    BY <1>6, <2>3
  <2>5. runList' \in [Tids -> Tids]
    <3>1. ASSUME NEW k \in Tids, k < runListSize PROVE k \in D
      BY <1>2, <3>1, ThreadsAssumption DEF Tids
    <3> HIDE DEF D
    <3> QED BY <1>2, <1>6, <2>3, <3>1 DEF D
  <2>6. \A a, b \in D : runList'[a] = runList'[b] => a = b
    BY <1>2, <2>1, <2>3, <2>4
  <2>7. \A k \in D : state'[runList'[k]] # "OFFLINE"
    BY <1>1, <1>2, <2>3, <2>4
  <2>8. ASSUME NEW x \in Tids, state'[x] # "OFFLINE" PROVE \E k \in D : runList'[k] = x
    <3>1. PICK y \in D : runList[y] = x
      BY <1>1, <1>2, <2>8
    <3>2. PICK k \in D : f[k] = y
      BY <2>2
    <3> QED BY <2>4, <3>1, <3>2
  <2> QED BY <1>1, <1>6, <2>5, <2>6, <2>7, <2>8 DEF Listed
<1> QED BY <1>5, <1>6 DEF shuffle

\* The remaining steps leave the threads and the list as they are.
LEMMA OtherConsistent ==
    ASSUME Consistent,
           \/ checkRunList_done \/ checkEndPhase \/ cleanup_done
           \/ \E t \in Tids : resume(t)
           \/ UNCHANGED vars
    PROVE  Consistent'
<1>0. TypeOK /\ ListTypes /\ OtherTypes /\ Counted /\ Armed /\ AtStage /\ MAX_THREADS \in Nat \ {0}
  BY TypeParts, ThreadsAssumption DEF Consistent
<1>1. CASE checkRunList_done
  <2>1. /\ pc \in {"wake1", "wake2"} /\ pc' \in {"end", "free"}
        /\ UNCHANGED <<state, futexWord, lastIdx, runList, runListSize, curThreadIdx, runningThreads, leftThreads,
                       phaseCount, caller, idx, newSize, place>>
    BY <1>1 DEF checkRunList_done, threads, list, counts
  <2>2. LiveSize = runListSize /\ LiveSize' = runListSize
    BY <2>1 DEF LiveSize
  <2>3. ListTypes' /\ OtherTypes' /\ Armed' /\ AtStage'
    BY <1>0, <2>1 DEF ListTypes, OtherTypes, Armed, AtStage, Loops
  <2>4. Counted' /\ Listed(LiveSize)'
    BY <1>0, <2>1, <2>2 DEF Counted, InState, Listed, Consistent
  <2> QED BY <2>3, <2>4 DEF Consistent, TypeOK, ListTypes, OtherTypes
<1>2. CASE checkEndPhase
  <2>1. /\ pc = "end" /\ pc' \in {"clean", "shuffle", "wake2"}
        /\ UNCHANGED <<state, futexWord, lastIdx, runList, runListSize, runningThreads, leftThreads, caller, place>>
        /\ pc' = "clean" => idx' = 0 /\ newSize' = runListSize
        /\ pc' # "clean" => UNCHANGED <<idx, newSize>>
        /\ pc' = "wake2" => UNCHANGED <<curThreadIdx, phaseCount>>
        /\ pc' # "wake2" => curThreadIdx' = 0 /\ runningThreads = 0 /\ phaseCount' = (phaseCount + 1) % CleanupPeriod
    BY <1>2 DEF checkEndPhase, PhaseOver, threads
  <2>2. LiveSize = runListSize /\ LiveSize' = runListSize
    BY <2>1 DEF LiveSize
  <2>3. phaseCount' \in 0 .. CleanupPeriod - 1
    BY <1>0, <2>1, PeriodAssumption DEF OtherTypes
  <2>4. ListTypes' /\ OtherTypes' /\ Armed' /\ AtStage'
    BY <1>0, <2>1, <2>3 DEF ListTypes, OtherTypes, Armed, AtStage, Loops
  <2>5. Counted' /\ Listed(LiveSize)'
    BY <1>0, <2>1, <2>2 DEF Counted, InState, Listed, Consistent
  <2> QED BY <2>4, <2>5 DEF Consistent, TypeOK, ListTypes, OtherTypes
<1>3. CASE cleanup_done
  <2>1. /\ pc = "clean" /\ pc' = "shuffle" /\ idx >= newSize
        /\ leftThreads' = 0 /\ runListSize' = newSize /\ runListSize - newSize = leftThreads
        /\ UNCHANGED <<state, futexWord, lastIdx, runList, curThreadIdx, runningThreads, phaseCount, caller, idx, newSize, place>>
    BY <1>3 DEF cleanup_done, threads
  <2>2. LiveSize = newSize /\ LiveSize' = newSize
    BY <2>1 DEF LiveSize
  <2>3. ListTypes' /\ OtherTypes' /\ Armed' /\ AtStage'
    BY <1>0, <2>1 DEF ListTypes, OtherTypes, Armed, AtStage, Loops
  <2>4. Listed(LiveSize)'
    BY <2>1, <2>2 DEF Listed, Consistent
  <2>5. Cardinality(InState("LEFT")) \in Nat
    BY TidsFinite, FS_Subset, FS_CardinalityType DEF InState
  <2>6. Counted'
    BY <1>0, <2>1, <2>2, <2>5 DEF Counted, InState, ListTypes, OtherTypes
  <2> QED BY <2>3, <2>4, <2>6 DEF Consistent, TypeOK, ListTypes, OtherTypes
<1>4. ASSUME NEW t \in Tids, resume(t) PROVE Consistent'
  <2>1. /\ place[t] = "wait" /\ (state[t] # "WAITING" \/ futexWord[t] # 1)
        /\ place' = [place EXCEPT ![t] = "in"]
        /\ UNCHANGED <<state, futexWord, lastIdx, runList, runListSize, curThreadIdx, runningThreads, leftThreads,
                       phaseCount, pc, caller, idx, newSize>>
    BY <1>4 DEF resume, threads, list, counts
  <2>2. state[t] = "RUNNING"
    BY <1>0, <2>1 DEF Armed, OtherTypes, States
  <2>3. ListTypes' /\ OtherTypes' /\ AtStage'
    BY <1>0, <2>1 DEF ListTypes, OtherTypes, AtStage
  <2>4. Armed'
    BY <1>0, <2>1, <2>2 DEF Armed, OtherTypes
  <2>5. Counted' /\ Listed(LiveSize)'
    BY <1>0, <2>1 DEF Counted, InState, Listed, Consistent, LiveSize
  <2> QED BY <2>3, <2>4, <2>5 DEF Consistent, TypeOK, ListTypes, OtherTypes
<1>5. CASE UNCHANGED vars
  BY <1>0, <1>5 DEF vars, barrier, threads, list, counts, Consistent, TypeOK, Listed, Counted, Armed, AtStage, InState, LiveSize
<1> QED BY <1>1, <1>2, <1>3, <1>4, <1>5

LEMMA NextConsistent ==
    ASSUME Consistent, [Next]_vars
    PROVE  Consistent'
  BY JoinConsistent, StopConsistent, WakeConsistent, FutexConsistent, CleanupRoundConsistent, ShuffleConsistent, OtherConsistent
     DEF Next, LockHolder

LEMMA DisjointUnion ==
    ASSUME NEW A, NEW B, IsFiniteSet(A), IsFiniteSet(B), A \cap B = {}
    PROVE  IsFiniteSet(A \cup B) /\ Cardinality(A \cup B) = Cardinality(A) + Cardinality(B)
<1>1. /\ IsFiniteSet(A \cup B)
      /\ Cardinality(A \cup B) = Cardinality(A) + Cardinality(B) - Cardinality(A \cap B)
  BY FS_Union
<1>2. Cardinality(A \cap B) = 0 /\ Cardinality(A) \in Nat /\ Cardinality(B) \in Nat
  BY FS_EmptySet, FS_CardinalityType
<1> QED BY <1>1, <1>2

\* The waiting threads are those of the list that neither run nor left.
LEMMA WaitingCount ==
    ASSUME Consistent, pc # "clean"
    PROVE  runListSize - runningThreads - leftThreads = Cardinality(InState("WAITING"))
<1>1. /\ \A k \in 0 .. runListSize - 1 : runList[k] \in Members
      /\ \A a, b \in 0 .. runListSize - 1 : runList[a] = runList[b] => a = b
      /\ \A t \in Members : \E k \in 0 .. runListSize - 1 : runList[k] = t
      /\ runListSize \in Nat
  BY ListFacts DEF Members
<1>2. IsFiniteSet(Members)
  BY TidsFinite, FS_Subset DEF Members
<1>3. runListSize = Cardinality(Members)
  BY <1>1, <1>2, DistinctEntries
<1> DEFINE W == InState("WAITING")
           R == InState("RUNNING")
           L == InState("LEFT")
<1>4. IsFiniteSet(W) /\ IsFiniteSet(R) /\ IsFiniteSet(L)
  BY TidsFinite, FS_Subset DEF InState
<1>5. Cardinality(W) \in Nat /\ Cardinality(R) \in Nat /\ Cardinality(L) \in Nat
  BY <1>4, FS_CardinalityType
<1>6. Members = (W \cup R) \cup L /\ W \cap R = {} /\ (W \cup R) \cap L = {}
  BY DEF Members, InState, Consistent, TypeOK, States
<1>7. runningThreads = Cardinality(R) /\ leftThreads = Cardinality(L)
  BY <1>1, <1>5 DEF Consistent, Counted, LiveSize
<1> HIDE DEF W, R, L
<1>8. IsFiniteSet(W \cup R) /\ Cardinality(W \cup R) = Cardinality(W) + Cardinality(R)
  BY <1>4, <1>6, DisjointUnion
<1>9. Cardinality(Members) = Cardinality(W \cup R) + Cardinality(L)
  BY <1>4, <1>6, <1>8, DisjointUnion
<1>10. runListSize - runningThreads - leftThreads = Cardinality(W)
  BY <1>3, <1>5, <1>7, <1>8, <1>9
<1> QED BY <1>10 DEF W

\* While the cleanup pass ends, nobody is left that has left.
LEMMA CleanupEnds == Consistent => CleanupAgrees
<1> SUFFICES ASSUME Consistent, pc = "clean", idx >= newSize
             PROVE  runListSize - newSize = leftThreads
  BY DEF CleanupAgrees
<1>1. /\ idx \in 0 .. newSize /\ newSize \in 0 .. MAX_THREADS /\ Listed(newSize) /\ AtStage /\ Counted
      /\ LiveSize = newSize /\ runListSize \in 0 .. MAX_THREADS
  BY DEF Consistent, TypeOK, LiveSize
<1>2. idx = newSize
  BY <1>1, ThreadsAssumption
<1>3. InState("LEFT") = {}
  <2> SUFFICES ASSUME NEW t \in Tids, state[t] = "LEFT" PROVE FALSE
    BY DEF InState
  <2>1. PICK k \in 0 .. newSize - 1 : runList[k] = t
    BY <1>1 DEF Listed
  <2> QED BY <1>1, <1>2, <2>1 DEF AtStage
<1>4. Cardinality(InState("LEFT")) = 0
  BY <1>3, FS_EmptySet
<1> QED BY <1>1, <1>4 DEF Counted

LEMMA ConsistentMeans ==
    Consistent => TypeOK /\ RunListExact /\ CountersExact /\ CleanupAgrees /\ NoWakeupRace
<1> SUFFICES ASSUME Consistent PROVE TypeOK /\ RunListExact /\ CountersExact /\ CleanupAgrees /\ NoWakeupRace
  OBVIOUS
<1>1. TypeOK /\ CleanupAgrees
  BY CleanupEnds DEF Consistent
<1>2. NoWakeupRace
  BY DEF Consistent, Armed, AtStage, TypeOK, States, NoWakeupRace
<1>3. RunListExact
  <2>1. \A k \in 0 .. LiveSize - 1 : runList[k] \in Tids
    <3>1. LiveSize \in 0 .. MAX_THREADS /\ runList \in [Tids -> Tids]
      BY DEF Consistent, TypeOK, LiveSize
    <3>2. \A k \in 0 .. LiveSize - 1 : k \in Tids
      BY <3>1, ThreadsAssumption DEF Tids
    <3> QED BY <3>1, <3>2
  <2>2. Listed(LiveSize)
    BY DEF Consistent
  <2> QED BY <2>1, <2>2 DEF Listed, RunListExact, Members
<1>4. CountersExact
  <2>1. Counted
    BY DEF Consistent
  <2>2. pc # "clean" => leftThreads = Cardinality(InState("LEFT"))
    <3>1. Cardinality(InState("LEFT")) \in Nat
      BY TidsFinite, FS_Subset, FS_CardinalityType DEF InState
    <3> QED BY <2>1, <3>1 DEF Counted, LiveSize, Consistent, TypeOK
  <2> QED BY <2>1, <2>2, WaitingCount DEF CountersExact, Counted
<1> QED BY <1>1, <1>2, <1>3, <1>4

LEMMA AlwaysConsistent == Spec => []Consistent
  BY InitConsistent, NextConsistent, PTL DEF Spec

\* For every number of threads, every limit and every cleanup period, with
\* processes killed or not: runList names every thread of the barrier once,
\* the counters count, and the assertion of the cleanup pass holds.
THEOREM ConsistencyTheorem ==
    Spec => [](TypeOK /\ ListAndCountersExact /\ CleanupAgrees)
<1>1. Consistent => TypeOK /\ ListAndCountersExact /\ CleanupAgrees
  BY ConsistentMeans DEF ListAndCountersExact
<1> QED BY <1>1, AlwaysConsistent, PTL

\* For every number of threads, with processes killed or not: checkRunList
\* never panics with "Wakeup race in barrier?", and a thread whose futex
\* wait ends in join or sync finds itself RUNNING.
THEOREM WakeupTheorem == Spec => []NoWakeupRace
<1>1. Consistent => NoWakeupRace
  BY ConsistentMeans
<1> QED BY <1>1, AlwaysConsistent, PTL

-----------------------------------------------------------------------------
(* Nobody is forgotten when the lock is released.                          *)

SomebodyReady == \E t \in Tids : state[t] = "WAITING" /\ Ahead(t)

Going ==
    /\ pc = "free" => ~ CanWake /\ (runningThreads = 0 => leftThreads = runListSize)
    /\ pc = "end" => ~ CanWake
    /\ pc \in {"clean", "shuffle"} => \E t \in Tids : state[t] = "WAITING"
    /\ pc \in {"wake2", "futex2"} => runningThreads > 0 \/ leftThreads = runListSize \/ SomebodyReady

\* With the list rewound every waiting thread is ahead of the loop.
LEMMA RewoundAhead ==
    ASSUME Consistent, curThreadIdx = 0, NEW t \in Tids, state[t] = "WAITING"
    PROVE  Ahead(t)
<1>1. PICK k \in 0 .. LiveSize - 1 : runList[k] = t
  BY DEF Consistent, Listed
<1>2. k \in 0 .. runListSize - 1
  BY <1>1 DEF Consistent, TypeOK, AtStage, LiveSize
<1> QED BY <1>1, <1>2 DEF Ahead

LEMMA SomebodyWaits ==
    ASSUME Consistent, pc # "clean", runningThreads = 0, leftThreads # runListSize
    PROVE  \E t \in Tids : state[t] = "WAITING"
<1>1. Cardinality(InState("WAITING")) # 0
  BY WaitingCount DEF Consistent, TypeOK
<1>2. InState("WAITING") # {}
  BY <1>1, FS_EmptySet
<1> QED BY <1>2 DEF InState

LEMMA NextGoing ==
    ASSUME Consistent, Consistent', Going, [Next]_vars
    PROVE  Going'
<1>1. ASSUME NEW t \in Tids, join(t) \/ leave_running(t) \/ sync(t) PROVE Going'
  BY <1>1 DEF join, leave_running, sync, tryWakeNext, Going
<1>2. ASSUME NEW t \in Tids, leave_waiting(t) PROVE Going'
  <2>1. /\ pc = "free" /\ pc' = "free" /\ state[t] = "WAITING"
        /\ UNCHANGED <<runningThreads, curThreadIdx, runListSize>>
    BY <1>2 DEF leave_waiting, list
  <2>2. InState("WAITING") # {} /\ IsFiniteSet(InState("WAITING"))
    BY <2>1, TidsFinite, FS_Subset DEF InState
  <2>3. Cardinality(InState("WAITING")) # 0
    BY <2>2, FS_EmptySet
  <2>4. runningThreads # 0
    BY <2>1, <2>3, WaitingCount DEF Going, Consistent, TypeOK
  <2> QED BY <2>1, <2>4 DEF Going, CanWake
<1>3. ASSUME NEW t \in Tids, resume(t) PROVE Going'
  BY <1>3 DEF resume, threads, list, counts, Going, CanWake, SomebodyReady, Ahead
<1>4. CASE wake_next
  <2>1. /\ pc \in {"wake1", "wake2"} /\ pc' \in {"wake1", "futex1", "wake2", "futex2"}
        /\ curThreadIdx < runListSize /\ curThreadIdx' = curThreadIdx + 1
        /\ UNCHANGED <<runList, runListSize, leftThreads>>
        /\ runningThreads \in Nat /\ curThreadIdx \in Nat /\ runListSize \in Nat
    BY <1>4 DEF wake_next, CanWake, Consistent, TypeOK
  <2>2. CASE runningThreads' = runningThreads + 1
    BY <2>1, <2>2 DEF Going
  <2>3. CASE state[runList[curThreadIdx]] # "WAITING" /\ UNCHANGED <<state, runningThreads, pc>>
    <3>1. ASSUME SomebodyReady PROVE SomebodyReady'
      <4>1. PICK t \in Tids : state[t] = "WAITING" /\ Ahead(t)
        BY <3>1 DEF SomebodyReady
      <4>2. PICK k \in curThreadIdx .. runListSize - 1 : runList[k] = t
        BY <4>1 DEF Ahead
      <4>3. k # curThreadIdx
        BY <2>3, <4>1, <4>2
      <4>4. k \in curThreadIdx' .. runListSize' - 1 /\ runList'[k] = t
        BY <2>1, <4>2, <4>3
      <4> QED BY <2>3, <4>1, <4>4 DEF SomebodyReady, Ahead
    <3> QED BY <2>1, <2>3, <3>1 DEF Going
  <2> QED BY <1>4, <2>2, <2>3 DEF wake_next, threads
<1>11. CASE wake_futex
  BY <1>11 DEF wake_futex, list, counts, Going, SomebodyReady, Ahead
<1>5. CASE checkRunList_done
  <2>1. /\ pc \in {"wake1", "wake2"} /\ ~ CanWake /\ pc' = IF pc = "wake1" THEN "end" ELSE "free"
        /\ UNCHANGED <<state, runList, runListSize, curThreadIdx, runningThreads, leftThreads>>
    BY <1>5 DEF checkRunList_done, threads, list, counts
  <2>2. ~ CanWake'
    BY <2>1 DEF CanWake
  <2>3. ASSUME pc = "wake2", runningThreads = 0 PROVE leftThreads = runListSize
    <3>1. curThreadIdx = runListSize
      BY <2>1, <2>3, ParallelAssumption DEF CanWake, Consistent, TypeOK
    <3>2. ~ SomebodyReady
      BY <3>1 DEF SomebodyReady, Ahead, Consistent, TypeOK
    <3> QED BY <2>3, <3>2 DEF Going
  <2> QED BY <2>1, <2>2, <2>3 DEF Going
<1>6. CASE checkEndPhase
  <2>1. CASE PhaseOver
    <3>1. pc = "end" /\ pc' \in {"clean", "shuffle"} /\ state' = state
      BY <1>6, <2>1 DEF checkEndPhase, threads
    <3>2. \E t \in Tids : state[t] = "WAITING"
      BY <2>1, <3>1, SomebodyWaits DEF PhaseOver
    <3> QED BY <3>1, <3>2 DEF Going
  <2>2. CASE ~ PhaseOver
    <3>1. /\ pc = "end" /\ pc' = "wake2"
          /\ UNCHANGED <<runListSize, curThreadIdx, runningThreads, leftThreads>>
      BY <1>6, <2>2 DEF checkEndPhase
    <3>2. runningThreads > 0 \/ leftThreads = runListSize
      BY <2>2, <3>1, ParallelAssumption DEF PhaseOver, Going, CanWake, Consistent, TypeOK
    <3> QED BY <3>1, <3>2 DEF Going
  <2> QED BY <2>1, <2>2
<1>7. CASE cleanup_round
  <2>1. pc = "clean" /\ pc' = "clean"
    BY <1>7 DEF cleanup_round
  <2>2. PICK t \in Tids : state[t] = "WAITING"
    BY <2>1 DEF Going
  <2>3. state'[t] = "WAITING"
    BY <1>7, <2>2 DEF cleanup_round, Consistent, TypeOK
  <2> QED BY <2>1, <2>3 DEF Going
<1>8. CASE cleanup_done
  BY <1>8 DEF cleanup_done, threads, Going
<1>9. CASE shuffle
  <2>1. pc = "shuffle" /\ pc' = "wake2" /\ state' = state /\ curThreadIdx' = curThreadIdx
    BY <1>9 DEF shuffle
  <2>2. PICK t \in Tids : state[t] = "WAITING"
    BY <2>1 DEF Going
  <2>3. curThreadIdx' = 0 /\ state'[t] = "WAITING"
    BY <2>1, <2>2 DEF Consistent, AtStage
  <2>4. PICK k \in 0 .. LiveSize' - 1 : runList'[k] = t
    BY <2>3 DEF Consistent, Listed
  <2>5. LiveSize' = runListSize'
    BY <2>1 DEF LiveSize
  <2>6. Ahead(t)'
    BY <2>3, <2>4, <2>5 DEF Ahead
  <2>7. SomebodyReady'
    BY <2>3, <2>6 DEF SomebodyReady, Ahead
  <2> QED BY <2>1, <2>7 DEF Going
<1>10. CASE UNCHANGED vars
  BY <1>10 DEF vars, barrier, threads, list, counts, Going, CanWake, SomebodyReady, Ahead
<1> QED BY <1>1, <1>2, <1>3, <1>4, <1>5, <1>6, <1>7, <1>8, <1>9, <1>10, <1>11 DEF Next, LockHolder

\* Whenever schedLock is released the barrier has woken every thread it may:
\* the limit is reached or the list exhausted, and if nobody runs everybody
\* has left.
THEOREM NobodyForgottenTheorem == Spec => []NobodyForgotten
<1>1. Init => Consistent /\ Going
  BY InitConsistent DEF Init, Going, CanWake
<1>2. Consistent /\ Going /\ [Next]_vars => Consistent' /\ Going'
  BY NextConsistent, NextGoing
<1>3. Going => NobodyForgotten
  BY DEF Going, NobodyForgotten
<1> QED BY <1>1, <1>2, <1>3, PTL DEF Spec

-----------------------------------------------------------------------------
(* The assertion and the note of join, when no process is killed.          *)

IdxKnown ==
    \A t \in Tids :
        /\ state[t] \in {"RUNNING", "LEFT"} => lastIdx[t] \in 0 .. LiveSize - 1 /\ runList[lastIdx[t]] = t
        /\ state[t] = "RUNNING" => lastIdx[t] < curThreadIdx

Turn ==
    pc \in {"wake1", "futex1", "end"} /\ caller.op = "join" =>
        state[caller.tid] = "RUNNING" \/ (state[caller.tid] = "WAITING" /\ Ahead(caller.tid))

\* A thread that joins is ahead of the wake-up loop, and stands in nobody's
\* way.
LEMMA JoinAhead ==
    ASSUME Consistent, Consistent', IdxKnown, NEW t \in Tids, join(t)
    PROVE  /\ IdxKnown'
           /\ Ahead(t)'
           /\ \A x \in Tids : x # t /\ state[x] = "WAITING" => (Ahead(x)' <=> Ahead(x))
<1>1. /\ pc = "free" /\ pc' = "wake1" /\ LiveSize = runListSize /\ LiveSize' = runListSize'
      /\ state' = [state EXCEPT ![t] = "WAITING"]
  BY DEF join, tryWakeNext, LiveSize
<1>2. /\ \A k \in 0 .. runListSize - 1 : k \in Tids /\ runList[k] \in Tids /\ state[runList[k]] # "OFFLINE"
      /\ \A a, b \in 0 .. runListSize - 1 : runList[a] = runList[b] => a = b
      /\ \A x \in Tids : state[x] # "OFFLINE" => \E k \in 0 .. runListSize - 1 : runList[k] = x
      /\ runListSize \in Nat /\ curThreadIdx \in Nat /\ curThreadIdx <= runListSize
      /\ runList \in [Tids -> Tids]
  BY <1>1, ListFacts
<1>3. \A x \in Tids : state'[x] = IF x = t THEN "WAITING" ELSE state[x]
  BY <1>1 DEF Consistent, TypeOK
<1>4. \A x \in Tids : state[x] \in {"RUNNING", "LEFT"} =>
          lastIdx[x] \in 0 .. runListSize - 1 /\ runList[lastIdx[x]] = x
  BY <1>1 DEF IdxKnown
<1>5. CASE join_offline(t)
  <2>1. /\ state[t] = "OFFLINE" /\ runList' = [runList EXCEPT ![runListSize] = t]
        /\ runListSize' = runListSize + 1 /\ lastIdx' = lastIdx /\ curThreadIdx' = curThreadIdx
    BY <1>5 DEF join_offline
  <2>2. runListSize \in Tids
    BY <1>2, <2>1, ThreadsAssumption DEF Consistent, TypeOK, Tids
  <2>3. runList'[runListSize] = t /\ \A k \in 0 .. runListSize - 1 : runList'[k] = runList[k]
    BY <1>2, <2>1, <2>2
  <2>4. Ahead(t)'
    BY <1>2, <2>1, <2>3 DEF Ahead
  <2>5. ASSUME NEW x \in Tids, x # t, state[x] = "WAITING" PROVE Ahead(x)' <=> Ahead(x)
    <3>1. \A k \in curThreadIdx .. runListSize' - 1 : k \in curThreadIdx .. runListSize - 1 \/ k = runListSize
      BY <1>2, <2>1
    <3>2. \A k \in curThreadIdx .. runListSize - 1 : k \in 0 .. runListSize - 1 /\ k \in curThreadIdx .. runListSize' - 1
      BY <1>2, <2>1
    <3> QED BY <2>1, <2>3, <2>5, <3>1, <3>2 DEF Ahead
  <2>6. IdxKnown'
    <3> SUFFICES ASSUME NEW x \in Tids, state'[x] \in {"RUNNING", "LEFT"}
                 PROVE  /\ lastIdx'[x] \in 0 .. LiveSize' - 1 /\ runList'[lastIdx'[x]] = x
                        /\ state'[x] = "RUNNING" => lastIdx'[x] < curThreadIdx'
      BY DEF IdxKnown
    <3>1. state[x] = state'[x] /\ lastIdx[x] \in 0 .. runListSize - 1 /\ runList[lastIdx[x]] = x
      BY <1>3, <1>4
    <3>2. state[x] = "RUNNING" => lastIdx[x] < curThreadIdx
      BY DEF IdxKnown
    <3> QED BY <1>1, <1>2, <2>1, <2>3, <3>1, <3>2
  <2> QED BY <2>4, <2>5, <2>6
<1>6. CASE join_left(t) /\ curThreadIdx <= lastIdx[t]
  <2>0. lastIdx[t] \in 0 .. runListSize - 1 /\ runList[lastIdx[t]] = t
    BY <1>4, <1>6 DEF join_left
  <2>1. UNCHANGED <<runList, lastIdx, curThreadIdx, runListSize>>
    BY <1>2, <1>6, <2>0 DEF join_left
  <2>2. Ahead(t)'
    BY <1>2, <1>6, <2>0, <2>1 DEF Ahead
  <2>3. \A x \in Tids : Ahead(x)' <=> Ahead(x)
    BY <2>1 DEF Ahead
  <2>4. IdxKnown'
    BY <1>1, <1>3, <2>1 DEF IdxKnown
  <2> QED BY <2>2, <2>3, <2>4
<1>7. CASE join_left(t) /\ ~ (curThreadIdx <= lastIdx[t])
  <2> DEFINE c == curThreadIdx - 1
             l == lastIdx[t]
             other == runList[c]
  <2>0. l \in 0 .. runListSize - 1 /\ runList[l] = t /\ l < curThreadIdx
    BY <1>2, <1>4, <1>7 DEF join_left
  <2>1. /\ runList' = [runList EXCEPT ![l] = other, ![c] = t]
        /\ lastIdx' = [lastIdx EXCEPT ![other] = l, ![t] = c]
        /\ curThreadIdx' = c /\ runListSize' = runListSize
    BY <1>7 DEF join_left
  <2>2. c \in 0 .. runListSize - 1 /\ c \in Tids /\ l \in Tids /\ other \in Tids /\ other = runList[c] /\ l <= c
    BY <1>2, <2>0
  <2>3. c = curThreadIdx - 1
    OBVIOUS
  <2> HIDE DEF c, l, other
  <2>4. \A k \in 0 .. runListSize - 1 : runList'[k] = IF k = c THEN t ELSE IF k = l THEN other ELSE runList[k]
    BY <1>2, <2>1, <2>2
  <2>5. Ahead(t)'
    <3>1. c \in c .. runListSize - 1 /\ runList'[c] = t
      BY <1>2, <2>2, <2>4
    <3> QED BY <2>1, <3>1 DEF Ahead
  <2>6. ASSUME NEW x \in Tids, x # t, state[x] = "WAITING" PROVE Ahead(x)' <=> Ahead(x)
    <3>1. ASSUME NEW k \in curThreadIdx .. runListSize - 1, runList[k] = x PROVE Ahead(x)'
      <4>1. k \in c .. runListSize - 1 /\ k \in 0 .. runListSize - 1 /\ k # c /\ k # l
        BY <1>2, <2>2, <2>3, <2>0, <3>1
      <4> QED BY <2>1, <2>4, <3>1, <4>1 DEF Ahead
    <3>2. ASSUME NEW k \in c .. runListSize - 1, runList'[k] = x PROVE Ahead(x)
      <4>1. k \in 0 .. runListSize - 1 /\ k # c
        BY <1>2, <2>2, <2>4, <2>6, <3>2
      <4>2. k # l /\ k \in curThreadIdx .. runListSize - 1
        BY <1>2, <2>2, <2>3, <4>1
      <4> QED BY <2>4, <3>2, <4>1, <4>2 DEF Ahead
    <3> QED BY <2>1, <3>1, <3>2 DEF Ahead
  <2>7. IdxKnown'
    <3> SUFFICES ASSUME NEW x \in Tids, state'[x] \in {"RUNNING", "LEFT"}
                 PROVE  /\ lastIdx'[x] \in 0 .. LiveSize' - 1 /\ runList'[lastIdx'[x]] = x
                        /\ state'[x] = "RUNNING" => lastIdx'[x] < curThreadIdx'
      BY DEF IdxKnown
    <3>1. x # t /\ state[x] = state'[x] /\ lastIdx[x] \in 0 .. runListSize - 1 /\ runList[lastIdx[x]] = x
      BY <1>3, <1>4
    <3>2. state[x] = "RUNNING" => lastIdx[x] < curThreadIdx
      BY <3>1 DEF IdxKnown
    <3>3. lastIdx'[x] = IF x = other THEN l ELSE lastIdx[x]
      BY <2>1, <2>2, <3>1 DEF Consistent, TypeOK
    <3>4. CASE x = other
      <4>1. l # c
        BY <2>0, <2>2, <3>1, <3>4 DEF l
      <4>2. l < c /\ runList'[l] = other
        BY <1>2, <2>0, <2>2, <2>4, <4>1
      <4> QED BY <1>1, <2>0, <2>1, <3>3, <3>4, <4>2
    <3>5. CASE x # other
      <4>1. lastIdx[x] # c /\ lastIdx[x] # l
        BY <2>0, <2>2, <3>1, <3>5
      <4>2. state[x] = "RUNNING" => lastIdx[x] < c
        BY <1>2, <2>3, <3>1, <3>2, <4>1
      <4> QED BY <1>1, <2>1, <2>4, <3>1, <3>3, <3>5, <4>1, <4>2
    <3> QED BY <3>4, <3>5
  <2> QED BY <2>5, <2>6, <2>7
<1> QED BY <1>5, <1>6, <1>7 DEF join

LEMMA NextKnown ==
    ASSUME ~ abruptExit, Consistent, Consistent', IdxKnown, Turn, [Next]_vars
    PROVE  IdxKnown' /\ Turn'
<1>0. TypeOK /\ ListTypes /\ OtherTypes
  BY TypeParts DEF Consistent
<1>1. ASSUME NEW t \in Tids, join(t) PROVE IdxKnown' /\ Turn'
  <2>1. IdxKnown' /\ Ahead(t)'
    BY <1>1, JoinAhead
  <2>2. caller'.tid = t /\ state'[t] = "WAITING"
    BY <1>0, <1>1 DEF join, tryWakeNext, OtherTypes
  <2> QED BY <2>1, <2>2 DEF Turn, Ahead
<1>2. ASSUME NEW t \in Tids, leave_running(t) \/ sync(t) PROVE IdxKnown' /\ Turn'
  <2>1. /\ pc = "free" /\ pc' = "wake1" /\ caller'.op # "join" /\ state[t] = "RUNNING"
        /\ \E b \in States : state' = [state EXCEPT ![t] = b]
        /\ UNCHANGED <<lastIdx, runList, runListSize, curThreadIdx>>
        /\ state'[t] # "RUNNING"
    BY <1>0, <1>2 DEF leave_running, sync, tryWakeNext, list, OtherTypes, States
  <2>2. \A x \in Tids : x # t => state'[x] = state[x]
    BY <1>0, <2>1 DEF OtherTypes
  <2>3. LiveSize = runListSize /\ LiveSize' = runListSize
    BY <2>1 DEF LiveSize
  <2> QED BY <2>1, <2>2, <2>3 DEF IdxKnown, Turn
<1>3. ASSUME NEW t \in Tids, leave_waiting(t) PROVE FALSE
  BY <1>3 DEF leave_waiting
<1>4. ASSUME NEW t \in Tids, resume(t) PROVE IdxKnown' /\ Turn'
  BY <1>4 DEF resume, threads, list, counts, IdxKnown, Turn, Ahead, LiveSize
<1>5. CASE wake_next
  <2> DEFINE w == runList[curThreadIdx]
  <2>1. /\ pc \in {"wake1", "wake2"} /\ pc' \in IF pc = "wake1" THEN {"wake1", "futex1"} ELSE {"wake2", "futex2"}
        /\ curThreadIdx < runListSize /\ curThreadIdx' = curThreadIdx + 1
        /\ UNCHANGED <<runList, runListSize, caller>> /\ LiveSize = runListSize /\ LiveSize' = runListSize
    BY <1>5 DEF wake_next, CanWake, LiveSize
  <2>2. /\ runListSize \in Nat /\ curThreadIdx \in Nat /\ w \in Tids /\ caller.tid \in Tids
    BY <1>0, <2>1, ListFacts DEF OtherTypes
  <2>3. CASE state[w] # "WAITING" /\ UNCHANGED <<state, lastIdx>>
    <3>1. ASSUME NEW t \in Tids, state[t] = "WAITING", Ahead(t) PROVE Ahead(t)'
      <4>1. PICK k \in curThreadIdx .. runListSize - 1 : runList[k] = t
        BY <3>1 DEF Ahead
      <4>2. k \in curThreadIdx' .. runListSize' - 1 /\ runList'[k] = t
        BY <2>1, <2>2, <2>3, <3>1, <4>1
      <4> QED BY <4>2 DEF Ahead
    <3>2. Turn'
      BY <2>1, <2>2, <2>3, <3>1 DEF Turn
    <3>3. IdxKnown'
      BY <2>1, <2>2, <2>3, <1>0 DEF IdxKnown, ListTypes, Tids
    <3> QED BY <3>2, <3>3
  <2>4. CASE state[w] = "WAITING" /\ state' = [state EXCEPT ![w] = "RUNNING"] /\ lastIdx' = [lastIdx EXCEPT ![w] = curThreadIdx]
    <3>0. w = runList[curThreadIdx]
      OBVIOUS
    <3> HIDE DEF w
    <3>1. \A x \in Tids : /\ state'[x] = IF x = w THEN "RUNNING" ELSE state[x]
                          /\ lastIdx'[x] = IF x = w THEN curThreadIdx ELSE lastIdx[x]
      BY <1>0, <2>4 DEF OtherTypes, ListTypes
    <3>2. ASSUME NEW t \in Tids, t # w, Ahead(t) PROVE Ahead(t)'
      <4>1. PICK k \in curThreadIdx .. runListSize - 1 : runList[k] = t
        BY <3>2 DEF Ahead
      <4>2. k \in curThreadIdx' .. runListSize' - 1 /\ runList'[k] = t
        BY <2>1, <2>2, <3>0, <3>2, <4>1
      <4> QED BY <4>2 DEF Ahead
    <3>3. Turn'
      BY <2>1, <2>2, <3>1, <3>2 DEF Turn
    <3>4. ASSUME NEW x \in Tids, state'[x] \in {"RUNNING", "LEFT"}
          PROVE  /\ lastIdx'[x] \in 0 .. LiveSize' - 1 /\ runList'[lastIdx'[x]] = x
                 /\ state'[x] = "RUNNING" => lastIdx'[x] < curThreadIdx'
      <4>1. CASE x = w
        BY <2>1, <2>2, <3>0, <3>1, <4>1
      <4>2. CASE x # w
        <5>1. /\ state[x] = state'[x] /\ lastIdx'[x] = lastIdx[x]
              /\ lastIdx[x] \in 0 .. runListSize - 1 /\ runList[lastIdx[x]] = x
              /\ state[x] = "RUNNING" => lastIdx[x] < curThreadIdx
          BY <2>1, <3>1, <3>4, <4>2 DEF IdxKnown
        <5> QED BY <2>1, <2>2, <5>1
      <4> QED BY <4>1, <4>2
    <3>5. IdxKnown'
      BY <3>4 DEF IdxKnown
    <3> QED BY <3>3, <3>5
  <2> QED BY <1>5, <2>3, <2>4 DEF wake_next, threads
<1>6. CASE checkRunList_done
  <2>1. /\ pc \in {"wake1", "wake2"} /\ pc' \in {"end", "free"} /\ (pc' = "end" => pc = "wake1")
        /\ UNCHANGED <<state, lastIdx, runList, runListSize, curThreadIdx, caller>>
    BY <1>6 DEF checkRunList_done, threads, list
  <2>2. LiveSize = runListSize /\ LiveSize' = runListSize
    BY <2>1 DEF LiveSize
  <2> QED BY <2>1, <2>2 DEF IdxKnown, Turn, Ahead
<1>7. CASE checkEndPhase
  <2>1. /\ pc = "end" /\ pc' \in {"clean", "shuffle", "wake2"}
        /\ UNCHANGED <<state, lastIdx, runList, runListSize, runningThreads>>
        /\ pc' = "clean" => newSize' = runListSize
        /\ curThreadIdx' = curThreadIdx \/ runningThreads = 0
    BY <1>7 DEF checkEndPhase, threads, PhaseOver
  <2>2. LiveSize = runListSize /\ LiveSize' = runListSize
    BY <2>1 DEF LiveSize
  <2>3. ASSUME runningThreads = 0, NEW x \in Tids PROVE state[x] # "RUNNING"
    BY <2>3, TidsFinite, FS_Subset, FS_EmptySet DEF Consistent, Counted, InState
  <2> QED BY <2>1, <2>2, <2>3 DEF IdxKnown, Turn
<1>8. CASE cleanup_done
  <2>1. /\ pc = "clean" /\ pc' = "shuffle" /\ runListSize' = newSize
        /\ UNCHANGED <<state, lastIdx, runList, curThreadIdx>>
    BY <1>8 DEF cleanup_done, threads
  <2>2. LiveSize = newSize /\ LiveSize' = newSize
    BY <2>1 DEF LiveSize
  <2> QED BY <2>1, <2>2 DEF IdxKnown, Turn
<1>9. CASE cleanup_round
  <2> DEFINE w == runList[idx]
             s == runList[newSize - 1]
  <2>1. /\ pc = "clean" /\ pc' = "clean" /\ idx < newSize /\ LiveSize = newSize /\ LiveSize' = newSize'
        /\ curThreadIdx' = curThreadIdx
    BY <1>9 DEF cleanup_round, LiveSize
  <2>2. /\ newSize \in Nat /\ idx \in Nat /\ curThreadIdx = 0
        /\ \A k \in 0 .. newSize - 1 : k \in Tids
        /\ \A a, b \in 0 .. newSize - 1 : runList[a] = runList[b] => a = b
    BY <1>0, <2>1, ThreadsAssumption DEF OtherTypes, ListTypes, Consistent, Listed, AtStage, Tids
  <2>3. CASE UNCHANGED <<state, runList, lastIdx, newSize>>
    BY <2>1, <2>3 DEF IdxKnown, Turn
  <2>4. CASE /\ state[w] = "LEFT" /\ state' = [state EXCEPT ![w] = "OFFLINE"]
             /\ runList' = [runList EXCEPT ![idx] = s] /\ lastIdx' = [lastIdx EXCEPT ![s] = idx]
             /\ newSize' = newSize - 1
    <3>0. w = runList[idx] /\ s = runList[newSize - 1] /\ w \in Tids /\ s \in Tids
      BY <1>0, <2>1, <2>2 DEF ListTypes
    <3> HIDE DEF w, s
    <3>1. \A x \in Tids : /\ state'[x] = IF x = w THEN "OFFLINE" ELSE state[x]
                          /\ lastIdx'[x] = IF x = s THEN idx ELSE lastIdx[x]
                          /\ runList'[x] = IF x = idx THEN s ELSE runList[x]
      BY <1>0, <2>4 DEF OtherTypes, ListTypes
    <3>2. ASSUME NEW x \in Tids, state'[x] \in {"RUNNING", "LEFT"}
          PROVE  /\ lastIdx'[x] \in 0 .. newSize' - 1 /\ runList'[lastIdx'[x]] = x
                 /\ state'[x] = "RUNNING" => lastIdx'[x] < curThreadIdx'
      <4>1. /\ x # w /\ state[x] = state'[x]
            /\ lastIdx[x] \in 0 .. newSize - 1 /\ runList[lastIdx[x]] = x
            /\ state[x] = "RUNNING" => lastIdx[x] < curThreadIdx
        BY <2>1, <3>1, <3>2 DEF IdxKnown
      <4>2. state[x] # "RUNNING"
        BY <2>2, <4>1
      <4>3. lastIdx[x] # idx
        BY <3>0, <4>1
      <4>4. CASE x = s
        <5>1. idx # newSize - 1
          BY <3>0, <4>1, <4>4
        <5>2. idx \in 0 .. newSize' - 1 /\ lastIdx'[x] = idx /\ runList'[idx] = s
          BY <2>1, <2>2, <2>4, <3>1, <4>4, <5>1
        <5> QED BY <4>1, <4>2, <4>4, <5>2
      <4>5. CASE x # s
        <5>1. lastIdx[x] # newSize - 1
          BY <3>0, <4>1, <4>5
        <5>2. lastIdx[x] \in 0 .. newSize' - 1 /\ lastIdx'[x] = lastIdx[x] /\ runList'[lastIdx[x]] = x
          BY <2>2, <2>4, <3>1, <4>1, <4>3, <4>5, <5>1
        <5> QED BY <4>1, <4>2, <5>2
      <4> QED BY <4>4, <4>5
    <3> QED BY <2>1, <3>2 DEF IdxKnown, Turn
  <2> QED BY <1>9, <2>3, <2>4 DEF cleanup_round
<1>10. CASE shuffle
  <2>1. /\ pc = "shuffle" /\ pc' = "wake2" /\ UNCHANGED <<state, runListSize, curThreadIdx>>
        /\ LiveSize = runListSize /\ LiveSize' = runListSize /\ curThreadIdx = 0
    BY <1>10 DEF shuffle, LiveSize, Consistent, AtStage
  <2>2. CASE UNCHANGED <<runList, lastIdx>>
    BY <2>1, <2>2 DEF IdxKnown, Turn
  <2>3. CASE ~ UNCHANGED <<runList, lastIdx>>
    <3>1. PICK f \in Shuffles :
              LET at(k) == IF k < runListSize THEN runList[f[k]] ELSE runList[k]
                  moved(t, k) == k < runListSize /\ at(k) = t
              IN  /\ runList' = [k \in Tids |-> at(k)]
                  /\ \A t \in Tids :
                        \/ \E k \in Tids : moved(t, k) /\ lastIdx'[t] = k
                        \/ moved(t, 0) /\ f[0] = 0 /\ lastIdx'[t] = lastIdx[t]
                        \/ (\A k \in Tids : ~ moved(t, k)) /\ lastIdx'[t] = lastIdx[t]
      BY <1>10, <2>3 DEF shuffle
    <3> DEFINE at(k) == IF k < runListSize THEN runList[f[k]] ELSE runList[k]
               moved(t, k) == k < runListSize /\ at(k) = t
    <3>2. runListSize \in Nat /\ \A k \in 0 .. runListSize - 1 : k \in Tids /\ f[k] \in 0 .. runListSize - 1
      BY <2>1, ListFacts DEF Shuffles
    <3>3. \A k \in Tids : runList'[k] = at(k)
      BY <3>1
    <3>4. \A k \in Tids : k < runListSize => k \in 0 .. runListSize - 1
      BY <3>2, ThreadsAssumption DEF Tids
    <3>5. ASSUME NEW x \in Tids, state'[x] \in {"RUNNING", "LEFT"}
          PROVE  /\ lastIdx'[x] \in 0 .. LiveSize' - 1 /\ runList'[lastIdx'[x]] = x
                 /\ state'[x] = "RUNNING" => lastIdx'[x] < curThreadIdx'
      <4>1. /\ state[x] = state'[x]
            /\ lastIdx[x] \in 0 .. runListSize - 1 /\ runList[lastIdx[x]] = x
            /\ state[x] # "RUNNING"
        <5>1. state[x] = "RUNNING" => lastIdx[x] < 0
          BY <2>1 DEF IdxKnown
        <5>2. lastIdx[x] \in 0 .. runListSize - 1 /\ runList[lastIdx[x]] = x
          BY <2>1, <3>5 DEF IdxKnown
        <5> QED BY <2>1, <3>2, <5>1, <5>2
      <4>2. PICK j \in 0 .. runListSize - 1 : runList'[j] = x
        BY <2>1, <3>5 DEF Consistent, Listed
      <4>3. moved(x, j) /\ j \in Tids
        BY <3>2, <3>3, <4>2
      <4>4. CASE \E k \in Tids : moved(x, k) /\ lastIdx'[x] = k
        BY <2>1, <3>3, <3>4, <4>1, <4>4
      <4>5. CASE moved(x, 0) /\ f[0] = 0 /\ lastIdx'[x] = lastIdx[x]
        <5>1. runList[0] = x /\ 0 \in 0 .. runListSize - 1
          BY <3>2, <4>5
        <5>2. lastIdx[x] = 0
          BY <2>1, <4>1, <5>1, ListFacts
        <5>3. runList'[0] = x
          BY <3>2, <3>3, <4>5, <5>1
        <5> QED BY <2>1, <4>1, <4>5, <5>1, <5>2, <5>3
      <4>6. CASE (\A k \in Tids : ~ moved(x, k)) /\ lastIdx'[x] = lastIdx[x]
        BY <4>3, <4>6
      <4> QED BY <3>1, <4>4, <4>5, <4>6
    <3> QED BY <2>1, <3>5 DEF IdxKnown, Turn
  <2> QED BY <2>2, <2>3
<1>11. CASE wake_futex \/ UNCHANGED vars
  <2>1. /\ UNCHANGED <<state, lastIdx, runList, runListSize, curThreadIdx, newSize, caller>>
        /\ pc' = pc \/ (pc = "futex1" /\ pc' = "wake1") \/ (pc = "futex2" /\ pc' = "wake2")
    BY <1>11 DEF wake_futex, vars, barrier, threads, list, counts
  <2> QED BY <2>1 DEF IdxKnown, Turn, Ahead, LiveSize
<1> QED BY <1>1, <1>2, <1>3, <1>4, <1>5, <1>6, <1>7, <1>8, <1>9, <1>10, <1>11 DEF Next, LockHolder

LEMMA InitKnown == Init => IdxKnown /\ Turn
  BY DEF Init, IdxKnown, Turn

\* The inductive invariant of the two facts about join: whether processes are
\* killed is chosen once and for all.
Known == Consistent /\ (~ abruptExit => IdxKnown /\ Turn)

LEMMA KnownStays ==
    ASSUME Known, [Next]_vars
    PROVE  Known'
<1>1. Consistent /\ Consistent'
  BY NextConsistent DEF Known
<1>2. abruptExit' = abruptExit
  BY DEF Next, vars
<1> QED BY <1>1, <1>2, NextKnown DEF Known

\* When no process is killed, a thread that comes back in the phase it left
\* is where its lastIdx says, and a join never ends a phase.
THEOREM JoinTheorem == Spec => []JoinIsSafe
<1>1. Init => Known
  BY InitConsistent, InitKnown DEF Known
<1>2. Known /\ [Next]_vars => Known'
  BY KnownStays
<1>3. Known => JoinIsSafe
  <2> SUFFICES ASSUME Consistent, IdxKnown, Turn PROVE RejoinFindsItself /\ JoinEndsNoPhase
    BY DEF Known, JoinIsSafe
  <2>1. RejoinFindsItself
    BY DEF IdxKnown, RejoinFindsItself
  <2>2. ASSUME pc = "end", caller.op = "join", PhaseOver PROVE FALSE
    <3>1. caller.tid \in Tids /\ IsFiniteSet(InState("RUNNING"))
      BY TidsFinite, FS_Subset DEF Consistent, TypeOK, InState
    <3>2. state[caller.tid] # "RUNNING"
      BY <2>2, <3>1, FS_EmptySet DEF PhaseOver, Consistent, Counted, InState
    <3>3. ~ Ahead(caller.tid)
      BY <2>2 DEF PhaseOver, Ahead, Consistent, TypeOK
    <3> QED BY <2>2, <3>2, <3>3 DEF Turn
  <2> QED BY <2>1, <2>2 DEF JoinEndsNoPhase
<1> QED BY <1>1, <1>2, <1>3, PTL DEF Spec

-----------------------------------------------------------------------------
(* The barrier implements the abstract phase barrier.                      *)

\* A step that changes the status of one thread only.
LEMMA OneStatus ==
    ASSUME NEW t \in Tids, NEW v, statusOf(t)' = v, \A x \in Tids : x # t => statusOf(x)' = statusOf(x)
    PROVE  Status' = [Status EXCEPT ![t] = v]
  BY DEF Status

LEMMA SameStatus ==
    ASSUME \A x \in Tids : statusOf(x)' = statusOf(x)
    PROVE  UNCHANGED Status
  BY DEF Status

\* The status of a thread in terms of its state and its place in the list.
LEMMA StatusValues ==
    ASSUME TypeOK, NEW x \in Tids
    PROVE  /\ statusOf(x) = "running" <=> state[x] = "RUNNING"
           /\ statusOf(x) = "ready" <=> state[x] = "WAITING" /\ Ahead(x)
           /\ statusOf(x) = "done" <=> state[x] = "WAITING" /\ ~ Ahead(x)
           /\ statusOf(x) = "out" <=> state[x] \in {"OFFLINE", "LEFT"}
  BY DEF TypeOK, States, statusOf

LEMMA RangeGrows ==
    ASSUME NEW a \in Nat, NEW b \in Nat, a <= b
    PROVE  0 .. a - 1 \subseteq 0 .. b - 1
  OBVIOUS

LEMMA AheadStays ==
    ASSUME Consistent, Consistent', UNCHANGED curThreadIdx, curThreadIdx = 0,
           \A x \in Tids : state'[x] = state[x] \/ (state[x] = "LEFT" /\ state'[x] = "OFFLINE")
    PROVE  UNCHANGED Status
<1>1. ASSUME NEW x \in Tids, state[x] = "WAITING" PROVE Ahead(x) /\ Ahead(x)'
  <2>1. Ahead(x)
    BY <1>1, RewoundAhead
  <2>2. TypeOK' /\ AtStage' /\ Listed(LiveSize)'
    BY DEF Consistent
  <2>3. newSize' \in 0 .. MAX_THREADS /\ runListSize' \in 0 .. MAX_THREADS
    BY <2>2 DEF TypeOK
  <2>4. CASE pc' = "clean"
    <3>1. newSize' <= runListSize' /\ \E k \in 0 .. newSize' - 1 : runList'[k] = x
      BY <1>1, <2>2, <2>4 DEF AtStage, LiveSize, Listed
    <3>2. newSize' \in Nat /\ runListSize' \in Nat
      BY <2>3, ThreadsAssumption
    <3>3. 0 .. newSize' - 1 \subseteq 0 .. runListSize' - 1
      BY <3>1, <3>2, RangeGrows
    <3>4. \E k \in 0 .. runListSize' - 1 : runList'[k] = x
      BY <3>1, <3>3
    <3> QED BY <2>1, <3>4 DEF Ahead
  <2>5. CASE pc' # "clean"
    <3>1. \E k \in 0 .. runListSize' - 1 : runList'[k] = x
      BY <1>1, <2>2, <2>5 DEF LiveSize, Listed
    <3> QED BY <2>1, <3>1 DEF Ahead
  <2> QED BY <2>4, <2>5
<1>2. \A x \in Tids : statusOf(x)' = statusOf(x)
  BY <1>1 DEF statusOf
<1> QED BY <1>2, SameStatus

LEMMA StepRefines ==
    ASSUME ~ abruptExit, Consistent, Consistent', IdxKnown, [Next]_vars
    PROVE  Abstract!Next \/ UNCHANGED Status
<1>0. TypeOK /\ ListTypes /\ OtherTypes /\ TypeOK'
  BY TypeParts DEF Consistent
<1>1. ASSUME NEW t \in Tids, join(t) PROVE Abstract!Next
  <2>1. /\ state[t] \in {"OFFLINE", "LEFT"} /\ state' = [state EXCEPT ![t] = "WAITING"]
        /\ \A x \in Tids : state'[x] = IF x = t THEN "WAITING" ELSE state[x]
    BY <1>0, <1>1 DEF join, join_offline, join_left, OtherTypes
  <2>2. Ahead(t)' /\ \A x \in Tids : x # t /\ state[x] = "WAITING" => (Ahead(x)' <=> Ahead(x))
    BY <1>1, JoinAhead
  <2>3. statusOf(t) = "out" /\ statusOf(t)' = "ready"
    BY <2>1, <2>2 DEF statusOf
  <2>4. \A x \in Tids : x # t => statusOf(x)' = statusOf(x)
    BY <2>1, <2>2 DEF statusOf
  <2>5. Status' = [Status EXCEPT ![t] = "ready"]
    BY <2>3, <2>4, OneStatus
  <2>6. Abstract!Join(t)
    BY <2>3, <2>5 DEF Abstract!Join, Abstract!Out, Status
  <2> QED BY <2>6 DEF Abstract!Next
<1>2. ASSUME NEW t \in Tids, leave_running(t) \/ sync(t) PROVE Abstract!Next
  <2>1. PICK b \in {"LEFT", "WAITING"} :
          /\ state[t] = "RUNNING" /\ state' = [state EXCEPT ![t] = b]
          /\ UNCHANGED <<runList, runListSize, curThreadIdx>> /\ pc = "free"
    BY <1>2 DEF leave_running, sync, list
  <2>2. \A x \in Tids : state'[x] = IF x = t THEN b ELSE state[x]
    BY <1>0, <2>1 DEF OtherTypes
  <2>3. \A x \in Tids : Ahead(x)' <=> Ahead(x)
    BY <2>1 DEF Ahead
  <2>4. \A x \in Tids : x # t => statusOf(x)' = statusOf(x)
    BY <2>2, <2>3 DEF statusOf
  <2>5. ~ Ahead(t)
    <3>1. /\ \A a, k \in 0 .. runListSize - 1 : runList[a] = runList[k] => a = k
          /\ runListSize \in Nat /\ curThreadIdx \in Nat
      BY <2>1, ListFacts
    <3>2. lastIdx[t] \in 0 .. runListSize - 1 /\ runList[lastIdx[t]] = t /\ lastIdx[t] < curThreadIdx
      BY <2>1 DEF IdxKnown, LiveSize
    <3>3. ASSUME NEW k \in curThreadIdx .. runListSize - 1, runList[k] = t PROVE FALSE
      <4>1. k \in 0 .. runListSize - 1 /\ k # lastIdx[t]
        BY <3>1, <3>2, <3>3
      <4> QED BY <3>1, <3>2, <3>3, <4>1
    <3> QED BY <3>3 DEF Ahead
  <2>6. statusOf(t) = "running"
    BY <2>1 DEF statusOf
  <2>7. CASE b = "LEFT"
    <3>1. statusOf(t)' = "out"
      BY <2>2, <2>7 DEF statusOf
    <3>2. Status' = [Status EXCEPT ![t] = "out"]
      BY <2>4, <3>1, OneStatus
    <3>3. Abstract!Leave(t)
      BY <2>6, <3>2 DEF Abstract!Leave, Abstract!Out, Status
    <3> QED BY <3>3 DEF Abstract!Next
  <2>8. CASE b = "WAITING"
    <3>1. statusOf(t)' = "done"
      BY <2>2, <2>3, <2>5, <2>8 DEF statusOf
    <3>2. Status' = [Status EXCEPT ![t] = "done"]
      BY <2>4, <3>1, OneStatus
    <3>3. Abstract!Sync(t)
      BY <2>6, <3>2 DEF Abstract!Sync, Abstract!Running, Status
    <3> QED BY <3>3 DEF Abstract!Next
  <2> QED BY <2>7, <2>8
<1>3. ASSUME NEW t \in Tids, leave_waiting(t) PROVE FALSE
  BY <1>3 DEF leave_waiting
<1>4. CASE wake_futex \/ checkRunList_done \/ (\E t \in Tids : resume(t)) \/ UNCHANGED vars
  <2>1. UNCHANGED <<state, runList, runListSize, curThreadIdx>>
    BY <1>4 DEF wake_futex, checkRunList_done, resume, threads, list, vars, barrier
  <2>2. \A x \in Tids : statusOf(x)' = statusOf(x)
    BY <2>1 DEF statusOf, Ahead
  <2> QED BY <2>2, SameStatus
<1>5. CASE cleanup_round \/ cleanup_done \/ shuffle
  <2>1. curThreadIdx' = curThreadIdx /\ curThreadIdx = 0
    BY <1>5 DEF cleanup_round, cleanup_done, shuffle, Consistent, AtStage
  <2>2. \A x \in Tids : state'[x] = state[x] \/ (state[x] = "LEFT" /\ state'[x] = "OFFLINE")
    BY <1>0, <1>5 DEF cleanup_round, cleanup_done, shuffle, threads, OtherTypes
  <2> QED BY <2>1, <2>2, AheadStays
<1>6. CASE wake_next
  <2>1. /\ pc \in {"wake1", "wake2"} /\ curThreadIdx < runListSize /\ curThreadIdx' = curThreadIdx + 1
        /\ UNCHANGED <<runList, runListSize>> /\ runningThreads < parallelThreads
    BY <1>6 DEF wake_next, CanWake
  <2>2. /\ \A k \in 0 .. runListSize - 1 : runList[k] \in Tids
        /\ runListSize \in Nat /\ curThreadIdx \in Nat
    BY <2>1, ListFacts
  <2>3. PICK w \in Tids : w = runList[curThreadIdx]
    BY <2>1, <2>2
  <2>4. ASSUME NEW x \in Tids, x # w PROVE Ahead(x)' <=> Ahead(x)
    <3>1. \A k \in curThreadIdx .. runListSize - 1 : k \in curThreadIdx' .. runListSize - 1 \/ k = curThreadIdx
      BY <2>1, <2>2
    <3>2. \A k \in curThreadIdx' .. runListSize - 1 : k \in curThreadIdx .. runListSize - 1
      BY <2>1, <2>2
    <3> QED BY <2>1, <2>3, <2>4, <3>1, <3>2 DEF Ahead
  <2>5. CASE state[w] # "WAITING" /\ UNCHANGED state
    <3>1. \A x \in Tids : statusOf(x)' = statusOf(x)
      BY <2>4, <2>5 DEF statusOf
    <3> QED BY <3>1, SameStatus
  <2>6. CASE state[w] = "WAITING" /\ state' = [state EXCEPT ![w] = "RUNNING"]
    <3>1. Ahead(w)
      <4>1. curThreadIdx \in curThreadIdx .. runListSize - 1
        BY <2>1, <2>2
      <4> QED BY <2>3, <4>1 DEF Ahead
    <3>2. \A x \in Tids : state'[x] = IF x = w THEN "RUNNING" ELSE state[x]
      BY <1>0, <2>6 DEF OtherTypes
    <3>3. \A x \in Tids : x # w => statusOf(x)' = statusOf(x)
      BY <2>4, <3>2 DEF statusOf
    <3>4. statusOf(w) = "ready" /\ statusOf(w)' = "running"
      BY <2>3, <2>6, <3>1, <3>2 DEF statusOf
    <3>5. Status' = [Status EXCEPT ![w] = "running"]
      BY <2>3, <3>3, <3>4, OneStatus
    <3>6. Abstract!Running = InState("RUNNING")
      BY <1>0, StatusValues DEF Abstract!Running, InState, Status
    <3>7. Cardinality(Abstract!Running) < parallelThreads
      BY <2>1, <3>6 DEF Consistent, Counted
    <3>8. w \in Abstract!Ready
      BY <2>3, <3>4 DEF Abstract!Ready, Status
    <3>9. Abstract!Run(w)
      BY <3>5, <3>7, <3>8 DEF Abstract!Run, Status, Abstract!Cardinality, Cardinality
    <3> QED BY <2>3, <3>9 DEF Abstract!Next
  <2> QED BY <1>6, <2>3, <2>5, <2>6 DEF wake_next, threads
<1>7. CASE checkEndPhase
  <2>1. CASE ~ PhaseOver
    <3>1. UNCHANGED <<state, runList, runListSize, curThreadIdx>>
      BY <1>7, <2>1 DEF checkEndPhase, threads
    <3>2. \A x \in Tids : statusOf(x)' = statusOf(x)
      BY <3>1 DEF statusOf, Ahead
    <3> QED BY <3>2, SameStatus
  <2>2. CASE PhaseOver
    <3>1. pc = "end" /\ curThreadIdx' = 0 /\ UNCHANGED <<state, runList, runListSize>>
      BY <1>7, <2>2 DEF checkEndPhase, threads
    <3>2. \A x \in Tids : ~ Ahead(x)
      BY <2>2 DEF PhaseOver, Ahead, Consistent, TypeOK
    <3>3. ASSUME NEW x \in Tids, state[x] = "WAITING" PROVE Ahead(x)'
      <4>1. PICK k \in 0 .. runListSize - 1 : runList[k] = x
        BY <3>1, <3>3, ListFacts
      <4> QED BY <3>1, <4>1 DEF Ahead
    <3>4. InState("RUNNING") = {}
      <4>1. IsFiniteSet(InState("RUNNING"))
        BY TidsFinite, FS_Subset DEF InState
      <4> QED BY <2>2, <4>1, FS_EmptySet DEF PhaseOver, Consistent, Counted
    <3>5. PICK y \in Tids : state[y] = "WAITING"
      BY <2>2, <3>1, SomebodyWaits DEF PhaseOver
    <3>6. \A x \in Tids : statusOf(x) \in {"done", "out"}
      BY <1>0, <3>2, <3>4 DEF statusOf, InState, OtherTypes, States
    <3>7. statusOf(y) = "done"
      BY <3>2, <3>5 DEF statusOf
    <3>8. \A x \in Tids : statusOf(x)' = IF statusOf(x) = "done" THEN "ready" ELSE statusOf(x)
      BY <3>1, <3>2, <3>3 DEF statusOf
    <3>9. Abstract!Ready = {} /\ Abstract!Running = {} /\ y \in Abstract!Done
      BY <3>6, <3>7 DEF Abstract!Ready, Abstract!Running, Abstract!Done, Status
    <3>10. Status' = [x \in Tids |-> IF x \in Abstract!Done THEN "ready" ELSE Status[x]]
      BY <3>8 DEF Status, Abstract!Done
    <3>11. Abstract!EndPhase
      BY <3>9, <3>10 DEF Abstract!EndPhase, Status
    <3> QED BY <3>11 DEF Abstract!Next
  <2> QED BY <2>1, <2>2
<1> QED BY <1>1, <1>2, <1>3, <1>4, <1>5, <1>6, <1>7 DEF Next, LockHolder

\* The barrier implements the abstract phase barrier when no process is
\* killed: every step of the code is a step of the abstract barrier or
\* changes nothing a thread can see.
THEOREM RefinementTheorem == Spec => ImplementsPhaseBarrier
<1>1. Init => Known
  BY InitConsistent, InitKnown DEF Known
<1>2. Known /\ [Next]_vars => Known'
  BY KnownStays
<1>3. Init => Abstract!Init
  BY DEF Init, Abstract!Init, Status, statusOf
<1>4. Known /\ Known' /\ [Next]_vars => [abruptExit \/ Abstract!Next]_Status
  BY StepRefines DEF Known
<1> QED BY <1>1, <1>2, <1>3, <1>4, PTL DEF Spec, ImplementsPhaseBarrier
=============================================================================
