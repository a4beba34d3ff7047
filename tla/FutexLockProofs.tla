--------------------------- MODULE FutexLockProofs ---------------------------
(***************************************************************************)
(* Safety of the futex lock for every set of threads.                      *)
(***************************************************************************)
EXTENDS FutexLock, SequenceTheorems, TLAPS

\* The wait queue stays a sequence of threads.
LEMMA QueueType ==
    ASSUME TypeOK, NEW t \in Threads
    PROVE  /\ Append(queue, t) \in Seq(Threads)
           /\ \A k \in 1 .. Len(queue) :
                 SubSeq(queue, 1, k - 1) \o SubSeq(queue, k + 1, Len(queue)) \in Seq(Threads)
           /\ queue # <<>> => Head(queue) \in Threads /\ Tail(queue) \in Seq(Threads)
  <1>1. Append(queue, t) \in Seq(Threads)
    BY DEF TypeOK
  <1>2. ASSUME NEW k \in 1 .. Len(queue)
        PROVE  SubSeq(queue, 1, k - 1) \o SubSeq(queue, k + 1, Len(queue)) \in Seq(Threads)
    <2>1. queue \in Seq(Threads) /\ Len(queue) \in Nat
      BY DEF TypeOK
    <2>2. SubSeq(queue, 1, k - 1) \in Seq(Threads)
      BY <2>1, SubSeqProperties
    <2>3. SubSeq(queue, k + 1, Len(queue)) \in Seq(Threads)
      BY <2>1, SubSeqProperties
    <2> QED  BY <2>2, <2>3, ConcatProperties
  <1>3. queue # <<>> => Head(queue) \in Threads /\ Tail(queue) \in Seq(Threads)
    BY DEF TypeOK
  <1> QED  BY <1>1, <1>2, <1>3

\* The threads in the kernel's queue are asleep, and each is there once.
Queued ==
    /\ \A k \in 1 .. Len(queue) : pc[queue[k]] = "asleep"
    /\ \A j, k \in 1 .. Len(queue) : queue[j] = queue[k] => j = k

\* A step of the lock keeps the types.
LEMMA TypeStep ==
    ASSUME TypeOK, MutualExclusion, [Next]_vars
    PROVE  TypeOK'
  <1>1. CASE UNCHANGED vars
    BY <1>1 DEF TypeOK, vars
  <1>2. CASE Next
    <2> PICK t \in Threads : futex_lock(t) \/ futex_trylock(t) \/ wake_early(t) \/ Acquire(t) \/ Unlock(t)
      BY <1>2 DEF Next
    <2>1. CASE futex_lock(t) \/ futex_trylock(t)
      BY <2>1 DEF futex_lock, futex_trylock, goto, TypeOK, Locations
    <2>2. CASE wake_early(t)
      BY <2>2, QueueType DEF wake_early, goto, TypeOK, Locations
    <2>3. CASE Acquire(t)
      <3>1. CASE spin_acquire(t) \/ spin_giveup(t) \/ exchange(t)
        BY <3>1 DEF spin_acquire, spin_giveup, exchange, goto, TypeOK, Locations
      <3>2. CASE futex_wait(t)
        BY <3>2, QueueType DEF futex_wait, goto, TypeOK, Locations
      <3>3. CASE exchange_again(t)
        BY <3>3 DEF exchange_again, goto, TypeOK, Locations
      <3> QED
        BY <2>3, <3>1, <3>2, <3>3 DEF Acquire
    <2>4. CASE futex_unlock(t)
      BY <2>4 DEF futex_unlock, goto, TypeOK, Locations, MutualExclusion, Owner
    <2>5. CASE unlock_clear(t)
      BY <2>5 DEF unlock_clear, goto, TypeOK, Locations
    <2>6. CASE unlock_wake(t)
      BY <2>6, QueueType DEF unlock_wake, goto, TypeOK, Locations
    <2> QED  BY <2>1, <2>2, <2>3, <2>4, <2>5, <2>6 DEF Unlock
  <1> QED  BY <1>1, <1>2

\* Removing the k-th element of a sequence.
LEMMA Removal ==
    ASSUME NEW S, NEW s \in Seq(S), NEW k \in 1 .. Len(s)
    PROVE  LET r == SubSeq(s, 1, k - 1) \o SubSeq(s, k + 1, Len(s))
           IN  /\ Len(r) = Len(s) - 1
               /\ \A i \in 1 .. Len(s) - 1 : r[i] = IF i < k THEN s[i] ELSE s[i + 1]
  <1> DEFINE a == SubSeq(s, 1, k - 1)
             b == SubSeq(s, k + 1, Len(s))
  <1>1. Len(s) \in Nat /\ k \in Nat /\ 1 <= k /\ k <= Len(s)
    OBVIOUS
  <1>2. /\ a \in Seq(S)
        /\ Len(a) = k - 1
        /\ \A i \in 1 .. k - 1 : a[i] = s[i]
    BY <1>1, SubSeqProperties
  <1>3. /\ b \in Seq(S)
        /\ Len(b) = Len(s) - k
        /\ \A i \in 1 .. Len(s) - k : b[i] = s[k + i]
    BY <1>1, SubSeqProperties
  <1>4. /\ Len(a \o b) = Len(a) + Len(b)
        /\ \A i \in 1 .. Len(a) + Len(b) : (a \o b)[i] = IF i <= Len(a) THEN a[i] ELSE b[i - Len(a)]
    BY <1>2, <1>3, ConcatProperties
  <1> HIDE DEF a, b
  <1>5. Len(a \o b) = Len(s) - 1
    BY <1>1, <1>2, <1>3, <1>4
  <1>6. ASSUME NEW i \in 1 .. Len(s) - 1
        PROVE  (a \o b)[i] = IF i < k THEN s[i] ELSE s[i + 1]
    <2>1. (a \o b)[i] = IF i <= k - 1 THEN a[i] ELSE b[i - (k - 1)]
      BY <1>1, <1>2, <1>3, <1>4
    <2>2. CASE i < k
      BY <1>1, <1>2, <2>1, <2>2
    <2>3. CASE ~ (i < k)
      <3>1. i - (k - 1) \in 1 .. Len(s) - k /\ k + (i - (k - 1)) = i + 1 /\ ~ (i <= k - 1)
        BY <1>1, <2>3
      <3> QED  BY <1>3, <2>1, <2>3, <3>1
    <2> QED  BY <2>2, <2>3
  <1> QED  BY <1>5, <1>6 DEF a, b

\* A step of the lock keeps the sleeping threads in the queue.
LEMMA QueuedStep ==
    ASSUME TypeOK, Queued, [Next]_vars
    PROVE  Queued'
  <1> USE DEF goto
  <1>0. queue \in Seq(Threads) /\ Len(queue) \in Nat /\ pc \in [Threads -> Locations]
    BY DEF TypeOK
  <1>1. CASE UNCHANGED vars
    BY <1>1 DEF vars, Queued
  <1>2. CASE Next
    <2> PICK t \in Threads : futex_lock(t) \/ futex_trylock(t) \/ wake_early(t) \/ Acquire(t) \/ Unlock(t)
      BY <1>2 DEF Next
    <2>1. ASSUME UNCHANGED queue, pc[t] # "asleep", NEW l \in Locations, goto(t, l)
          PROVE  Queued'
      BY <1>0, <2>1 DEF Queued
    <2>2. CASE futex_lock(t) \/ futex_trylock(t)
      BY <2>1, <2>2 DEF futex_lock, futex_trylock, Locations
    <2>3. CASE spin_acquire(t) \/ spin_giveup(t) \/ exchange(t) \/ exchange_again(t)
      BY <2>1, <2>3 DEF spin_acquire, spin_giveup, exchange, exchange_again, Locations
    <2>4. CASE futex_unlock(t) \/ unlock_clear(t)
      BY <2>1, <2>4 DEF futex_unlock, unlock_clear, Locations
    <2>5. CASE futex_wait(t)
      <3>1. CASE lock # 2
        BY <2>1, <2>5, <3>1 DEF futex_wait, Locations
      <3>2. CASE lock = 2
        <4>1. /\ queue' = Append(queue, t)
              /\ pc[t] = "wait"
              /\ pc' = [pc EXCEPT ![t] = "asleep"]
          BY <2>5, <3>2 DEF futex_wait
        <4>2. /\ Len(queue') = Len(queue) + 1
              /\ queue'[Len(queue) + 1] = t
              /\ \A i \in 1 .. Len(queue) : queue'[i] = queue[i]
          BY <1>0, <4>1
        <4>3. \A i \in 1 .. Len(queue) : queue[i] # t
          BY <4>1 DEF Queued
        <4>4. \A i \in 1 .. Len(queue') : pc'[queue'[i]] = "asleep"
          BY <1>0, <4>1, <4>2, <4>3 DEF Queued
        <4>5. \A i, j \in 1 .. Len(queue') : queue'[i] = queue'[j] => i = j
          BY <1>0, <4>1, <4>2, <4>3 DEF Queued
        <4> QED  BY <4>4, <4>5 DEF Queued
      <3> QED  BY <3>1, <3>2
    <2>6. CASE wake_early(t)
      <3>0. PICK k \in 1 .. Len(queue) :
             queue[k] = t /\ queue' = SubSeq(queue, 1, k - 1) \o SubSeq(queue, k + 1, Len(queue))
        BY <2>6 DEF wake_early
      <3>1. /\ Len(queue') = Len(queue) - 1
            /\ \A i \in 1 .. Len(queue) - 1 : queue'[i] = IF i < k THEN queue[i] ELSE queue[i + 1]
        BY <1>0, <3>0, Removal
      <3>2. pc' = [pc EXCEPT ![t] = "again"] /\ queue[k] = t
        BY <2>6, <3>0 DEF wake_early
      <3>3. \A i \in 1 .. Len(queue') :
               \E j \in 1 .. Len(queue) : queue'[i] = queue[j] /\ j # k /\ j = IF i < k THEN i ELSE i + 1
        BY <1>0, <3>1
      <3>4. \A i \in 1 .. Len(queue') : pc'[queue'[i]] = "asleep"
        <4> TAKE i \in 1 .. Len(queue')
        <4>1. PICK j \in 1 .. Len(queue) : queue'[i] = queue[j] /\ j # k
          BY <3>3
        <4>2. queue[j] \in Threads
          BY <1>0
        <4>3. queue[j] # queue[k]
          BY <4>1 DEF Queued
        <4>4. pc[queue[j]] = "asleep"
          BY DEF Queued
        <4> QED  BY <1>0, <3>2, <4>1, <4>2, <4>3, <4>4
      <3>5. \A i, j \in 1 .. Len(queue') : queue'[i] = queue'[j] => i = j
        BY <1>0, <3>3 DEF Queued
      <3> QED  BY <3>4, <3>5 DEF Queued
    <2>7. CASE unlock_wake(t)
      <3>1. CASE queue = <<>>
        BY <2>1, <2>7, <3>1 DEF unlock_wake, Locations
      <3>2. CASE queue # <<>>
        <4>1. /\ pc[t] = "wake"
              /\ pc' = [pc EXCEPT ![t] = "out", ![Head(queue)] = "again"]
              /\ queue' = Tail(queue)
          BY <2>7, <3>2 DEF unlock_wake
        <4>2. /\ Head(queue) = queue[1]
              /\ Len(queue') = Len(queue) - 1
              /\ \A i \in 1 .. Len(queue') : queue'[i] = queue[i + 1]
              /\ 1 \in 1 .. Len(queue)
          BY <1>0, <3>2, <4>1
        <4>3. \A i \in 1 .. Len(queue) : queue[i] \in Threads /\ queue[i] # t
          BY <1>0, <4>1 DEF Queued
        <4> QED  BY <1>0, <4>1, <4>2, <4>3 DEF Queued
      <3> QED  BY <3>1, <3>2
    <2> QED  BY <2>2, <2>3, <2>4, <2>5, <2>6, <2>7 DEF Acquire, Unlock
  <1> QED  BY <1>1, <1>2

\* A step of the lock keeps one owner: a thread becomes the owner only from
\* word 0, and only the owner makes the word 0.
LEMMA ExclusionStep ==
    ASSUME TypeOK, Queued, MutualExclusion, [Next]_vars
    PROVE  MutualExclusion'
  <1> USE DEF MutualExclusion, Owner, goto, TypeOK
  <1>1. CASE UNCHANGED vars
    BY <1>1 DEF vars
  <1>2. CASE Next
    <2> PICK t \in Threads : futex_lock(t) \/ futex_trylock(t) \/ wake_early(t) \/ Acquire(t) \/ Unlock(t)
      BY <1>2 DEF Next
    <2>1. CASE futex_lock(t) \/ futex_trylock(t) \/ wake_early(t)
      BY <2>1 DEF futex_lock, futex_trylock, wake_early
    <2>2. CASE spin_acquire(t) \/ spin_giveup(t)
      BY <2>2 DEF spin_acquire, spin_giveup
    <2>3. CASE exchange(t) \/ exchange_again(t)
      BY <2>3 DEF exchange, exchange_again
    <2>4. CASE futex_wait(t)
      BY <2>4 DEF futex_wait
    <2>5. CASE futex_unlock(t)
      BY <2>5 DEF futex_unlock
    <2>6. CASE unlock_clear(t)
      BY <2>6 DEF unlock_clear
    <2>7. CASE unlock_wake(t)
      <3>1. \A u \in Threads : Owner(u)' <=> Owner(u)
        <4>1. CASE queue = <<>>
          BY <2>7, <4>1 DEF unlock_wake
        <4>2. CASE queue # <<>>
          <5>1. Head(queue) \in Threads /\ pc[Head(queue)] = "asleep"
            BY <4>2, QueueType DEF Queued
          <5> QED  BY <2>7, <4>2, <5>1 DEF unlock_wake
        <4> QED  BY <4>1, <4>2
      <3> QED  BY <2>7, <3>1 DEF unlock_wake
    <2> QED  BY <2>1, <2>2, <2>3, <2>4, <2>5, <2>6, <2>7 DEF Acquire, Unlock
  <1> QED  BY <1>1, <1>2

\* A step of the lock loses no wake-up.
LEMMA WakeupStep ==
    ASSUME TypeOK, NoLostWakeup, [Next]_vars
    PROVE  NoLostWakeup'
  <1> USE DEF NoLostWakeup, goto, TypeOK
  <1>1. CASE UNCHANGED vars
    BY <1>1 DEF vars
  <1>2. CASE Next
    <2> PICK t \in Threads : futex_lock(t) \/ futex_trylock(t) \/ wake_early(t) \/ Acquire(t) \/ Unlock(t)
      BY <1>2 DEF Next
    <2>1. CASE futex_lock(t) \/ futex_trylock(t) \/ wake_early(t)
      BY <2>1 DEF futex_lock, futex_trylock, wake_early
    <2>2. CASE spin_acquire(t) \/ spin_giveup(t)
      BY <2>2 DEF spin_acquire, spin_giveup
    <2>3. CASE exchange(t) \/ exchange_again(t)
      BY <2>3 DEF exchange, exchange_again
    <2>4. CASE futex_wait(t)
      BY <2>4 DEF futex_wait
    <2>5. CASE futex_unlock(t) \/ unlock_clear(t)
      BY <2>5 DEF futex_unlock, unlock_clear
    <2>6. CASE unlock_wake(t)
      <3>1. CASE queue = <<>>
        BY <2>6, <3>1 DEF unlock_wake
      <3>2. CASE queue # <<>>
        <4>1. Head(queue) \in Threads
          BY <3>2, QueueType
        <4>2. pc'[Head(queue)] = "again"
          BY <2>6, <3>2, <4>1 DEF unlock_wake
        <4> QED  BY <4>1, <4>2
      <3> QED  BY <3>1, <3>2
    <2> QED  BY <2>1, <2>2, <2>3, <2>4, <2>5, <2>6 DEF Acquire, Unlock
  <1> QED  BY <1>1, <1>2

\* The futex lock has at most one owner and its word is 0 exactly when it has
\* none, for every set of threads (futex_lock and futex_unlock of locks.h).
THEOREM MutualExclusionTheorem == Spec => [](TypeOK /\ MutualExclusion)
  <1>1. Init => TypeOK /\ Queued /\ MutualExclusion
    BY DEF Init, TypeOK, Locations, Queued, MutualExclusion, Owner
  <1>2. TypeOK /\ Queued /\ MutualExclusion /\ [Next]_vars => (TypeOK /\ Queued /\ MutualExclusion)'
    BY TypeStep, QueuedStep, ExclusionStep
  <1> QED  BY <1>1, <1>2, PTL DEF Spec

\* While a thread sleeps on the futex, the word says so or somebody is about
\* to wake it or to set the word (the exchanges of futex_lock).
THEOREM NoLostWakeupTheorem == Spec => []NoLostWakeup
  <1>1. Init => NoLostWakeup
    BY DEF Init, NoLostWakeup
  <1>2. TypeOK /\ NoLostWakeup /\ [Next]_vars => NoLostWakeup'
    BY WakeupStep
  <1> QED  BY <1>1, <1>2, MutualExclusionTheorem, PTL DEF Spec
=============================================================================
