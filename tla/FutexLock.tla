------------------------------ MODULE FutexLock ------------------------------
(***************************************************************************)
(* The futex lock of locks.h (futex_lock, futex_lock_nospin,               *)
(* futex_trylock_nospin_timeout, futex_unlock), one step per atomic access *)
(* to the lock word.  The kernel's wait queue is external: FUTEX_WAIT      *)
(* sleeps only if the word still has the expected value, FUTEX_WAKE wakes  *)
(* the longest sleeper, and a wait may end early (a timeout, a signal).    *)
(***************************************************************************)
EXTENDS Integers, Sequences

CONSTANT Threads

ASSUME ThreadsAssumption == Threads # {}

VARIABLES lock,   \* 0 free, 1 taken, 2 taken and perhaps waited for
          pc,     \* per thread: where it is
          timed,  \* per thread: TRUE in futex_trylock_nospin_timeout
          queue   \* kernel: threads asleep on the word, longest first

vars == <<lock, pc, timed, queue>>

Init ==
    /\ lock = 0
    /\ pc = [t \in Threads |-> "out"]
    /\ timed = [t \in Threads |-> FALSE]
    /\ queue = <<>>

goto(t, l) == pc' = [pc EXCEPT ![t] = l]

futex_lock(t) ==
    /\ pc[t] = "out"
    /\ goto(t, "spin")
    /\ timed' = [timed EXCEPT ![t] = FALSE]
    /\ UNCHANGED <<lock, queue>>

futex_trylock(t) ==
    /\ pc[t] = "out"
    /\ goto(t, "spin")
    /\ timed' = [timed EXCEPT ![t] = TRUE]
    /\ UNCHANGED <<lock, queue>>

\* The test and the compare-and-swap of one spin; the test alone changes
\* nothing.
spin_acquire(t) ==
    /\ pc[t] = "spin"
    /\ lock = 0
    /\ lock' = 1
    /\ goto(t, "critical")
    /\ UNCHANGED <<timed, queue>>

\* The last spin fails.
spin_giveup(t) ==
    /\ pc[t] = "spin"
    /\ lock # 0
    /\ goto(t, "exchange")
    /\ UNCHANGED <<lock, timed, queue>>

exchange(t) ==
    /\ pc[t] = "exchange"
    /\ lock' = 2
    /\ goto(t, IF lock = 0 THEN "critical" ELSE "wait")
    /\ UNCHANGED <<timed, queue>>

\* Mutant: the thread falls asleep whatever the word is.
futex_wait_blind(t) ==
    /\ pc[t] = "wait"
    /\ goto(t, "asleep")
    /\ queue' = Append(queue, t)
    /\ UNCHANGED <<lock, timed>>

futex_wait(t) ==
    /\ pc[t] = "wait"
    /\ \/ /\ lock = 2
          /\ goto(t, "asleep")
          /\ queue' = Append(queue, t)
       \/ /\ lock # 2
          /\ goto(t, "again")
          /\ UNCHANGED queue
    /\ UNCHANGED <<lock, timed>>

wake_early(t) ==
    /\ pc[t] = "asleep"
    /\ goto(t, "again")
    /\ \E k \in 1 .. Len(queue) :
          /\ queue[k] = t
          /\ queue' = SubSeq(queue, 1, k - 1) \o SubSeq(queue, k + 1, Len(queue))
    /\ UNCHANGED <<lock, timed>>

\* Mutant: the woken thread takes the lock without saying that others may
\* still sleep.
exchange_again_one(t) ==
    /\ pc[t] = "again"
    /\ lock' = IF lock = 0 THEN 1 ELSE 2
    /\ goto(t, IF lock = 0 THEN "critical" ELSE IF timed[t] THEN "out" ELSE "spin")
    /\ UNCHANGED <<timed, queue>>

exchange_again(t) ==
    /\ pc[t] = "again"
    /\ lock' = 2
    /\ goto(t, IF lock = 0 THEN "critical" ELSE IF timed[t] THEN "out" ELSE "spin")
    /\ UNCHANGED <<timed, queue>>

futex_unlock(t) ==
    /\ pc[t] = "critical"
    /\ lock' = lock - 1
    /\ goto(t, IF lock = 1 THEN "out" ELSE "clear")
    /\ UNCHANGED <<timed, queue>>

\* Mutant: the word is decremented again instead of cleared.
unlock_clear_again(t) ==
    /\ pc[t] = "clear"
    /\ lock' = lock - 1
    /\ goto(t, "wake")
    /\ UNCHANGED <<timed, queue>>

unlock_clear(t) ==
    /\ pc[t] = "clear"
    /\ lock' = 0
    /\ goto(t, "wake")
    /\ UNCHANGED <<timed, queue>>

unlock_wake(t) ==
    /\ pc[t] = "wake"
    /\ \/ /\ queue = <<>>
          /\ goto(t, "out")
          /\ UNCHANGED queue
       \/ /\ queue # <<>>
          /\ pc' = [pc EXCEPT ![t] = "out", ![Head(queue)] = "again"]
          /\ queue' = Tail(queue)
    /\ UNCHANGED <<lock, timed>>

Acquire(t) ==
    spin_acquire(t) \/ spin_giveup(t) \/ exchange(t) \/ futex_wait(t) \/ exchange_again(t)

Unlock(t) == futex_unlock(t) \/ unlock_clear(t) \/ unlock_wake(t)

Next ==
    \E t \in Threads :
        futex_lock(t) \/ futex_trylock(t) \/ wake_early(t) \/ Acquire(t) \/ Unlock(t)

Spec == Init /\ [][Next]_vars

\* A thread that is not blocked goes on, and the owner unlocks.
FairSpec == Spec /\ \A t \in Threads : WF_vars(Acquire(t)) /\ WF_vars(Unlock(t))

-----------------------------------------------------------------------------
Locations == {"out", "spin", "exchange", "wait", "asleep", "again", "critical", "clear", "wake"}

\* Between the decrement and the clearing store the thread still owns the
\* lock: nobody else can take it.
Owner(t) == pc[t] \in {"critical", "clear"}

\* Types.
TypeOK ==
    /\ lock \in 0 .. 2
    /\ pc \in [Threads -> Locations]
    /\ timed \in [Threads -> BOOLEAN]
    /\ queue \in Seq(Threads)

\* At most one thread owns the lock, and the word is 0 exactly when nobody
\* does, in every interleaving of the exchanges of waiting threads with the
\* decrement and the store of futex_unlock.
MutualExclusion ==
    /\ \A t, u \in Threads : Owner(t) /\ Owner(u) => t = u
    /\ lock = 0 <=> \A t \in Threads : ~ Owner(t)

\* No lost wake-up: while a thread sleeps in the kernel, the word says so,
\* or an unlock has its FUTEX_WAKE still ahead, or a woken thread is about
\* to set the word again.
NoLostWakeup ==
    queue # <<>> => lock = 2 \/ \E t \in Threads : pc[t] \in {"clear", "wake", "again"}

\* Somebody gets the lock whenever somebody wants it.
SomebodyEnters ==
    (\E t \in Threads : pc[t] \in {"spin", "exchange", "wait", "asleep", "again"} /\ ~ timed[t])
        ~> (\E t \in Threads : pc[t] = "critical")

=============================================================================
