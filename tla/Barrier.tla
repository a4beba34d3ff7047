------------------------------- MODULE Barrier -------------------------------
(***************************************************************************)
(* The phase barrier (barrier.h).  Its operations are called with          *)
(* schedLock held; the loops that wake threads, end a phase, drop the      *)
(* threads that left and shuffle the run list are steps of the thread that *)
(* holds the lock.  Meanwhile threads that wait on their futex may go on   *)
(* as soon as their futexWord has been cleared.                            *)
(***************************************************************************)
EXTENDS Naturals, FiniteSets

CONSTANTS MAX_THREADS,      \* length of threadList and runList
          parallelThreads,  \* threads that may run at a time
          CleanupPeriod     \* phases between two cleanup passes (32)

ASSUME ThreadsAssumption == MAX_THREADS \in Nat \ {0}
ASSUME ParallelAssumption == parallelThreads \in Nat \ {0}
ASSUME PeriodAssumption == CleanupPeriod \in Nat \ {0}

Tids == 0 .. MAX_THREADS - 1

VARIABLES state, futexWord, lastIdx,   \* threadList, per thread
          runList, runListSize, curThreadIdx,
          runningThreads, leftThreads,
          phaseCount,                  \* modulo CleanupPeriod
          pc,                          \* what the holder of schedLock does
          caller,                      \* the operation it does it for
          idx, newSize,                \* locals of the cleanup pass
          place,                       \* per thread: outside, waiting on its
                                       \* futex, or inside (simulating)
          abruptExit                   \* environment: TRUE when a process may
                                       \* be killed, its threads then leave
                                       \* wherever they are

threads == <<state, futexWord, lastIdx>>
list == <<runList, runListSize, curThreadIdx>>
counts == <<runningThreads, leftThreads, phaseCount>>
barrier == <<threads, list, counts, pc, caller, idx, newSize, place>>
vars == <<barrier, abruptExit>>

States == {"OFFLINE", "WAITING", "RUNNING", "LEFT"}
Loops == {"wake1", "futex1", "end", "clean", "shuffle", "wake2", "futex2"}

-----------------------------------------------------------------------------
\* lastIdx is not initialised.
Init ==
    /\ state = [t \in Tids |-> "OFFLINE"]
    /\ futexWord = [t \in Tids |-> 0]
    /\ lastIdx \in [Tids -> Tids]
    /\ runList = [k \in Tids |-> 0]
    /\ runListSize = 0 /\ curThreadIdx = 0
    /\ runningThreads = 0 /\ leftThreads = 0 /\ phaseCount = 0
    /\ pc = "free" /\ caller = [op |-> "none", tid |-> 0]
    /\ idx = 0 /\ newSize = 0
    /\ place = [t \in Tids |-> "out"]
    /\ abruptExit \in BOOLEAN

\* Every operation ends in tryWakeNext.
tryWakeNext(op, t) ==
    /\ pc' = "wake1"
    /\ caller' = [op |-> op, tid |-> t]
    /\ UNCHANGED <<phaseCount, idx, newSize>>

join_offline(t) ==
    /\ state[t] = "OFFLINE"
    /\ runList' = [runList EXCEPT ![runListSize] = t]
    /\ runListSize' = runListSize + 1
    /\ UNCHANGED <<lastIdx, curThreadIdx, leftThreads>>

\* Mutant: the swapped thread keeps its old lastIdx.
join_left_norank(t) ==
    /\ state[t] = "LEFT"
    /\ leftThreads' = leftThreads - 1
    /\ \/ /\ curThreadIdx > lastIdx[t]
          /\ runList[lastIdx[t]] = t
          /\ LET other == runList[curThreadIdx - 1]
             IN  /\ runList' = [runList EXCEPT ![lastIdx[t]] = other, ![curThreadIdx - 1] = t]
                 /\ lastIdx' = [lastIdx EXCEPT ![t] = curThreadIdx - 1]
          /\ curThreadIdx' = curThreadIdx - 1
       \/ /\ curThreadIdx <= lastIdx[t]
          /\ UNCHANGED <<runList, lastIdx, curThreadIdx>>
    /\ UNCHANGED runListSize

\* A thread that has already run in this phase is put back in front of the
\* threads still to run; the assertion is a conjunct.
join_left(t) ==
    /\ state[t] = "LEFT"
    /\ leftThreads' = leftThreads - 1
    /\ \/ /\ curThreadIdx > lastIdx[t]
          /\ runList[lastIdx[t]] = t
          /\ LET other == runList[curThreadIdx - 1]
             IN  /\ runList' = [runList EXCEPT ![lastIdx[t]] = other, ![curThreadIdx - 1] = t]
                 /\ lastIdx' = [lastIdx EXCEPT ![other] = lastIdx[t], ![t] = curThreadIdx - 1]
          /\ curThreadIdx' = curThreadIdx - 1
       \/ /\ curThreadIdx <= lastIdx[t]
          /\ UNCHANGED <<runList, lastIdx, curThreadIdx>>
    /\ UNCHANGED runListSize

join(t) ==
    /\ pc = "free"
    /\ place[t] = "out"
    /\ join_offline(t) \/ join_left(t)
    /\ state' = [state EXCEPT ![t] = "WAITING"]
    /\ futexWord' = [futexWord EXCEPT ![t] = 1]
    /\ place' = [place EXCEPT ![t] = "wait"]
    /\ tryWakeNext("join", t)
    /\ UNCHANGED runningThreads

\* Mutant: nobody is woken in place of the thread that leaves.
leave_running_silent(t) ==
    /\ pc = "free"
    /\ place[t] = "in" \/ (abruptExit /\ place[t] = "wait")
    /\ state[t] = "RUNNING"
    /\ state' = [state EXCEPT ![t] = "LEFT"]
    /\ leftThreads' = leftThreads + 1
    /\ runningThreads' = runningThreads - 1
    /\ place' = [place EXCEPT ![t] = "out"]
    /\ UNCHANGED <<phaseCount, pc, caller, idx, newSize>>
    /\ UNCHANGED <<futexWord, lastIdx, list>>

leave_running(t) ==
    /\ pc = "free"
    /\ place[t] = "in" \/ (abruptExit /\ place[t] = "wait")
    /\ state[t] = "RUNNING"
    /\ state' = [state EXCEPT ![t] = "LEFT"]
    /\ leftThreads' = leftThreads + 1
    /\ runningThreads' = runningThreads - 1
    /\ place' = [place EXCEPT ![t] = "out"]
    /\ tryWakeNext("leave", t)
    /\ UNCHANGED <<futexWord, lastIdx, list>>

\* Mutant: the thread is not counted as left.
leave_waiting_uncounted(t) ==
    /\ abruptExit
    /\ pc = "free"
    /\ place[t] = "wait"
    /\ state[t] = "WAITING"
    /\ state' = [state EXCEPT ![t] = "LEFT"]
    /\ UNCHANGED leftThreads
    /\ place' = [place EXCEPT ![t] = "out"]
    /\ UNCHANGED <<futexWord, lastIdx, list, runningThreads, phaseCount, pc, caller, idx, newSize>>

\* leave on behalf of a thread that was killed while it waited.
leave_waiting(t) ==
    /\ abruptExit
    /\ pc = "free"
    /\ place[t] = "wait"
    /\ state[t] = "WAITING"
    /\ state' = [state EXCEPT ![t] = "LEFT"]
    /\ leftThreads' = leftThreads + 1
    /\ place' = [place EXCEPT ![t] = "out"]
    /\ UNCHANGED <<futexWord, lastIdx, list, runningThreads, phaseCount, pc, caller, idx, newSize>>

sync(t) ==
    /\ pc = "free"
    /\ place[t] = "in"
    /\ state[t] = "RUNNING"
    /\ futexWord' = [futexWord EXCEPT ![t] = 1]
    /\ state' = [state EXCEPT ![t] = "WAITING"]
    /\ runningThreads' = runningThreads - 1
    /\ place' = [place EXCEPT ![t] = "wait"]
    /\ tryWakeNext("sync", t)
    /\ UNCHANGED <<lastIdx, list, leftThreads>>

\* The end of join and of sync: with the lock released, the thread goes on
\* when it is not WAITING any more or its futexWord has been cleared.  (Once
\* in FUTEX_WAIT it looks at futexWord only; the first test is left open to it.)
resume(t) ==
    /\ place[t] = "wait"
    /\ pc = "free" \/ caller.tid # t
    /\ state[t] # "WAITING" \/ futexWord[t] # 1
    /\ place' = [place EXCEPT ![t] = "in"]
    /\ UNCHANGED <<threads, list, counts, pc, caller, idx, newSize>>

-----------------------------------------------------------------------------
\* One round of checkRunList, twice in tryWakeNext.  The thread that is woken
\* reads its state and its futexWord without the lock, so the two writes are
\* two steps; the counters are read with the lock held only.
CanWake == runningThreads < parallelThreads /\ curThreadIdx < runListSize

\* Mutant: futexWord is cleared before the state is set.
wake_next_swapped ==
    LET w == runList[curThreadIdx]
    IN  /\ pc \in {"wake1", "wake2"}
        /\ CanWake
        /\ curThreadIdx' = curThreadIdx + 1
        /\ \/ /\ state[w] = "WAITING"
              /\ futexWord' = [futexWord EXCEPT ![w] = 0]
              /\ lastIdx' = [lastIdx EXCEPT ![w] = curThreadIdx]
              /\ runningThreads' = runningThreads + 1
              /\ pc' = IF pc = "wake1" THEN "futex1" ELSE "futex2"
              /\ UNCHANGED state
           \/ /\ state[w] # "WAITING"
              /\ UNCHANGED <<threads, runningThreads, pc>>
        /\ UNCHANGED <<runList, runListSize, leftThreads, phaseCount, caller, idx, newSize, place>>

wake_next ==
    LET w == runList[curThreadIdx]
    IN  /\ pc \in {"wake1", "wake2"}
        /\ CanWake
        /\ curThreadIdx' = curThreadIdx + 1
        /\ \/ /\ state[w] = "WAITING"
              /\ state' = [state EXCEPT ![w] = "RUNNING"]
              /\ lastIdx' = [lastIdx EXCEPT ![w] = curThreadIdx]
              /\ runningThreads' = runningThreads + 1
              /\ pc' = IF pc = "wake1" THEN "futex1" ELSE "futex2"
              /\ UNCHANGED futexWord
           \/ /\ state[w] # "WAITING"
              /\ UNCHANGED <<threads, runningThreads, pc>>
        /\ UNCHANGED <<runList, runListSize, leftThreads, phaseCount, caller, idx, newSize, place>>

\* The compare-and-swap of futexWord, whose failure is a panic.  FUTEX_WAKE
\* follows; a thread that looks in between does not sleep at all.
wake_futex ==
    LET w == runList[curThreadIdx - 1]
    IN  /\ pc \in {"futex1", "futex2"}
        /\ futexWord[w] = 1
        /\ futexWord' = [futexWord EXCEPT ![w] = 0]
        /\ pc' = IF pc = "futex1" THEN "wake1" ELSE "wake2"
        /\ UNCHANGED <<state, lastIdx, list, counts, caller, idx, newSize, place>>

checkRunList_done ==
    /\ pc \in {"wake1", "wake2"}
    /\ ~ CanWake
    /\ pc' = IF pc = "wake1" THEN "end" ELSE "free"
    /\ UNCHANGED <<threads, list, counts, caller, idx, newSize, place>>

\* Mutant: running threads are not waited for.
PhaseOver_early == curThreadIdx = runListSize /\ leftThreads # runListSize

\* Mutant: threads that left are waited for.
PhaseOver_stuck == curThreadIdx = runListSize /\ runningThreads = 0 /\ leftThreads = 0 /\ runListSize # 0

PhaseOver == curThreadIdx = runListSize /\ runningThreads = 0 /\ leftThreads # runListSize

checkEndPhase ==
    /\ pc = "end"
    /\ \/ /\ PhaseOver
          /\ curThreadIdx' = 0
          /\ phaseCount' = (phaseCount + 1) % CleanupPeriod
          /\ IF phaseCount = 0
             THEN pc' = "clean" /\ idx' = 0 /\ newSize' = runListSize
             ELSE pc' = "shuffle" /\ UNCHANGED <<idx, newSize>>
       \/ /\ ~ PhaseOver
          /\ pc' = "wake2"
          /\ UNCHANGED <<curThreadIdx, phaseCount, idx, newSize>>
    /\ UNCHANGED <<threads, runList, runListSize, runningThreads, leftThreads, caller, place>>

\* One round of the cleanup pass: a thread that left goes OFFLINE and the
\* last thread of the list takes its place.
cleanup_round ==
    LET w == runList[idx]
        s == runList[newSize - 1]
    IN  /\ pc = "clean"
        /\ idx < newSize
        /\ \/ /\ state[w] = "LEFT"
              /\ state' = [state EXCEPT ![w] = "OFFLINE"]
              /\ runList' = [runList EXCEPT ![idx] = s]
              /\ lastIdx' = [lastIdx EXCEPT ![s] = idx]
              /\ newSize' = newSize - 1
              /\ UNCHANGED idx
           \/ /\ state[w] # "LEFT"
              /\ idx' = idx + 1
              /\ UNCHANGED <<state, runList, lastIdx, newSize>>
        /\ UNCHANGED <<futexWord, runListSize, curThreadIdx, counts, pc, caller, place>>

cleanup_done ==
    /\ pc = "clean"
    /\ idx >= newSize
    /\ runListSize - newSize = leftThreads
    /\ leftThreads' = 0
    /\ runListSize' = newSize
    /\ pc' = "shuffle"
    /\ UNCHANGED <<threads, runList, curThreadIdx, runningThreads, phaseCount, caller, idx, newSize, place>>

\* The Fisher-Yates shuffle reaches every order of the list.  Every thread
\* it moves gets its new lastIdx; the first of the list may never be moved.
Shuffles ==
    {f \in [0 .. runListSize - 1 -> 0 .. runListSize - 1] :
        \A a, b \in 0 .. runListSize - 1 : f[a] = f[b] => a = b}

shuffle ==
    /\ pc = "shuffle"
    /\ \/ /\ parallelThreads < runListSize
          /\ \E f \in Shuffles :
                LET at(k) == IF k < runListSize THEN runList[f[k]] ELSE runList[k]
                    moved(t, k) == k < runListSize /\ at(k) = t
                IN  /\ runList' = [k \in Tids |-> at(k)]
                    /\ lastIdx' \in [Tids -> Tids]
                    /\ \A t \in Tids :
                          \/ \E k \in Tids : moved(t, k) /\ lastIdx'[t] = k
                          \/ moved(t, 0) /\ f[0] = 0 /\ lastIdx'[t] = lastIdx[t]
                          \/ (\A k \in Tids : ~ moved(t, k)) /\ lastIdx'[t] = lastIdx[t]
       \/ /\ parallelThreads >= runListSize
          /\ UNCHANGED <<runList, lastIdx>>
    /\ pc' = "wake2"
    /\ UNCHANGED <<state, futexWord, runListSize, curThreadIdx, counts, caller, idx, newSize, place>>

-----------------------------------------------------------------------------
LockHolder == wake_next \/ wake_futex \/ checkRunList_done \/ checkEndPhase \/ cleanup_round \/ cleanup_done \/ shuffle

Next ==
    /\ \/ \E t \in Tids : join(t) \/ leave_running(t) \/ leave_waiting(t) \/ sync(t) \/ resume(t)
       \/ LockHolder
    /\ UNCHANGED abruptExit

Spec == Init /\ [][Next]_vars

\* The holder of schedLock finishes, a cleared futex is noticed, and a
\* thread inside the barrier ends its phase and gets schedLock for that,
\* however often others take the lock (futex_lock is not fair, so this is an
\* assumption on the contention, not on one acquisition).
Fairness ==
    /\ WF_barrier(LockHolder)
    /\ \A t \in Tids : WF_barrier(resume(t)) /\ SF_barrier(sync(t))

FairSpec == Spec /\ Fairness

-----------------------------------------------------------------------------
\* Types and ranges of the barrier's fields.
TypeOK ==
    /\ state \in [Tids -> States]
    /\ futexWord \in [Tids -> {0, 1}]
    /\ lastIdx \in [Tids -> Tids]
    /\ runList \in [Tids -> Tids]
    /\ runListSize \in 0 .. MAX_THREADS
    /\ curThreadIdx \in 0 .. runListSize
    /\ runningThreads \in Nat /\ leftThreads \in Nat
    /\ phaseCount \in 0 .. CleanupPeriod - 1
    /\ pc \in Loops \cup {"free"}
    /\ caller \in [op : {"none", "join", "leave", "sync"}, tid : Tids]
    /\ newSize \in 0 .. MAX_THREADS /\ idx \in 0 .. newSize
    /\ place \in [Tids -> {"out", "wait", "in"}]

InState(s) == {t \in Tids : state[t] = s}
Members == {t \in Tids : state[t] # "OFFLINE"}
LiveSize == IF pc = "clean" THEN newSize ELSE runListSize

\* runList names every thread known to the barrier exactly once, whatever
\* the joins, the same-phase reschedules, the cleanup pass and the shuffle
\* did to it; during the cleanup pass its first newSize entries do.
RunListExact ==
    /\ \A a, b \in 0 .. LiveSize - 1 : runList[a] = runList[b] => a = b
    /\ {runList[k] : k \in 0 .. LiveSize - 1} = Members

\* The comment on the counters: runListSize - runningThreads - leftThreads
\* is the number of waiting threads, so a phase is never ended early or
\* late because of a miscounted thread.
CountersExact ==
    /\ runningThreads = Cardinality(InState("RUNNING"))
    /\ runningThreads <= parallelThreads
    /\ pc # "clean" =>
          /\ leftThreads = Cardinality(InState("LEFT"))
          /\ runListSize - runningThreads - leftThreads = Cardinality(InState("WAITING"))

\* The list and the counters kept beside it agree with the states of the
\* threads, after any mix of joins, leaves (killed threads included), phase
\* ends, cleanup passes and shuffles.
ListAndCountersExact == RunListExact /\ CountersExact

\* The assertion at the end of the cleanup pass: as many threads were
\* dropped as had left.
CleanupAgrees ==
    pc = "clean" /\ idx >= newSize => runListSize - newSize = leftThreads

\* checkRunList never panics with "Wakeup race in barrier?", and a thread
\* that comes out of its futex wait finds itself RUNNING, wherever between
\* the two writes of checkRunList it looks ("must be set before writing to
\* futexWord to avoid wakeup race").
NoWakeupRace ==
    /\ pc \in {"futex1", "futex2"} => futexWord[runList[curThreadIdx - 1]] = 1
    /\ \A t \in Tids :
          /\ state[t] = "WAITING" => futexWord[t] = 1
          /\ (place[t] = "wait" /\ (state[t] # "WAITING" \/ futexWord[t] # 1)) => state[t] = "RUNNING"

\* The assertion in join: a thread that comes back in the phase it left is
\* found where its lastIdx says.
RejoinFindsItself ==
    \A t \in Tids :
        (pc = "free" /\ state[t] = "LEFT" /\ curThreadIdx > lastIdx[t]) => runList[lastIdx[t]] = t

\* The note in join: "You can't cause a phase to end here."
JoinEndsNoPhase == pc = "end" /\ caller.op = "join" => ~ PhaseOver

\* When no process is killed, a join in the middle of a phase neither fails
\* its assertion nor ends the phase under the threads that still run in it.
JoinIsSafe == ~ abruptExit => RejoinFindsItself /\ JoinEndsNoPhase

\* When the lock is released nobody is left waiting for a turn that could
\* be given: either the limit is reached or the list is exhausted, and then
\* somebody runs or everybody has left.
NobodyForgotten ==
    pc = "free" =>
        /\ ~ CanWake
        /\ runningThreads = 0 => leftThreads = runListSize

\* The wake-up loop has still to reach the thread in this phase.
Ahead(t) == \E k \in curThreadIdx .. runListSize - 1 : runList[k] = t

statusOf(t) ==
    CASE state[t] = "RUNNING" -> "running"
      [] state[t] = "WAITING" -> IF Ahead(t) THEN "ready" ELSE "done"
      [] OTHER -> "out"

Status == [t \in Tids |-> statusOf(t)]

Abstract == INSTANCE PhaseBarrier WITH status <- Status

\* When no process is killed the barrier implements the abstract phase
\* barrier: a waiting thread is ready when the wake-up loop has still to
\* reach it, and done otherwise.
ImplementsPhaseBarrier ==
    Abstract!Init /\ [][abruptExit \/ Abstract!Next]_Status

\* A thread that waits in the barrier gets to run, provided that the threads
\* inside it end their phase and no process is killed.
WaitingThreadRuns ==
    \A t \in Tids : ~ abruptExit /\ state[t] = "WAITING" ~> state[t] = "RUNNING"
=============================================================================
