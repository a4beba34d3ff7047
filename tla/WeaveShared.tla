----------------------------- MODULE WeaveShared -----------------------------
(***************************************************************************)
(* The weave phase with the number of simulation threads the configuration *)
(* gives: one per domain (Weave), or one for both (the second branch of    *)
(* ContentionSim::simulatePhaseThread).  The single thread serves the      *)
(* domain that is furthest behind, and sets a domain aside while it waits  *)
(* at a crossing for another one.  The thread that ends the bound phase    *)
(* (simulatePhase) wakes the simulation threads one by one and sleeps      *)
(* until the last of them is done.                                         *)
(***************************************************************************)
EXTENDS Weave, Sequences

VARIABLES
    numSimThreads,
    prio,        \* per domain: not 0 while it waits at a crossing
    queuePrio,   \* per domain: its curCycle when it was put back
    domPq,       \* domains to serve in the order of queuePrio
    stalled,     \* stalledQueue
    nextStalled, \* nextStalledQueue
    turn,        \* the domain that is served, the queue it came from
    sim,         \* per simulation thread: where it is in simThreadLoop
    locked,      \* its wakeLock, and waitLock
    threadsDone,
    caller,      \* where the thread in simulatePhase is
    toWake       \* simulation threads it has still to wake

WaitLock == "waitLock"

ASSUME LockAssumption == WaitLock \notin Cores

handshake == <<sim, locked, threadsDone, caller, toWake>>
sched == <<queuePrio, domPq, stalled, nextStalled, turn>>
sharedVars == <<vars, numSimThreads, prio, sched, handshake>>

Idle == <<"none">>

Leader == CHOOSE d \in Cores : TRUE
SimThreads == IF numSimThreads = 1 THEN {Leader} ELSE Cores
DomainsOf(t) == IF numSimThreads = 1 THEN Cores ELSE {t}

SharedInit ==
    /\ Init
    /\ numSimThreads \in {1, Cardinality(Cores)}
    /\ prio = [d \in Cores |-> 0] /\ queuePrio = [d \in Cores |-> 0]
    /\ domPq = {}
    /\ stalled = <<>> /\ nextStalled = <<>>
    /\ turn = Idle
    /\ sim = [t \in Cores |-> "asleep"]
    /\ locked = [l \in Cores \cup {WaitLock} |-> TRUE]
    /\ threadsDone = 0 /\ caller = "idle" /\ toWake = {}

pop_domPq ==
    /\ turn = Idle
    /\ \E d \in domPq :
          /\ \A o \in domPq : queuePrio[d] <= queuePrio[o]
          /\ domPq' = domPq \ {d}
          /\ turn' = <<d, "domPq">>
    /\ UNCHANGED <<vars, prio, queuePrio, stalled, nextStalled>>

pop_stalled ==
    /\ turn = Idle
    /\ domPq = {} /\ stalled # <<>>
    /\ turn' = <<stalled[Len(stalled)], "stalled">>
    /\ stalled' = SubSeq(stalled, 1, Len(stalled) - 1)
    /\ UNCHANGED <<vars, prio, queuePrio, domPq, nextStalled>>

\* The end of a turn that leaves s and n in the two stalled queues: after a
\* turn from stalledQueue they are swapped when it is empty.
end_turn(s, n) ==
    LET swap == turn[2] = "stalled" /\ s = <<>>
    IN  /\ turn' = Idle
        /\ stalled' = IF swap THEN n ELSE s
        /\ nextStalled' = IF swap THEN s ELSE n

\* This loop also runs the events of the cycle of the limit.
shared_dequeue(d) ==
    /\ pc[d] = "loop" /\ Queued(d) # {} /\ firstCycle(d) <= limit
    /\ \E e \in Queued(d) :
          /\ pq_dequeue(d, e)
          /\ running' = [running EXCEPT ![d] = e]
          /\ cur' = [cur EXCEPT ![d] = deqCycle(d)]
          /\ Go(d, IF e \in Crossings THEN "check" ELSE "run")
    /\ UNCHANGED <<limit, next, called, doneCycle, first, slack, contended, prio, sched>>

shared_finish(d) ==
    /\ pc[d] = "loop"
    /\ Queued(d) # {} => firstCycle(d) > limit
    /\ cur' = [cur EXCEPT ![d] = limit]
    /\ Go(d, "finished")
    /\ end_turn(stalled, nextStalled)
    /\ UNCHANGED <<pqs, limit, running, next, called, doneCycle, first, slack, contended>>
    /\ UNCHANGED <<prio, queuePrio, domPq>>

shared_simulate(d) ==
    \/ /\ \/ reportEventSimulated(d) \/ simulate_core(d) \/ simulate_mem_contended(d) \/ simulate_mem(d)
          \/ crossing_read(d) \/ crossing_getSlack(d)
       /\ UNCHANGED <<prio, sched>>
    \/ /\ crossing_check(d)
       /\ prio' = [prio EXCEPT ![d] = IF called[running[d]] THEN 0 ELSE @]
       /\ UNCHANGED sched
    \/ /\ crossing_recheck(d)
       /\ prio' = [prio EXCEPT ![d] = IF called[running[d]] THEN 0 ELSE 1]
       /\ UNCHANGED sched

\* The domain is put back where its priority says.
shared_advance(d) ==
    /\ advance(d)
    /\ queuePrio' = [queuePrio EXCEPT ![d] = cur'[d]]
    /\ domPq' = IF prio[d] = 0 THEN domPq \cup {d} ELSE domPq
    /\ end_turn(IF prio[d] # 0 /\ turn[2] = "domPq" THEN Append(stalled, d) ELSE stalled,
                IF prio[d] # 0 /\ turn[2] = "stalled" THEN Append(nextStalled, d) ELSE nextStalled)
    /\ UNCHANGED prio

Serve ==
    /\ turn # Idle
    /\ LET d == turn[1]
       IN  shared_dequeue(d) \/ shared_finish(d) \/ shared_simulate(d) \/ shared_advance(d)

-----------------------------------------------------------------------------
\* The caller starts a phase, wakes one thread, and goes on when waitLock is
\* released.
simulatePhase ==
    /\ caller = "idle"
    /\ limit < Phases * PhaseLength
    /\ limit' = limit + PhaseLength
    /\ caller' = "wake" /\ toWake' = SimThreads
    /\ UNCHANGED <<pqs, cur, pc, running, next, called, doneCycle, first, slack, contended>>
    /\ UNCHANGED <<prio, sched, sim, locked, threadsDone>>

unlock_wakeLock(t) ==
    /\ caller = "wake" /\ t \in toWake
    /\ locked' = [locked EXCEPT ![t] = FALSE]
    /\ toWake' = toWake \ {t}
    /\ UNCHANGED <<vars, prio, sched, sim, threadsDone, caller>>

simulatePhase_done ==
    /\ caller = "wake" /\ toWake = {} /\ ~ locked[WaitLock]
    /\ locked' = [locked EXCEPT ![WaitLock] = TRUE]
    /\ caller' = "idle"
    /\ UNCHANGED <<vars, prio, sched, sim, threadsDone, toWake>>

\* A simulation thread gets its wakeLock and starts on its domains.
simThreadLoop_wake(t) ==
    /\ sim[t] = "asleep" /\ ~ locked[t]
    /\ locked' = [locked EXCEPT ![t] = TRUE]
    /\ sim' = [sim EXCEPT ![t] = "run"]
    /\ pc' = [d \in Cores |-> IF d \in DomainsOf(t) THEN "loop" ELSE pc[d]]
    /\ domPq' = IF numSimThreads = 1 THEN Cores ELSE domPq
    /\ UNCHANGED <<pqs, cur, limit, running, next, called, doneCycle, first, slack, contended>>
    /\ UNCHANGED <<prio, queuePrio, stalled, nextStalled, turn, threadsDone, caller, toWake>>

\* Mutant: the first thread that is done releases the caller.
simThreadLoop_first(t) ==
    /\ sim[t] = "run" /\ \A d \in DomainsOf(t) : pc[d] = "finished"
    /\ threadsDone' = threadsDone + 1
    /\ sim' = [sim EXCEPT ![t] = IF threadsDone' = 1 THEN "last" ELSE "asleep"]
    /\ UNCHANGED <<vars, prio, sched, locked, caller, toWake>>

simThreadLoop_done(t) ==
    /\ sim[t] = "run" /\ \A d \in DomainsOf(t) : pc[d] = "finished"
    /\ threadsDone' = threadsDone + 1
    /\ sim' = [sim EXCEPT ![t] = IF threadsDone' = numSimThreads THEN "last" ELSE "asleep"]
    /\ UNCHANGED <<vars, prio, sched, locked, caller, toWake>>

simThreadLoop_last(t) ==
    /\ sim[t] = "last"
    /\ threadsDone' = 0
    /\ locked' = [locked EXCEPT ![WaitLock] = FALSE]
    /\ sim' = [sim EXCEPT ![t] = "asleep"]
    /\ UNCHANGED <<vars, prio, sched, caller, toWake>>

-----------------------------------------------------------------------------
SimThread(t) ==
    /\ \/ simThreadLoop_wake(t) \/ simThreadLoop_done(t) \/ simThreadLoop_last(t)
       \/ /\ numSimThreads > 1 /\ sim[t] = "run"
          /\ Step(t)
          /\ UNCHANGED <<prio, sched, handshake>>
       \/ /\ numSimThreads = 1 /\ sim[t] = "run"
          /\ pop_domPq \/ pop_stalled \/ Serve
          /\ UNCHANGED handshake
    /\ UNCHANGED numSimThreads

Caller ==
    /\ simulatePhase \/ (\E t \in SimThreads : unlock_wakeLock(t)) \/ simulatePhase_done
    /\ UNCHANGED numSimThreads

AllDone ==
    /\ limit = Phases * PhaseLength /\ caller = "idle"
    /\ UNCHANGED sharedVars

SharedNext == Caller \/ (\E t \in SimThreads : SimThread(t)) \/ AllDone

\* The threads with nothing to do: no step of theirs is enabled.
CallerWaits == IF caller = "idle" THEN limit = Phases * PhaseLength
               ELSE toWake = {} /\ locked[WaitLock]
ThreadWaits(t) == sim[t] = "asleep" /\ locked[t]

\* Weak fairness of the caller and of each simulation thread, with what
\* enables them written out.
SharedSpec ==
    /\ SharedInit /\ [][SharedNext]_sharedVars
    /\ []<>CallerWaits \/ []<><<Caller>>_sharedVars
    /\ \A t \in Cores : []<>ThreadWaits(t) \/ []<><<SimThread(t)>>_sharedVars

-----------------------------------------------------------------------------
\* The number of places a thread that serves several domains holds d in.
In(s, d) == Cardinality({i \in DOMAIN s : s[i] = d})
places(d) ==
    (IF d \in domPq THEN 1 ELSE 0) + In(stalled, d) + In(nextStalled, d)
    + (IF turn # Idle /\ turn[1] = d THEN 1 ELSE 0)

\* simulatePhase returns only when every thread is back asleep and every
\* domain has been simulated up to the limit, whatever the order in which the
\* threads were woken and came to their end; and no domain is dropped between
\* the queues of a thread that serves several.
PhaseComplete ==
    /\ caller = "idle" =>
          /\ threadsDone = 0
          /\ \A t \in SimThreads : sim[t] = "asleep" /\ locked[t]
          /\ \A d \in Cores : pc[d] = "finished" /\ cur[d] = limit
    /\ numSimThreads = 1 /\ sim[Leader] = "run" =>
          \A d \in Cores : places(d) = IF pc[d] = "finished" THEN 0 ELSE 1
=============================================================================
