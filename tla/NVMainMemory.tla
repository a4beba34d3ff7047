----------------------------- MODULE NVMainMemory -----------------------------
(***************************************************************************)
(* How NVMainMemory (nvmain_mem_ctrl.cpp) drives NVMain in the weave phase *)
(* of one domain: NVMainAccEvent::simulate -> enqueue, SchedEventNVMain::  *)
(* simulate -> tick, and RequestComplete, which NVMain calls back while it *)
(* is advanced.  A step runs the earliest event of the domain.  NVMain is  *)
(* external: a request it accepts completes after one of Latencies, in     *)
(* NVMain's own clock, and it may refuse a request MaxRefusals times.      *)
(***************************************************************************)
EXTENDS Integers, Sequences, FiniteSets

CONSTANTS Accesses, Arrivals, MinLatency, Latencies, MaxRefusals

ASSUME LatencyAssumption ==
    /\ MinLatency \in Nat \ {0}
    /\ Latencies \subseteq Nat \ {0}
    /\ Arrivals \subseteq Nat
    /\ MaxRefusals \in Nat

VARIABLES
    now,          \* the domain's curCycle
    at,           \* per access event: the cycle it is queued for, or Held
    schedAt,      \* the cycle the SchedEvent is queued for, or Idle
    inflight,     \* inflightRequests: [acc, minFinish], oldest first
    nextReq,      \* nextSchedRequest
    updateCycle,  \* NVMain's clock
    curCycle,
    finish,       \* NVMain: when each request completes
    done,         \* per access: the cycle passed to ev->done, 0 before
    refusals

vars == <<now, at, schedAt, inflight, nextReq, updateCycle, curCycle, finish, done, refusals>>

Idle == -1
Held == -1
NoReq == "none"
RetryDelay == 10

Init ==
    /\ now = 0
    /\ at \in [Accesses -> Arrivals]
    /\ schedAt = Idle
    /\ inflight = <<>>
    /\ nextReq = NoReq
    /\ updateCycle = 0 /\ curCycle = 0
    /\ finish = [a \in Accesses |-> 0]
    /\ done = [a \in Accesses |-> 0]
    /\ refusals = 0

\* The domain's queue delivers the event with the smallest cycle.
First(c) ==
    /\ c >= 0
    /\ \A a \in Accesses : at[a] # Held => c <= at[a]
    /\ schedAt # Idle => c <= schedAt

Inflight == {inflight[k].acc : k \in DOMAIN inflight}

\* The requests NVMain completes while its clock advances to u.
Completes(u) == {a \in Inflight : finish[a] <= u}

\* The callback for each request that completes; cur is curCycle at that time.
RequestComplete(S, cur) ==
    /\ done' = [a \in Accesses |-> IF a \in S THEN cur + 1 ELSE done[a]]

Pending(S) == SelectSeq(inflight, LAMBDA r : r.acc \notin S)

StillNext(S) == IF nextReq \in S THEN NoReq ELSE nextReq

\* NVMain refuses the request: the access event is queued again.
enqueue_refused(a) ==
    LET c == at[a]
        S == Completes(c + 1)
    IN  /\ First(c)
        /\ refusals < MaxRefusals
        /\ refusals' = refusals + 1
        /\ now' = c /\ updateCycle' = c + 1 /\ curCycle' = c + 1
        /\ RequestComplete(S, c + 1)
        /\ inflight' = Pending(S)
        /\ nextReq' = StillNext(S)
        /\ at' = [at EXCEPT ![a] = c + RetryDelay]
        /\ UNCHANGED <<schedAt, finish>>

enqueue(a) ==
    LET c == at[a]
        S == Completes(c + 1)
    IN  /\ First(c)
        /\ now' = c /\ updateCycle' = c + 1 /\ curCycle' = c + 1
        /\ RequestComplete(S, c + 1)
        /\ inflight' = Append(Pending(S), [acc |-> a, minFinish |-> c + MinLatency])
        /\ \E l \in Latencies : finish' = [finish EXCEPT ![a] = c + 1 + l]
        /\ at' = [at EXCEPT ![a] = Held]
        /\ \/ /\ schedAt = Idle
              /\ schedAt' = c + MinLatency
              /\ nextReq' = a
           \/ /\ schedAt # Idle
              /\ nextReq' = StillNext(S)
              /\ UNCHANGED schedAt
        /\ UNCHANGED refusals

\* What tick returns: when the SchedEvent runs again.
\* Mutant: the SchedEvent stops once its own request is served.
nextTick_one(S) ==
    IF StillNext(S) # NoReq THEN schedAt + 1 ELSE Idle

\* Mutant: the SchedEvent waits a whole latency from now for the next request.
nextTick_late(S) ==
    IF StillNext(S) # NoReq THEN schedAt + 1
    ELSE IF Pending(S) = <<>> THEN Idle
    ELSE schedAt + MinLatency

nextTick(S) ==
    IF StillNext(S) # NoReq THEN schedAt + 1
    ELSE IF Pending(S) = <<>> THEN Idle
    ELSE IF schedAt >= Head(Pending(S)).minFinish THEN schedAt + 1
    ELSE Head(Pending(S)).minFinish

tick ==
    LET S == Completes(schedAt + 1)
    IN  /\ schedAt # Idle
        /\ First(schedAt)
        /\ now' = schedAt
        /\ RequestComplete(S, curCycle)
        /\ updateCycle' = schedAt + 1 /\ curCycle' = schedAt + 1
        /\ inflight' = Pending(S)
        /\ nextReq' = IF StillNext(S) = NoReq /\ Pending(S) # <<>> THEN Head(Pending(S)).acc ELSE StillNext(S)
        /\ schedAt' = nextTick(S)
        /\ UNCHANGED <<at, finish, refusals>>

\* Nothing is queued any more.
Quiet ==
    /\ \A a \in Accesses : at[a] = Held
    /\ schedAt = Idle
    /\ UNCHANGED vars

Next ==
    \/ \E a \in Accesses : at[a] # Held /\ (enqueue(a) \/ enqueue_refused(a))
    \/ tick
    \/ Quiet

Spec == Init /\ [][Next]_vars

\* The weave phase runs every queued event.
FairSpec == Spec /\ WF_vars(Next)

-----------------------------------------------------------------------------
\* "curCycle is up to date because we are advancing cycle by cycle in tick":
\* a request is done at the cycle NVMain completed it, or one later.
DoneOnTime == \A a \in Accesses : done[a] # 0 => done[a] \in finish[a] .. finish[a] + 1

\* Every access is done eventually.
EveryAccessDone == \A a \in Accesses : <>(done[a] # 0)
=============================================================================
