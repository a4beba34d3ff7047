------------------------------ MODULE Scheduler ------------------------------
(***************************************************************************)
(* The thread scheduler (scheduler.h, scheduler.cpp) on top of the phase   *)
(* barrier: simulated threads share the contexts (cores), leave them in    *)
(* system calls, sleep, queue up, and hand a context over at the end of a  *)
(* quantum.  The barrier knows cores only; here it is what module          *)
(* PhaseBarrier promises, which the code's barrier implements (Barrier).   *)
(*                                                                         *)
(* Everything between an acquire and a release of schedLock is one action; *)
(* such a section is an operator on the record of the protected state,     *)
(* and the set of its outcomes where the code draws random numbers.  place *)
(* says where a host thread is between two sections.  Phase numbers are    *)
(* relative: curPhase counts modulo the quantum, a deadline is the number  *)
(* of phases to go.                                                        *)
(*                                                                         *)
(* The code's assertions on the state of a thread are guards here, and     *)
(* three calls that may fail one are therefore not taken: a join or a      *)
(* finish between the watchdog's finishFakeLeave and its leave             *)
(* (scheduler.cpp:154-157), a finish of a thread that still sleeps         *)
(* (scheduler.h:253), and a sleep in the second of two system calls with   *)
(* no instruction in between (zsim.cpp:1065).                              *)
(***************************************************************************)
EXTENDS Integers, FiniteSets, SequencesExt

CONSTANTS Threads,
          NULL,
          numCores,
          Limits,           \* numbers of cores the barrier may let run at a time
          schedQuantum,     \* in phases
          mask,             \* per thread: the cores it may run on
          Syscalls,         \* PCs of system calls
          SleepPhases       \* lengths of a sleep, in phases

Cores == 0 .. numCores - 1

ASSUME CoresAssumption == {numCores, schedQuantum} \cup Limits \subseteq Nat \ {0}
ASSUME MaskAssumption == mask \in [Threads -> (SUBSET Cores) \ {{}}]
ASSUME SleepAssumption == SleepPhases \subseteq Nat \ {0}

VARIABLES
    parallelThreads,  \* cores the barrier lets run at a time, a configured value
    thread,    \* per thread: its ThreadInfo
    contexts,  \* per core: curThread, NULL when it is IDLE
    freeList, runQueue, outQueue, sleepQueue,
    fakeLeaves,        \* threads in a system call that did not leave
    blockingSyscalls,  \* the blacklist
    curPhase,
    bar,       \* per core: its status in the barrier
    place,     \* per thread: what the host thread does: "none" before its start,
               \* "start" before its first join, "sim", "syscall", "join" and
               \* "sync" inside the barrier, "wait" in waitForContext, "sleepEnd"
               \* before notifySleepEnd, "finishLeave" and "finish" in finish
    desynced   \* the thread the watchdog is about to call leave for

vars == <<parallelThreads, thread, contexts, freeList, runQueue, outQueue, sleepQueue, fakeLeaves,
          blockingSyscalls, curPhase, bar, place, desynced>>

ThreadInfo ==
    [state |-> "STARTED", cid |-> 0, handoffThread |-> NULL, futexWord |-> 0,
     markedForSleep |-> FALSE, wakeup |-> 0, fakeLeave |-> NULL]

Init ==
    /\ parallelThreads \in Limits
    /\ thread = [t \in Threads |-> [ThreadInfo EXCEPT !.state = "none"]]
    /\ contexts = [c \in Cores |-> NULL]
    /\ freeList = [k \in 1 .. numCores |-> k - 1]
    /\ runQueue = <<>> /\ outQueue = <<>> /\ sleepQueue = <<>> /\ fakeLeaves = <<>>
    /\ blockingSyscalls = {}
    /\ curPhase = 0
    /\ bar = [c \in Cores |-> "out"]
    /\ place = [t \in Threads |-> "none"]
    /\ desynced = NULL

State == [thread |-> thread, contexts |-> contexts, freeList |-> freeList, runQueue |-> runQueue,
          outQueue |-> outQueue, sleepQueue |-> sleepQueue, fakeLeaves |-> fakeLeaves,
          curPhase |-> curPhase, bar |-> bar]

\* The section ends in state s, and thread t goes on at p.
Becomes(s, t, p) ==
    /\ thread' = s.thread /\ contexts' = s.contexts /\ freeList' = s.freeList
    /\ runQueue' = s.runQueue /\ outQueue' = s.outQueue /\ sleepQueue' = s.sleepQueue
    /\ fakeLeaves' = s.fakeLeaves /\ curPhase' = s.curPhase /\ bar' = s.bar
    /\ place' = [place EXCEPT ![t] = p]
    /\ UNCHANGED parallelThreads

-----------------------------------------------------------------------------
schedule(s, t, c) ==
    [s EXCEPT !.thread[t].state = "RUNNING", !.thread[t].cid = c, !.contexts[c] = t]

deschedule(s, t, targetState) ==
    [s EXCEPT !.thread[t].state = targetState, !.contexts[s.thread[t].cid] = NULL]

\* The compare-and-swap of futexWord, whose failure is a panic.
wakeup(s, t) == [s EXCEPT !.thread[t].futexWord = 0]

NoCore == -1

\* Mutant: contexts of threads that are out are not taken.
schedThread_noSteal(s, t) ==
    LET last == s.thread[t].cid
        free == SelectSeq(s.freeList, LAMBDA c : c \in mask[t])
        take(c) == [state |-> [s EXCEPT !.freeList = Remove(@, c)], ctx |-> c]
    IN  CASE s.contexts[last] = NULL /\ last \in mask[t] -> take(last)
          [] ~ (s.contexts[last] = NULL /\ last \in mask[t]) /\ free # <<>> -> take(Head(free))
          [] OTHER -> [state |-> s, ctx |-> NoCore]

\* A context for thread t: its last one, a free one, or the one of a thread
\* that is out, which then loses it.
schedThread(s, t) ==
    LET last == s.thread[t].cid
        lastIdle == s.contexts[last] = NULL /\ last \in mask[t]
        free == SelectSeq(s.freeList, LAMBDA c : c \in mask[t])
        outs == SelectSeq(s.outQueue, LAMBDA o : s.thread[o].cid \in mask[t])
        take(c) == [state |-> [s EXCEPT !.freeList = Remove(@, c)], ctx |-> c]
        steal(o) == [state |-> deschedule([s EXCEPT !.outQueue = Remove(@, o)], o, "BLOCKED"),
                     ctx |-> s.thread[o].cid]
    IN  CASE lastIdle -> take(last)
          [] ~ lastIdle /\ free # <<>> -> take(Head(free))
          [] ~ lastIdle /\ free = <<>> /\ outs # <<>> -> steal(Head(outs))
          [] OTHER -> [state |-> s, ctx |-> NoCore]

\* The first queued thread that may run on context c.
schedContext(s, c) ==
    LET fits == SelectSeq(s.runQueue, LAMBDA t : c \in mask[t])
    IN  IF fits = <<>> THEN NULL ELSE Head(fits)

\* Context c, whose thread has been descheduled, goes to inTh, which takes
\* the core's place in the barrier.
give(s, inTh, c) == wakeup(schedule([s EXCEPT !.runQueue = Remove(@, inTh)], inTh, c), inTh)

\* The quantum is over: the queued threads, in order, each get a context
\* they may use; its thread will hand it off when it comes out of its sync.
\* avail is the shuffled list of all contexts.
schedTick(s, avail) ==
    LET visit(r, t) ==
            LET fits == SelectSeq(r.avail, LAMBDA c : c \in mask[t])
                victimTh == r.state.contexts[Head(fits)]
            IN  IF fits = <<>> THEN r
                ELSE [state |-> [r.state EXCEPT !.thread[victimTh].handoffThread = t,
                                                !.runQueue = Remove(@, t)],
                      avail |-> Remove(r.avail, Head(fits))]
    IN  FoldLeft(visit, [state |-> s, avail |-> avail], s.runQueue).state

Shuffled == SetToSeqs(Cores)

\* The sleepers at the head of the queue whose deadline has come.
Due(s) ==
    LET q == s.sleepQueue
        prefixes == {n \in 0 .. Len(q) : \A i \in 1 .. n : s.thread[q[i]].wakeup <= 0}
    IN  CHOOSE n \in prefixes : \A m \in prefixes : m <= n

wakeSleepers(s) ==
    LET n == Due(s)
        woken == {s.sleepQueue[i] : i \in 1 .. n}
    IN  [s EXCEPT !.sleepQueue = SubSeq(@, n + 1, Len(@)),
                  !.thread = [t \in Threads |->
                      IF t \in woken THEN [@[t] EXCEPT !.state = "BLOCKED", !.futexWord = 0] ELSE @[t]]]

\* A phase is over: one phase less to every deadline.
nextPhase(s) ==
    [s EXCEPT !.curPhase = (@ + 1) % schedQuantum,
              !.thread = [t \in Threads |->
                  IF @[t].state = "SLEEPING" \/ @[t].markedForSleep
                  THEN [@[t] EXCEPT !.wakeup = @ - 1] ELSE @[t]]]

callback(s) ==
    LET w == wakeSleepers(nextPhase(s))
    IN  IF w.runQueue # <<>> /\ w.curPhase = 0
        THEN {schedTick(w, avail) : avail \in Shuffled}
        ELSE {w}

-----------------------------------------------------------------------------
\* The barrier as the scheduler sees it.  checkRunList lets cores run up to
\* the limit, in any order.
In(b, status) == {c \in Cores : b[c] = status}

checkRunList(b) ==
    LET room == parallelThreads - Cardinality(In(b, "running"))
        some == {W \in SUBSET In(b, "ready") :
                    Cardinality(W) = IF Cardinality(In(b, "ready")) < room THEN Cardinality(In(b, "ready")) ELSE room}
    IN  {[c \in Cores |-> IF c \in W THEN "running" ELSE b[c]] : W \in some}

PhaseOver(b) == In(b, "ready") = {} /\ In(b, "running") = {} /\ In(b, "done") # {}

checkEndPhase(s) ==
    IF PhaseOver(s.bar)
    THEN {[r EXCEPT !.bar = b] :
            r \in callback(s), b \in checkRunList([c \in Cores |-> IF s.bar[c] = "done" THEN "ready" ELSE s.bar[c]])}
    ELSE {s}

tryWakeNext(s) == UNION {checkEndPhase([s EXCEPT !.bar = b]) : b \in checkRunList(s.bar)}

bar_join(s, c) == tryWakeNext([s EXCEPT !.bar[c] = "ready"])
bar_leave(s, c) == tryWakeNext([s EXCEPT !.bar[c] = "out"])
bar_sync(s, c) == tryWakeNext([s EXCEPT !.bar[c] = "done"])

-----------------------------------------------------------------------------
start(t) ==
    /\ place[t] = "none"
    /\ Becomes([State EXCEPT !.thread[t] = ThreadInfo], t, "start")
    /\ UNCHANGED <<blockingSyscalls, desynced>>

finishFakeLeave(s, t) ==
    [s EXCEPT !.fakeLeaves = Remove(@, t), !.thread[t].fakeLeave = NULL]

\* Thread t, which has no context, gets one and joins the barrier, or queues up.
seekContext(s, t) ==
    LET r == schedThread(s, t)
    IN  IF r.ctx # NoCore
        THEN \E n \in bar_join(schedule(r.state, t, r.ctx), r.ctx) : Becomes(n, t, "join")
        ELSE Becomes([s EXCEPT !.thread[t].state = "QUEUED", !.thread[t].futexWord = 1,
                               !.runQueue = Append(@, t)], t, "wait")

\* Also for a thread that does not sleep any more; the deadline is then of
\* no use to anybody.
endSleep(s, t) ==
    [s EXCEPT !.thread[t].state = "BLOCKED", !.thread[t].wakeup = 0,
              !.sleepQueue = SelectSeq(@, LAMBDA x : x # t)]

Returning(t) == place[t] \in {"start", "syscall"}

\* join in a system call that did not leave.
join_fake(t) ==
    /\ Returning(t) /\ thread[t].fakeLeave # NULL
    /\ Becomes(finishFakeLeave(State, t), t, "sim")
    /\ UNCHANGED <<blockingSyscalls, desynced>>

\* join in the phase of the leave, with the context still there.
join_out(t) ==
    /\ Returning(t) /\ thread[t].state = "OUT"
    /\ \E n \in bar_join([State EXCEPT !.thread[t].state = "RUNNING", !.outQueue = Remove(@, t)], thread[t].cid) :
          Becomes(n, t, "join")
    /\ UNCHANGED <<blockingSyscalls, desynced>>

\* join without a context; a thread that still sleeps ends its sleep.  The
\* assertion on the state is a conjunct.
join_blocked(t) ==
    /\ Returning(t) /\ thread[t].state \in {"STARTED", "BLOCKED", "SLEEPING"}
    /\ seekContext(endSleep(State, t), t)
    /\ UNCHANGED <<blockingSyscalls, desynced>>

\* Mutant: sleepers queue up in the order of their calls.
enqueueSleeper_last(s, t) == [s EXCEPT !.sleepQueue = Append(@, t)]

\* Behind the sleepers that are due no later.
enqueueSleeper(s, t) ==
    LET q == s.sleepQueue
        before == {n \in 0 .. Len(q) : \A i \in 1 .. n : s.thread[q[i]].wakeup <= s.thread[t].wakeup}
        n == CHOOSE k \in before : \A m \in before : m <= k
    IN  [s EXCEPT !.sleepQueue = InsertAt(@, n + 1, t)]

\* The outcomes of leave, by thread t or on its behalf.
leave(s, t) ==
    LET c == s.thread[t].cid
        inTh == schedContext(s, c)
        asleep == enqueueSleeper(deschedule([s EXCEPT !.thread[t].markedForSleep = FALSE], t, "SLEEPING"), t)
    IN  CASE s.thread[t].markedForSleep /\ inTh # NULL -> {give(asleep, inTh, c)}
          [] s.thread[t].markedForSleep /\ inTh = NULL ->
                bar_leave([asleep EXCEPT !.freeList = Append(@, c)], c)
          [] ~ s.thread[t].markedForSleep /\ inTh # NULL -> {give(deschedule(s, t, "BLOCKED"), inTh, c)}
          [] OTHER -> bar_leave([s EXCEPT !.thread[t].state = "OUT", !.outQueue = Append(@, t)], c)

\* The end of a phase for thread t.
sync(t) ==
    /\ place[t] = "sim" /\ ~ thread[t].markedForSleep
    /\ \E n \in bar_sync(State, thread[t].cid) : Becomes(n, t, "sync")
    /\ UNCHANGED <<blockingSyscalls, desynced>>

\* bar.join or bar.sync returns, and there is nothing to hand off.
resume(t) ==
    /\ place[t] \in {"join", "sync"} /\ bar[thread[t].cid] = "running"
    /\ place[t] = "sync" => thread[t].handoffThread = NULL
    /\ Becomes(State, t, "sim")
    /\ UNCHANGED <<blockingSyscalls, desynced>>

\* Mutant: the handoff is left pending.
handoff_repeat(t) ==
    LET dst == thread[t].handoffThread
        c == thread[t].cid
    IN  /\ place[t] = "sync" /\ bar[c] = "running"
        /\ dst # NULL
        /\ seekContext(wakeup(schedule(deschedule(State, t, "QUEUED"), dst, c), dst), t)
        /\ UNCHANGED <<blockingSyscalls, desynced>>

\* bar.sync returns: t passes its context on and looks for another.
handoff(t) ==
    LET dst == thread[t].handoffThread
        c == thread[t].cid
        s == deschedule([State EXCEPT !.thread[t].handoffThread = NULL], t, "QUEUED")
    IN  /\ place[t] = "sync" /\ bar[c] = "running"
        /\ dst # NULL
        /\ seekContext(wakeup(schedule(s, dst, c), dst), t)
        /\ UNCHANGED <<blockingSyscalls, desynced>>

\* waitForContext returns; needsJoin is FALSE in every call of wakeup.
waitForContext(t) ==
    /\ place[t] = "wait" /\ thread[t].futexWord # 1
    /\ Becomes(State, t, "sim")
    /\ UNCHANGED <<blockingSyscalls, desynced>>

\* By the patch of a system call, before its syscallLeave.  In the second of
\* two calls in a row no leave follows, and join finds the mark: it asserts
\* that there is none, unless the first call did not leave.
markForSleep(t) ==
    /\ place[t] = "sim" /\ ~ thread[t].markedForSleep
    /\ \E n \in SleepPhases :
          Becomes([State EXCEPT !.thread[t].markedForSleep = TRUE, !.thread[t].wakeup = n,
                                !.thread[t].futexWord = 1], t, "sim")
    /\ UNCHANGED <<blockingSyscalls, desynced>>

\* A blacklisted system call or a sleep leaves; any other call is assumed
\* to be short and keeps its context.
syscallLeave(t) ==
    /\ place[t] = "sim"
    /\ \E p \in Syscalls :
          \/ /\ thread[t].markedForSleep \/ p \in blockingSyscalls
             /\ \E n \in leave(State, t) : Becomes(n, t, "syscall")
          \/ /\ ~ thread[t].markedForSleep /\ p \notin blockingSyscalls
             /\ Becomes([State EXCEPT !.fakeLeaves = Append(@, t), !.thread[t].fakeLeave = p], t, "syscall")
    /\ UNCHANGED <<blockingSyscalls, desynced>>

\* The timeout of a patched call: isSleeping and notifySleepEnd are two
\* sections, and the scheduler may wake the thread between them.
isSleeping(t) ==
    /\ place[t] = "syscall" /\ thread[t].state = "SLEEPING"
    /\ Becomes(State, t, "sleepEnd")
    /\ UNCHANGED <<blockingSyscalls, desynced>>

notifySleepEnd(t) ==
    /\ place[t] = "sleepEnd" /\ thread[t].state \in {"SLEEPING", "BLOCKED"}
    /\ Becomes(endSleep(State, t), t, "syscall")
    /\ UNCHANGED <<blockingSyscalls, desynced>>

\* finish after an exit system call that did not leave: it leaves first.
finish_fake(t) ==
    /\ place[t] = "syscall" /\ thread[t].fakeLeave # NULL
    /\ Becomes(finishFakeLeave(State, t), t, "finishLeave")
    /\ UNCHANGED <<blockingSyscalls, desynced>>

\* The leave in finish, or the one of a thread that starts to fast-forward.
finish_leave(t) ==
    /\ place[t] \in {"finishLeave", "sim"} /\ ~ thread[t].markedForSleep
    /\ \E n \in leave(State, t) : Becomes(n, t, "finish")
    /\ UNCHANGED <<blockingSyscalls, desynced>>

\* Mutant: the context of a thread that is out is not freed.
finish_leak(t) ==
    /\ place[t] = "finish" \/ (place[t] = "syscall" /\ thread[t].fakeLeave = NULL)
    /\ thread[t].state \in {"OUT", "BLOCKED"}
    /\ Becomes([State EXCEPT !.outQueue = SelectSeq(@, LAMBDA x : x # t),
                             !.thread[t] = [ThreadInfo EXCEPT !.state = "none"]], t, "none")
    /\ UNCHANGED <<blockingSyscalls, desynced>>

\* The rest of finish: a thread that is out gives its context back.  A
\* thread that fast-forwards may finish before its first join.  One that
\* still sleeps, because a signal ended its call, fails the assertion on the
\* state: only the patch of a timeout calls notifySleepEnd.
finish(t) ==
    LET gone == [ThreadInfo EXCEPT !.state = "none"]
        s == deschedule([State EXCEPT !.outQueue = Remove(@, t), !.freeList = Append(@, thread[t].cid)], t, "BLOCKED")
    IN  /\ place[t] \in {"finish", "start"} \/ (place[t] = "syscall" /\ thread[t].fakeLeave = NULL)
        /\ \/ thread[t].state = "OUT" /\ Becomes([s EXCEPT !.thread[t] = gone], t, "none")
           \/ thread[t].state \in {"BLOCKED", "STARTED"} /\ Becomes([State EXCEPT !.thread[t] = gone], t, "none")
        /\ UNCHANGED <<blockingSyscalls, desynced>>

-----------------------------------------------------------------------------
\* The watchdog sees a phase stall on a system call that did not leave, and
\* is going to leave for it; a call that is the only one is blacklisted.
\* Whether the stall was long enough is left open.  The lock is free until
\* watchdog_leave: if the call returns before, join fails its assertion on
\* the state, and finish leaves by itself, so that the leave of the watchdog
\* does not find the thread in the context.  Such a thread waits here.
watchdog_stall ==
    /\ fakeLeaves # <<>> /\ desynced = NULL
    /\ LET t == Head(fakeLeaves)
       IN  /\ Becomes(finishFakeLeave(State, t), t, place[t])
           /\ desynced' = t
           /\ blockingSyscalls' = IF Len(fakeLeaves) = 1 THEN blockingSyscalls \cup {thread[t].fakeLeave} ELSE blockingSyscalls

watchdog_leave ==
    /\ desynced # NULL
    /\ \E n \in leave(State, desynced) : Becomes(n, desynced, place[desynced])
    /\ desynced' = NULL
    /\ UNCHANGED blockingSyscalls

\* Mutant: phases pass only while every context is free.
NothingRuns_free == Len(freeList) = numCores /\ sleepQueue # <<>>

NothingRuns ==
    /\ Cardinality({c \in Cores : contexts[c] # NULL}) = Len(outQueue)
    /\ sleepQueue # <<>>

CanAdvance == desynced = NULL /\ NothingRuns

\* No thread runs and some sleep: the watchdog ends the phase.
watchdog_advance ==
    /\ CanAdvance
    /\ \E n \in callback(State), t \in Threads : Becomes(n, t, place[t])
    /\ UNCHANGED <<blockingSyscalls, desynced>>

Watchdog == watchdog_stall \/ watchdog_leave \/ watchdog_advance

Work(t) == markForSleep(t) \/ syscallLeave(t) \/ finish_leave(t)
Return(t) == join_fake(t) \/ join_out(t) \/ join_blocked(t) \/ isSleeping(t) \/ finish_fake(t) \/ finish(t)

Next ==
    \/ \E t \in Threads :
          \/ start(t) \/ sync(t) \/ resume(t) \/ handoff(t) \/ waitForContext(t)
          \/ Work(t) \/ Return(t) \/ notifySleepEnd(t)
    \/ Watchdog

Spec == Init /\ [][Next]_vars

\* The host thread has only to be given the processor.
CanGoOn(t) ==
    \/ place[t] \in {"join", "sync"} /\ bar[thread[t].cid] = "running"
    \/ place[t] = "wait" /\ thread[t].futexWord # 1
    \/ place[t] \in {"sleepEnd", "finishLeave"}
    \/ place[t] = "sim" /\ thread[t].markedForSleep

\* Weak fairness of the host threads and of the watchdog: what can go on
\* does.  Strong fairness of sync: a thread that simulates again and again,
\* however often it is in a system call meanwhile, reaches the end of its
\* phase.  Each is stated by what its steps lead to.  Nothing makes a system
\* call return.
Fairness ==
    /\ \A t \in Threads :
          /\ []<>~ CanGoOn(t)
          /\ []<>(place[t] = "sim" /\ ~ thread[t].markedForSleep) => []<>(place[t] = "sync")
    /\ []<>(desynced = NULL) /\ []<>(fakeLeaves = <<>> \/ desynced # NULL)
    /\ []<>~ CanAdvance \/ []<><<watchdog_advance>>_vars

FairSpec == Spec /\ Fairness

-----------------------------------------------------------------------------
ToSetOf(q) == {q[i] : i \in 1 .. Len(q)}
Distinct(q) == \A i, j \in 1 .. Len(q) : q[i] = q[j] => i = j
HandedTo == {thread[t].handoffThread : t \in Threads} \ {NULL}
InThread(state) == {t \in Threads : thread[t].state = state}

\* The states of the threads, the contexts, the four lists and the barrier
\* tell the same story whatever the order of leaves, steals, handoffs and
\* wakeups: each list holds exactly the threads in its state, once; a context
\* and its thread name each other; the free contexts are in the free list;
\* the barrier waits for exactly the cores whose thread is RUNNING; and a
\* thread that comes back from a system call is in a state that join
\* expects, unless the watchdog is between finishFakeLeave and leave for
\* that very thread.
EverybodyAccounted ==
    /\ Distinct(freeList) /\ ToSetOf(freeList) = {c \in Cores : contexts[c] = NULL}
    /\ Distinct(outQueue) /\ ToSetOf(outQueue) = InThread("OUT")
    /\ Distinct(sleepQueue) /\ ToSetOf(sleepQueue) = InThread("SLEEPING")
    /\ Distinct(runQueue) /\ ToSetOf(runQueue) = InThread("QUEUED") \ HandedTo
    /\ \A c \in Cores, t \in Threads :
          contexts[c] = t <=> thread[t].state \in {"RUNNING", "OUT"} /\ thread[t].cid = c
    /\ \A c \in Cores :
          bar[c] # "out" <=> contexts[c] # NULL /\ thread[contexts[c]].state = "RUNNING"
    /\ \A t \in Threads :
          /\ place[t] = "syscall" /\ desynced # t =>
                thread[t].fakeLeave # NULL \/ thread[t].state \in {"OUT", "BLOCKED", "SLEEPING"}
          /\ place[t] = "sim" => thread[t].state = "RUNNING" /\ bar[thread[t].cid] = "running"

\* "We will never match anything in the freeList, because schedContext and
\* schedThread would have matched them out" (schedTick): no thread queues
\* for a context that is free or whose thread is out, so each tick finds a
\* running victim.
NoContextWasted ==
    \A t \in ToSetOf(runQueue) : \A c \in mask[t] :
        contexts[c] # NULL /\ thread[contexts[c]].state = "RUNNING"

\* A pending handoff is seen: the victim is inside bar.sync, the only place
\* that looks for one, and the thread it is for still waits, can be woken
\* without the panic of wakeup, may use the context, and gets no other.
HandoffsAreSeen ==
    \A t \in Threads : LET dst == thread[t].handoffThread IN dst # NULL =>
        /\ place[t] = "sync" /\ thread[t].state = "RUNNING"
        /\ place[dst] = "wait" /\ thread[dst].state = "QUEUED" /\ thread[dst].futexWord = 1
        /\ thread[t].cid \in mask[dst]
        /\ \A o \in Threads : thread[o].handoffThread = dst => o = t

\* Sleepers are woken in the phase of their deadline, not later (the
\* assertion wakeupPhase == curPhase of callback), and without the panic of
\* wakeup.
SleepersOnTime ==
    /\ \A t \in InThread("SLEEPING") : thread[t].wakeup > 0 /\ thread[t].futexWord = 1
    /\ \A i, j \in 1 .. Len(sleepQueue) : i < j => thread[sleepQueue[i]].wakeup <= thread[sleepQueue[j]].wakeup

\* A queued thread gets a context, and a sleeping one is woken even when
\* nothing else runs.
EverybodyServed ==
    \A t \in Threads :
        /\ thread[t].state = "QUEUED" ~> thread[t].state = "RUNNING"
        /\ thread[t].state = "SLEEPING" ~> thread[t].state # "SLEEPING"
=============================================================================
