---------------------------- MODULE CoreRecorder ----------------------------
(***************************************************************************)
(* The recorder of a timing core (core_recorder.cpp, timing_core.cpp).     *)
(* The bound phase runs the core on its own clock, curCycle, and records a *)
(* chain of events; the weave phase simulates the events of the phase and  *)
(* delays them by contention; cSimEnd moves the core's clock by the skew   *)
(* of the last event that was simulated.  A thread may leave the core and  *)
(* join it again, also while the events of the core are still drained.     *)
(* A step is one call of the recorder.  Phases bounds the cycles, and      *)
(* MaxEvents the events a leave may find recorded.                         *)
(***************************************************************************)
EXTENDS Integers, Sequences

CONSTANTS PhaseLength, Phases, MaxEvents, Work, Latencies, Contention

ASSUME RecorderAssumption ==
    /\ PhaseLength \in Nat \ {0} /\ Phases \in Nat /\ MaxEvents \in Nat
    /\ Work \subseteq Nat \ {0} /\ Latencies \subseteq Nat /\ Contention \subseteq Nat

VARIABLES
    phase,              \* "bound" or "weave"
    globPhaseCycles,
    state,              \* HALTED, RUNNING or DRAINING
    curCycle,           \* the core's clock
    gapCycles, totalGapCycles,
    totalHaltedCycles, lastUnhaltedCycle,
    prevRespCycle,
    chain,              \* the recorded events that were not simulated
    ready,              \* the cycle the first of them is queued for
    last,               \* lastEventSimulated, or None
    delayed             \* contention met so far, before "last" and before "ready"

vars == <<phase, globPhaseCycles, state, curCycle, gapCycles, totalGapCycles, totalHaltedCycles,
          lastUnhaltedCycle, prevRespCycle, chain, ready, last, delayed>>
accounts == <<totalGapCycles, totalHaltedCycles, lastUnhaltedCycle>>
weaving == <<ready, last, delayed>>

None == [none |-> TRUE]
Event(start, min, delay, access) ==
    [orig |-> start, min |-> min, delay |-> delay, access |-> access]

limit == globPhaseCycles + PhaseLength

Init ==
    /\ phase = "bound" /\ globPhaseCycles = 0
    /\ state = "HALTED"
    /\ curCycle = 0 /\ gapCycles = 0 /\ totalGapCycles = 0
    /\ totalHaltedCycles = 0 /\ lastUnhaltedCycle = 0
    /\ prevRespCycle = 0 /\ chain = <<>> /\ ready = 0
    /\ last = None
    /\ delayed = [last |-> 0, ready |-> 0]

-----------------------------------------------------------------------------
\* Bound phase.

halted(c) == c - lastUnhaltedCycle

notifyJoin_halted ==
    /\ phase = "bound" /\ state = "HALTED"
    /\ state' = "RUNNING"
    /\ curCycle' = globPhaseCycles
    /\ totalGapCycles' = totalGapCycles + gapCycles /\ gapCycles' = 0
    /\ totalHaltedCycles' = totalHaltedCycles + halted(globPhaseCycles)
    /\ chain' = <<Event(globPhaseCycles, globPhaseCycles, 0, FALSE)>>
    /\ prevRespCycle' = globPhaseCycles
    /\ ready' = globPhaseCycles
    /\ UNCHANGED <<phase, globPhaseCycles, lastUnhaltedCycle, last, delayed>>

notifyJoin_draining ==
    /\ phase = "bound" /\ state = "DRAINING"
    /\ state' = "RUNNING"
    /\ UNCHANGED <<phase, globPhaseCycles, curCycle, gapCycles, prevRespCycle, chain, accounts, weaving>>

\* The core runs until its clock is past the end of the phase.
runs == phase = "bound" /\ state = "RUNNING" /\ curCycle <= limit

work ==
    /\ runs
    /\ \E w \in Work : curCycle' = curCycle + w
    /\ UNCHANGED <<phase, globPhaseCycles, state, gapCycles, prevRespCycle, chain, accounts, weaving>>

\* An access that leaves the core's caches: the core waits for the response.
recordAccess ==
    /\ runs
    /\ \E l \in Latencies :
          /\ chain' = Append(chain, Event(prevRespCycle - gapCycles, prevRespCycle,
                                          (curCycle - prevRespCycle) + l, TRUE))
          /\ curCycle' = curCycle + l
          /\ prevRespCycle' = curCycle + l
    /\ UNCHANGED <<phase, globPhaseCycles, state, gapCycles, accounts, weaving>>

\* Covers the delay to curCycle and ends the chain with an event without delay.
taper ==
    /\ chain' = Append(Append(chain, Event(prevRespCycle - gapCycles, prevRespCycle, curCycle - prevRespCycle, FALSE)),
                       Event(curCycle - gapCycles, curCycle, 0, FALSE))
    /\ prevRespCycle' = curCycle

notifyLeave ==
    /\ phase = "bound" /\ state = "RUNNING"
    /\ Len(chain) <= MaxEvents
    /\ state' = "DRAINING"
    /\ taper
    /\ UNCHANGED <<phase, globPhaseCycles, curCycle, gapCycles, accounts, weaving>>

\* Mutant: the clock of a draining core is left behind.
bringUp_not(c) == c

\* A draining core has no event that brings its clock to the next phase.
bringUp(c) == IF c < limit THEN limit ELSE c

\* The last event of a running core starts in the next phase, so that it is
\* not simulated in this one.
cSimStart ==
    /\ phase = "bound"
    /\ state = "RUNNING" => curCycle > limit
    /\ phase' = "weave"
    /\ IF state = "RUNNING"
       THEN /\ chain' = Append(IF prevRespCycle < curCycle
                               THEN Append(chain, Event(prevRespCycle - gapCycles, prevRespCycle,
                                                        curCycle - prevRespCycle, FALSE))
                               ELSE chain,
                               Event(curCycle - gapCycles, curCycle, 0, FALSE))
            /\ prevRespCycle' = curCycle
       ELSE UNCHANGED <<chain, prevRespCycle>>
    /\ curCycle' = IF state = "DRAINING" THEN bringUp(curCycle) ELSE curCycle
    /\ UNCHANGED <<globPhaseCycles, state, gapCycles, accounts, weaving>>

-----------------------------------------------------------------------------
\* Weave phase.

\* TimingCoreEvent::simulate; the next event follows the delay and, for an
\* access, the contention it meets.
simulate ==
    LET e == chain[1]
    IN  /\ phase = "weave"
        /\ chain # <<>> /\ ready < limit
        /\ last' = [orig |-> e.orig, start |-> ready]
        /\ chain' = Tail(chain)
        /\ \E n \in IF e.access THEN Contention ELSE {0} :
              /\ ready' = ready + e.delay + n
              /\ delayed' = [last |-> delayed.ready, ready |-> delayed.ready + n]
        /\ UNCHANGED <<phase, globPhaseCycles, state, curCycle, gapCycles, prevRespCycle, accounts>>

lastEvCycle1 == last.orig + gapCycles
lastEvCycle2 == last.start

\* Mutant: the start of the last event is compared with its zero-load cycle.
skew_zll == last.start - last.orig

skew == lastEvCycle2 - lastEvCycle1

drained == chain = <<>>

cSimEnd ==
    /\ phase = "weave" /\ (chain = <<>> \/ ready >= limit)
    /\ limit < Phases * PhaseLength
    /\ phase' = "bound" /\ globPhaseCycles' = limit
    /\ IF state = "HALTED"
       THEN UNCHANGED <<curCycle, gapCycles, prevRespCycle, state, lastUnhaltedCycle, last>>
       ELSE /\ curCycle' = curCycle + skew
            /\ gapCycles' = gapCycles + skew
            /\ prevRespCycle' = prevRespCycle + skew
            /\ IF drained
               THEN state' = "HALTED" /\ lastUnhaltedCycle' = last.start /\ last' = None
               ELSE UNCHANGED <<state, lastUnhaltedCycle, last>>
    /\ UNCHANGED <<totalGapCycles, totalHaltedCycles, chain, ready, delayed>>

\* The bound of the model.
Stop ==
    /\ phase = "weave" /\ (chain = <<>> \/ ready >= limit)
    /\ limit >= Phases * PhaseLength
    /\ UNCHANGED vars

Weave == simulate \/ cSimEnd
Next ==
    \/ notifyJoin_halted \/ notifyJoin_draining \/ work \/ recordAccess \/ notifyLeave
    \/ cSimStart \/ Weave \/ Stop

Spec == Init /\ [][Next]_vars

-----------------------------------------------------------------------------
getUnhaltedCycles ==
    LET cycle == IF curCycle >= globPhaseCycles THEN curCycle ELSE globPhaseCycles
    IN  cycle - (totalHaltedCycles + (IF state = "HALTED" THEN cycle - lastUnhaltedCycle ELSE 0))

\* At the end of the weave phase of a core that is not halted an event was
\* simulated, its start is not past the core's clock, and contention never
\* moved it forward (the assertions and the panic of cSimEnd); and an event
\* is never queued before its minimum start, although the minimum was computed
\* with the skew of an earlier phase (the assertion of TimingEvent::run).
SkewIsSound ==
    /\ phase = "weave" /\ state # "HALTED" /\ (chain = <<>> \/ ready >= limit) =>
          /\ last # None
          /\ lastEvCycle1 <= curCycle
          /\ lastEvCycle2 <= curCycle
          /\ lastEvCycle1 <= lastEvCycle2
    /\ chain # <<>> => ready >= chain[1].min

\* The contention cycles that are reported are those that the simulated
\* events met, no more and no less, over any number of joins and leaves; and
\* the halted cycles are never more than the cycles (getUnhaltedCycles is
\* unsigned and would wrap).
ContentionAccounted ==
    /\ phase = "bound" /\ state # "HALTED" =>
          totalGapCycles + gapCycles = delayed.last
    /\ getUnhaltedCycles >= 0

=============================================================================
