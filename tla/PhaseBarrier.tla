----------------------------- MODULE PhaseBarrier -----------------------------
(***************************************************************************)
(* What the phase barrier promises to the scheduler, with no lists and no  *)
(* counters: a member runs at most once per phase unless it leaves and     *)
(* comes back, at most parallelThreads members run at a time, and a phase  *)
(* ends only when every member has had its turn.                           *)
(***************************************************************************)
EXTENDS Naturals, FiniteSets

CONSTANTS Tids, parallelThreads

VARIABLES status  \* per thread: out, ready (to run), running, done (synced)

Out == {t \in Tids : status[t] = "out"}
Ready == {t \in Tids : status[t] = "ready"}
Running == {t \in Tids : status[t] = "running"}
Done == {t \in Tids : status[t] = "done"}

Init == status = [t \in Tids |-> "out"]

Join(t) ==
    /\ t \in Out
    /\ status' = [status EXCEPT ![t] = "ready"]

Run(t) ==
    /\ t \in Ready
    /\ Cardinality(Running) < parallelThreads
    /\ status' = [status EXCEPT ![t] = "running"]

Sync(t) ==
    /\ t \in Running
    /\ status' = [status EXCEPT ![t] = "done"]

Leave(t) ==
    /\ t \notin Out
    /\ status' = [status EXCEPT ![t] = "out"]

EndPhase ==
    /\ Ready = {} /\ Running = {} /\ Done # {}
    /\ status' = [t \in Tids |-> IF t \in Done THEN "ready" ELSE status[t]]

Next ==
    \/ \E t \in Tids : Join(t) \/ Run(t) \/ Sync(t) \/ Leave(t)
    \/ EndPhase

Spec == Init /\ [][Next]_status
=============================================================================
