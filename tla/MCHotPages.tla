------------------------------ MODULE MCHotPages ------------------------------
(***************************************************************************)
(* Instances of HotPages: one core, or two cores that each run a process   *)
(* of their own.                                                           *)
(***************************************************************************)
EXTENDS HotPages

CONSTANTS A, B, P, Q

AlonePinned == A :> P
TwoProcesses == A :> P @@ B :> Q

\* Virtual pages, frames and blocks are only compared.
PageSymmetry == Permutations(Vpns) \cup Permutations(Frames) \cup Permutations(Blocks)
===============================================================================
