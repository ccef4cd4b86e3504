---------------------------- MODULE MCEventGate ----------------------------
(* Bounds and symmetry for model checking EventGate.                       *)
EXTENDS EventGate, TLC

WorkerSymmetry == Permutations(Workers)
GateSymmetry   == Permutations(Workers) \cup Permutations(Kinds)
=============================================================================
