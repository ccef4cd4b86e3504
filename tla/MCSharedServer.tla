--------------------------- MODULE MCSharedServer ---------------------------
(* The instance of SharedServer whose safety is checked, with symmetry.    *)
EXTENDS SharedServer, TLC

WorkerSymmetry == Permutations(Workers)
=============================================================================
