----------------------------- MODULE MCNaiveMio -----------------------------
(* The instance of NaiveMio that is checked.                               *)
EXTENDS NaiveMio
=============================================================================
