---------------------------- MODULE MCConnection ----------------------------
(* Connection for model checking: the bounds are in the cfg files.         *)
EXTENDS Connection
=============================================================================
