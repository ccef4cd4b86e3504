---------------------------- MODULE MCSlabServer ----------------------------
(* The instance of SlabServer that is checked.                             *)
EXTENDS SlabServer
=============================================================================
