---------------------------- MODULE MCDateCache ----------------------------
(* The instance of DateCache that is checked: bounds in the cfg file.      *)
EXTENDS DateCache
=============================================================================
