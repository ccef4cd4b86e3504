----------------------------- MODULE MCFreeList -----------------------------
(* The instances of FreeList that are checked: the cfg files give the      *)
(* bounds and say whether accepting overlaps.                              *)
EXTENDS FreeList
=============================================================================
