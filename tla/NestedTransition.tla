-------------------------- MODULE NestedTransition --------------------------
(***************************************************************************)
(* The two state machines of nested-transition-perf, each called until it  *)
(* says that it is done: sixteen TwoStates, one inside the other around a  *)
(* Cap, and the flat SixteenState.                                         *)
(*                                                                         *)
(* The code recurses through the levels.  What next_state of a level       *)
(* returns depends on that level alone (a level in State1 says false       *)
(* whatever is inside), so that the recursion comes down to which levels a *)
(* call gets to.                                                           *)
(***************************************************************************)
EXTENDS Naturals

VARIABLES
  nested,        (* nested[i]: the TwoState of level i, 1 is the outermost *)
  nestedDone,    (* the last call returned IsDone(true)                    *)
  nestedCalls,   (* the calls of next_state by the loop                    *)
  flat,          (* the SixteenState: the n of Sn                          *)
  flatDone,
  flatCalls

nestedVars == <<nested, nestedDone, nestedCalls>>
flatVars   == <<flat, flatDone, flatCalls>>
loopVars       == <<nestedVars, flatVars>>

Depth == 16
Level == 1 .. Depth

LoopsInit ==
  /\ nested = [i \in Level |-> "State1"] /\ flat = 1
  /\ nestedDone = FALSE /\ flatDone = FALSE
  /\ nestedCalls = 0 /\ flatCalls = 0

(* What next_state of level i returns; inside the last level is the Cap.   *)
IsDone(i) == i = Depth + 1 \/ nested[i] = "State2"

(* A call of the outermost level gets to level i.                          *)
Called(i) == \A j \in 1 .. i - 1 : nested[j] = "State1"

(* while !nested.next_state().0 {}                                         *)
CallNested ==
  /\ ~nestedDone
  /\ nested' = [i \in Level |->
       IF Called(i) /\ IsDone(i + 1) THEN "State2" ELSE nested[i]]
  /\ nestedDone'  = IsDone(1)
  /\ nestedCalls' = nestedCalls + 1
  /\ UNCHANGED flatVars

(* while !flat.next_state().0 {}                                           *)
CallFlat ==
  /\ ~flatDone
  /\ flat'      = IF flat = 16 THEN 16 ELSE flat + 1
  /\ flatDone'  = (flat = 16)
  /\ flatCalls' = flatCalls + 1
  /\ UNCHANGED nestedVars

LoopsNext == CallNested \/ CallFlat

LoopsSpec == LoopsInit /\ [][LoopsNext]_loopVars

-----------------------------------------------------------------------------

(* After k calls the k innermost levels have moved on, one with each call. *)
Shape(k) == [i \in Level |-> IF i <= Depth - k THEN "State1" ELSE "State2"]

NestedFinishesInwardOut ==
  /\ ~nestedDone => nestedCalls \in 0 .. Depth /\ nested = Shape(nestedCalls)
  /\ nestedDone  => nestedCalls = Depth + 1 /\ nested = Shape(Depth)
  /\ nestedDone \in BOOLEAN

FlatCounts ==
  /\ ~flatDone => flatCalls \in 0 .. 15 /\ flat = flatCalls + 1
  /\ flatDone  => flatCalls = 16 /\ flat = 16
  /\ flatDone \in BOOLEAN

(* Both loops of the benchmark end, and the nested one takes one call more *)
(* than the flat one: sixteen levels make seventeen states.                *)
NestedTakesOneCallMore ==
  /\ nestedCalls <= 17 /\ flatCalls <= 16
  /\ nestedDone /\ flatDone => nestedCalls = flatCalls + 1
=============================================================================
