----------------------------- MODULE SlotStack -----------------------------
(***************************************************************************)
(* What the free list promises: a stack of slots.  A slot is handed out    *)
(* from the top, in one step, and comes back to the top; the one at the    *)
(* bottom is never handed out; no slot is on the stack twice.              *)
(***************************************************************************)
EXTENDS Sequences, SequencesExt, Naturals

CONSTANT NSlots

VARIABLE stack

Init == stack = [i \in 1 .. NSlots |-> i - 1]

Take == Len(stack) > 1 /\ stack' = Tail(stack)

Give(s) == s \notin ToSet(stack) /\ stack' = <<s>> \o stack

Next == Take \/ \E s \in 0 .. NSlots - 1 : Give(s)

Spec == Init /\ [][Next]_stack
=============================================================================
