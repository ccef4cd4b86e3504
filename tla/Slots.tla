------------------------------- MODULE Slots -------------------------------
(***************************************************************************)
(* What the two lock-free protocols of the multithreaded server            *)
(* (techempower-6/mio-multithread) share: the worker threads with their    *)
(* program counters, the fixed table of connection slots, and the one word *)
(* of a slot, `state`, that both protocols read.                           *)
(*                                                                         *)
(* A worker is inside at most one call of insert, try_connection or remove *)
(* at a time, and each of these calls works on one slot, idx.  A label     *)
(* names the next atomic operation a worker is about to execute.           *)
(***************************************************************************)
EXTENDS Naturals

CONSTANTS
  Workers,   (* the threads spawned by main; the code has 8               *)
  NSlots     (* the length of Server::connections; the code has 1024      *)

ASSUME SlotsAssumption == NSlots \in Nat \ {0}

VARIABLES
  pc,        (* pc[w]: the label of worker w                              *)
  idx,       (* idx[w]: the slot of w's current call                      *)
  state      (* state[s]: Slot::state, the in-use mark or a free-list link *)

Slot  == 0 .. NSlots - 1

InUse == 0         (* the value of Slot::state that marks a slot in use    *)
End   == NSlots    (* usize::max_value(): the link that is no index        *)
Link  == 0 .. NSlots

At(w, label)   == pc[w] = label
Goto(w, label) == pc' = [pc EXCEPT ![w] = label]

(* A failed assert!, expect or unwrap: the thread unwinds and is gone, the *)
(* process and the other workers go on (main is blocked in the first join  *)
(* that has not returned).                                                 *)
Panic(w)       == Goto(w, "panicked")
=============================================================================
