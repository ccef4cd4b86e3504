----------------------------- MODULE EventGate -----------------------------
(***************************************************************************)
(* One lifetime of every connection slot of the multithreaded server, from *)
(* its insertion to its removal: the protocol of SlotEvents, run by any    *)
(* number of workers over any number of slots.                             *)
(*                                                                         *)
(* The free list is abstract here: insert hands out a slot that nobody has *)
(* used, once, and the end of remove only gives the slot some link.  What  *)
(* a reused slot adds is the subject of SharedServer, and so is liveness.  *)
(***************************************************************************)
EXTENDS SlotEvents

VARIABLE vacant    (* the slots insert has not handed out                  *)

vars == <<pc, idx, state, vacant, gateVars>>

Init ==
  /\ pc     = [w \in Workers |-> "idle"]
  /\ idx    = [w \in Workers |-> 0]
  /\ state  = [s \in Slot |-> End]
  /\ vacant = Slot
  /\ GateInit

(* A worker that accepts a socket: insert, as one step, and the call       *)
(* try_connection(token, EventSet::all()) that follows it.                 *)
Insert(w, s) ==
  /\ At(w, "idle")
  /\ s \in vacant
  /\ vacant' = vacant \ {s}
  /\ state'  = [state EXCEPT ![s] = InUse]
  /\ conn'   = [conn EXCEPT ![s] = "new"]
  /\ idx'    = [idx EXCEPT ![w] = s]
  /\ bits'   = [bits EXCEPT ![w] = Kinds]
  /\ Goto(w, "check")
  /\ UNCHANGED <<ready, batch, events, locked, remove>>

(* The push of remove, as one step: the slot gets the link to what was the *)
(* head of the free list.  The head may be slot 0, and the link to it is   *)
(* the number that marks a slot in use.                                    *)
Push(w) ==
  /\ At(w, "push")
  /\ \E link \in Link : state' = [state EXCEPT ![idx[w]] = link]
  /\ Goto(w, "idle")
  /\ UNCHANGED <<idx, vacant, gateVars>>

Poll(w) == PollEvents(w) /\ UNCHANGED vacant
Call(w, s) == Dispatch(w, s) /\ UNCHANGED vacant
Step(w) == GateStep(w) /\ UNCHANGED vacant
Edge(s, K) == Raise(s, K) /\ UNCHANGED vacant

Next ==
  \/ \E s \in Slot, K \in SUBSET Kinds \ {{}} : Edge(s, K)
  \/ \E w \in Workers :
       \/ Poll(w)
       \/ Step(w)
       \/ Push(w)
       \/ \E s \in Slot : Insert(w, s) \/ Call(w, s)

Spec == Init /\ [][Next]_vars

-----------------------------------------------------------------------------

TypeOK ==
  /\ pc     \in [Workers -> GateLabels \cup {"push"}]
  /\ idx    \in [Workers -> Slot]
  /\ state  \in [Slot -> Link]
  /\ vacant \in SUBSET Slot
  /\ GateTypeOK

(* w is in the loop of try_connection for slot s, as its owner.            *)
Owner(w, s) == /\ idx[w] = s
               /\ pc[w] \in {"swap", "cas", "lock", "handle", "unlock"}

(* w holds bit 0 of s: it owns s, or it died while it did.                 *)
Holder(w, s) == Owner(w, s) \/ (idx[w] = s /\ pc[w] = "panicked")

(* The connection of s is open, or the worker that has just closed it has  *)
(* not given the slot up yet.                                              *)
Live(s) == conn[s] # "none" \/ \E w \in Workers : Owner(w, s) /\ remove[w]

(* w is removing s from the server.                                        *)
Removing(w, s) == idx[w] = s /\ pc[w] \in {"clear", "push"}

-----------------------------------------------------------------------------
(* Safety.                                                                 *)

(* Lock::try_lock and TryLock::drop: the guarded region of a slot has at   *)
(* most one worker in it, whatever the event protocol does, which is what  *)
(* `unsafe impl Sync for Lock` rests on.                                   *)
InGuard(w, s) == idx[w] = s /\ pc[w] \in {"handle", "unlock"}

LockExclusion ==
  \A s \in Slot :
    /\ \A v, w \in Workers : InGuard(v, s) /\ InGuard(w, s) => v = w
    /\ locked[s] <=> \E w \in Workers : InGuard(w, s)

(* While a connection is live, bit 0 of its events says exactly whether    *)
(* some worker holds it, and no two workers do.  So `contention` cannot    *)
(* happen, and the compare_exchange that gives the slot up gives up the    *)
(* worker's own bit.                                                       *)
SingleOwner ==
  \A s \in Slot : Live(s) =>
    /\ \A v, w \in Workers : Holder(v, s) /\ Holder(w, s) => v = w
    /\ Owned \in events[s] <=> \E w \in Workers : Holder(w, s)
    /\ Owned \notin events[s] => events[s] = {}

(* A connection is removed once: no two workers remove the same slot, and  *)
(* none does while it is live, even when an event that was polled before   *)
(* the removal arrives after it.                                           *)
RemovedOnce ==
  \A s \in Slot, v, w \in Workers :
    Removing(v, s) /\ Removing(w, s) => v = w /\ ~Live(s)

(* A removed connection never comes back to life.                          *)
RemovalIsFinal ==
  [][\A s \in Slot \ vacant : ~Live(s) => ~Live(s)']_vars

(* None of the assertions of try_connection fails for a live connection:   *)
(* the only thing that kills a worker there is the connection's own        *)
(* handler.                                                                *)
AssertionsHold ==
  [][\A w \in Workers :
       ~At(w, "panicked") /\ At(w, "panicked")'
         => HandlePanic(w) \/ ~Live(idx[w])]_vars

-----------------------------------------------------------------------------
(* The inductive invariant.  RemovedOnce, LockExclusion and SingleOwner    *)
(* are parts of it; they need that a slot that was not handed out is       *)
(* untouched, and that a live slot is marked in use, is removed by nobody, *)
(* and is empty exactly when its owner is about to give it up.             *)

Untouched ==
  \A s \in vacant :
    /\ conn[s] = "none" /\ events[s] = {} /\ ready[s] = {}
    /\ \A w \in Workers : /\ batch[w][s] = {}
                          /\ idx[w] = s => At(w, "idle")

LiveSlots ==
  \A s \in Slot : Live(s) =>
    /\ state[s] = InUse
    /\ \A w \in Workers :
         /\ ~Removing(w, s)
         /\ Owner(w, s) => (remove[w] <=> conn[s] = "none")

(* Every reachable state satisfies the invariant the proofs of module      *)
(* EventGateProofs establish by induction.                                 *)
IInv == /\ TypeOK /\ Untouched /\ LockExclusion
        /\ SingleOwner /\ LiveSlots /\ RemovedOnce

-----------------------------------------------------------------------------
(* Refinement: SerialHandler.  The batch a worker has swapped out of       *)
(* events is the one being served until the handler returns; the events a  *)
(* closed connection still receives do not exist for the specification.    *)

Status(s) ==
  CASE s \in vacant                                         -> "unborn"
    [] s \notin vacant /\ conn[s] = "none"                  -> "closed"
    [] conn[s] # "none" /\ \E w \in Workers :
         idx[w] = s /\ At(w, "panicked")                    -> "wedged"
    [] OTHER                                                -> "open"

Taken(s) == {k \in Kinds : \E w \in Workers : /\ idx[w] = s
                                             /\ pc[w] \in {"lock", "handle"}
                                             /\ k \in bits[w]}

Pending(s) == IF conn[s] = "none" THEN {} ELSE events[s] \ {Owned}
Serving(s) == IF conn[s] = "none" THEN {} ELSE Taken(s)

Serial == INSTANCE SerialHandler WITH
  Conns   <- Slot,
  status  <- [s \in Slot |-> Status(s)],
  pending <- [s \in Slot |-> Pending(s)],
  serving <- [s \in Slot |-> Serving(s)]

(* try_connection implements SerialHandler.                                *)
HandlesSerially == Serial!Spec

-----------------------------------------------------------------------------
(* What the code claims of every event, read as an invariant: "make sure   *)
(* slot is in use".                                                        *)
EventsFindSlotInUse ==
  \A w \in Workers : At(w, "check") => state[idx[w]] = InUse
=============================================================================
