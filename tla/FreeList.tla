------------------------------ MODULE FreeList ------------------------------
(***************************************************************************)
(* The free list of SlotList under the calls the server makes: a worker    *)
(* that accepts a socket inserts it, and any worker may find that a        *)
(* connection is to be closed and remove it; a connection is removed once  *)
(* (EventGate!RemovedOnce).                                                *)
(*                                                                         *)
(* The constant Overlap restricts the environment, to tell apart what the  *)
(* list needs from what it is used for.  Without it any number of workers  *)
(* accept at once, then, when none is in the middle of a pop, connections  *)
(* begin to close, and from there on one worker at a time accepts while    *)
(* the others close.                                                       *)
(***************************************************************************)
EXTENDS SlotList, Sequences

CONSTANT Overlap   (* accepting may overlap with accepting and closing     *)

ASSUME EnvironmentAssumption == Overlap \in BOOLEAN

VARIABLES
  live,            (* the slots with a connection, from the mark of insert *)
                   (* to the call of remove                                *)
  closing          (* some connection has been closed                      *)

vars == <<pc, idx, state, next, nxt, live, closing>>

Init ==
  /\ pc      = [w \in Workers |-> "idle"]
  /\ idx     = [w \in Workers |-> 0]
  /\ state   = InitState
  /\ live    = {}
  /\ closing = FALSE
  /\ ListInit

Popping == {w \in Workers : pc[w] \in {"insert", "link", "take"}}

Accept(w) ==
  /\ At(w, "idle")
  /\ Overlap \/ ~closing \/ Popping = {}
  /\ Goto(w, "insert")
  /\ UNCHANGED <<idx, state, live, closing, listVars>>

Mark(w) ==
  /\ MarkInUse(w, "idle")
  /\ live' = IF state[idx[w]] = InUse THEN live ELSE live \cup {idx[w]}
  /\ UNCHANGED closing

Close(w, s) ==
  /\ At(w, "idle") /\ s \in live
  /\ Overlap \/ closing \/ Popping = {}
  /\ idx'  = [idx EXCEPT ![w] = s]
  /\ live' = live \ {s}
  /\ closing' = TRUE
  /\ Goto(w, "push")
  /\ UNCHANGED <<state, listVars>>

(* A worker goes on with the call it is in.                                *)
Step(w) == Mark(w) \/ ((Pop(w) \/ Push(w)) /\ UNCHANGED <<live, closing>>)

Next ==
  \E w \in Workers : Accept(w) \/ Step(w) \/ \E s \in Slot : Close(w, s)

Spec == Init /\ [][Next]_vars

(* Neither loop blocks: a worker in a call always has a next step, and the *)
(* OS runs every thread.  Nobody has to connect or to hang up.             *)
FairSpec == Spec /\ \A w \in Workers : WF_vars(Step(w))

-----------------------------------------------------------------------------

TypeOK ==
  /\ pc    \in [Workers -> {"idle", "panicked"} \cup ListLabels]
  /\ idx   \in [Workers -> Slot]
  /\ state \in [Slot -> Link]
  /\ live  \in SUBSET Slot /\ closing \in BOOLEAN
  /\ ListTypeOK

(* Between the CAS that takes a slot and its mark, and from the call of    *)
(* remove to the CAS that pushes it, the slot is in the hands of a worker. *)
Hands == {"mark", "push", "store", "swing"}

Holds(w, s) == idx[w] = s /\ pc[w] \in Hands
InHands(s)  == \E w \in Workers : Holds(w, s)

-----------------------------------------------------------------------------
(* Safety, without overlap.                                                *)

(* No slot is lost and none is in two places: every slot is on the list,   *)
(* in use, or in the hands of exactly one worker, and the list ends.       *)
NoSlotLost ==
  /\ Walk[NSlots] = End
  /\ \A s \in Slot :
       /\ (s \in OnList) # (s \in live \/ InHands(s))
       /\ ~(s \in live /\ InHands(s))
       /\ \A v, w \in Workers : Holds(v, s) /\ Holds(w, s) => v = w

(* The inductive invariant, with it the types.  Who pops may rely on what  *)
(* it has loaded as long as the slot is still on the list: while           *)
(* connections close, nobody else pops; before, nobody pushes.             *)
Apart ==
  \A s \in Slot :
    /\ ~(s \in live /\ InHands(s))
    /\ \A v, w \in Workers : Holds(v, s) /\ Holds(w, s) => v = w

Phases ==
  IF closing THEN \A v, w \in Popping : v = w
             ELSE \A w \in Workers : pc[w] \notin {"push", "store", "swing"}

Locals ==
  \A w \in Workers :
    /\ At(w, "take")  => nxt[w] \in Slot \ {InUse}
    /\ At(w, "mark")  => state[idx[w]] # InUse
    /\ At(w, "store") => nxt[w] \in Slot
    /\ At(w, "swing") => nxt[w] \in Slot /\ state[idx[w]] = nxt[w]

(* What is said of the slots p[0] .. p[n] of the list.                     *)
Partition(n, p) ==
  \A s \in Slot : (\E i \in 0 .. n : p[i] = s) # (s \in live \/ InHands(s))

Loaded(n, p) ==
  \A w \in Popping :
    LET on == \E i \in 0 .. n : p[i] = idx[w] IN
    /\ closing /\ ~At(w, "insert") => on
    /\ on /\ At(w, "take") => state[idx[w]] = nxt[w]

IInv ==
  /\ TypeOK /\ Apart /\ Phases /\ Locals
  /\ \E n \in 0 .. NSlots - 1 : \E p \in [0 .. n -> Slot] :
       IsList(n, p) /\ Partition(n, p) /\ Loaded(n, p)

-----------------------------------------------------------------------------
(* Liveness.                                                               *)

(* The two loops are lock free: as long as some worker is in a call, calls *)
(* go on to complete.  The exception is the code's: when the head of the   *)
(* list links to slot 0, its word is the mark of a slot in use, and insert *)
(* retries until something else is pushed.                                 *)
Completes(w) == ~At(w, "idle") /\ (At(w, "idle") \/ At(w, "panicked"))'

LockFree ==
  \/ []<>(\A w \in Workers : pc[w] \in {"idle", "panicked"})
  \/ []<><<\E w \in Workers : Completes(w)>>_vars
  \/ <>[](state[next] = InUse)

-----------------------------------------------------------------------------
(* What the comments of the code say.                                      *)

(* "if that succeeds then we've now taken this slot": no worker puts its   *)
(* connection where another connection lives.                              *)
OneConnectionPerSlot ==
  [][\A w \in Workers :
       At(w, "mark") /\ At(w, "idle")' => idx[w] \notin live]_vars
=============================================================================
