------------------------------ MODULE SlotList ------------------------------
(***************************************************************************)
(* The free list of connection slots of the multithreaded server: the CAS  *)
(* loops of Server::insert and Server::remove.  Server::next is the head;  *)
(* a free slot keeps the link to the next one in its own word, `state`,    *)
(* the word that is 0 while the slot is in use.  One action per atomic     *)
(* operation of the code, all of them SeqCst.                              *)
(***************************************************************************)
EXTENDS Slots, FiniteSets

VARIABLES
  next,      (* Server::next                                               *)
  nxt        (* nxt[w]: the local `next` of w's call of insert or remove,  *)
             (* 0 when it is out of scope                                  *)

listVars == <<next, nxt>>

ListLabels == {"insert", "link", "take", "mark", "push", "store", "swing"}

ListTypeOK ==
  /\ next \in Slot
  /\ nxt  \in [Workers -> Link]

(* Server::new: slot i links to slot i + 1, the last one to no slot.       *)
InitState == [s \in Slot |-> s + 1]

ListInit ==
  /\ next = 0
  /\ nxt  = [w \in Workers |-> 0]

-----------------------------------------------------------------------------
(* insert.                                                                 *)

(* idx = self.next.load(), before the loop and in its retry.               *)
LoadHead(w) ==
  /\ At(w, "insert")
  /\ idx' = [idx EXCEPT ![w] = next]
  /\ Goto(w, "link")
  /\ UNCHANGED <<state, next, nxt>>

(* The local goes out of scope.                                            *)
Drop(w) == nxt' = [nxt EXCEPT ![w] = 0]

(* next = self.connections[idx].state.load(): a slot that is in use sends  *)
(* the worker back to the head, the end of the list kills it.              *)
LoadLink(w) ==
  LET link == state[idx[w]] IN
  /\ At(w, "link")
  /\ nxt' = [nxt EXCEPT ![w] = IF link = End THEN 0 ELSE link]
  /\ CASE link = InUse -> Goto(w, "insert")
       [] link = End   -> Panic(w)
       [] OTHER        -> Goto(w, "take")
  /\ UNCHANGED <<idx, state, next>>

(* Mutant of TakeHead: a store instead of the compare_exchange.            *)
TakeHeadStore(w) ==
  /\ At(w, "take")
  /\ next' = nxt[w]
  /\ Goto(w, "mark")
  /\ UNCHANGED <<idx, state, nxt>>

(* self.next.compare_exchange(idx, next); a failure yields the new head.   *)
TakeHead(w) ==
  /\ At(w, "take")
  /\ IF next = idx[w]
       THEN next' = nxt[w] /\ Goto(w, "mark") /\ UNCHANGED idx
       ELSE idx' = [idx EXCEPT ![w] = next] /\ Goto(w, "link") /\ UNCHANGED next
  /\ Drop(w)
  /\ UNCHANGED state

(* prev = self.connections[idx].state.swap(0); assert!(prev != 0); what    *)
(* the worker does with the slot then (label then) is the caller's matter. *)
MarkInUse(w, then) ==
  LET s == idx[w] IN
  /\ At(w, "mark")
  /\ state' = [state EXCEPT ![s] = InUse]
  /\ IF state[s] = InUse THEN Panic(w) ELSE Goto(w, then)
  /\ UNCHANGED <<idx, next, nxt>>

-----------------------------------------------------------------------------
(* remove, after its assertion on the slot's events.                       *)

(* next = self.next.load()                                                 *)
ReadHead(w) ==
  /\ At(w, "push")
  /\ nxt' = [nxt EXCEPT ![w] = next]
  /\ Goto(w, "store")
  /\ UNCHANGED <<idx, state, next>>

(* slot.state.store(next)                                                  *)
StoreLink(w) ==
  /\ At(w, "store")
  /\ state' = [state EXCEPT ![idx[w]] = nxt[w]]
  /\ Goto(w, "swing")
  /\ UNCHANGED <<idx, next, nxt>>

(* Mutants of SwingHead: a store instead of the compare_exchange; after a  *)
(* failure the link is not stored again; the new head is not taken over.   *)
SwingHeadStore(w) ==
  /\ At(w, "swing")
  /\ next' = idx[w]
  /\ Goto(w, "idle")
  /\ UNCHANGED <<idx, state, nxt>>

SwingHeadStaleLink(w) ==
  /\ At(w, "swing")
  /\ IF next = nxt[w]
       THEN next' = idx[w] /\ Goto(w, "idle") /\ UNCHANGED nxt
       ELSE nxt' = [nxt EXCEPT ![w] = next] /\ UNCHANGED <<pc, next>>
  /\ UNCHANGED <<idx, state>>

SwingHeadStaleHead(w) ==
  /\ At(w, "swing")
  /\ IF next = nxt[w]
       THEN next' = idx[w] /\ Goto(w, "idle")
       ELSE Goto(w, "store") /\ UNCHANGED next
  /\ UNCHANGED <<idx, state, nxt>>

(* self.next.compare_exchange(next, idx); a failure yields the new head.   *)
SwingHead(w) ==
  /\ At(w, "swing")
  /\ IF next = nxt[w]
       THEN next' = idx[w] /\ Goto(w, "idle") /\ Drop(w)
       ELSE nxt' = [nxt EXCEPT ![w] = next] /\ Goto(w, "store") /\ UNCHANGED next
  /\ UNCHANGED <<idx, state>>

-----------------------------------------------------------------------------
(* The slots from the head on, as the links of the slots say.  The link of *)
(* a slot that is on the list is a link even if it is 0.                   *)
After(s) == IF s = End THEN End ELSE state[s]

Walk[n \in Nat] == IF n = 0 THEN next ELSE After(Walk[n - 1])

OnList == {Walk[n] : n \in 0 .. NSlots - 1} \ {End}

ListLength ==
  Cardinality({n \in 0 .. NSlots - 1 : \A k \in 0 .. n : Walk[k] # End})

(* The same without recursion: p[0] .. p[n] are the slots from the head to *)
(* the one that links to no slot.                                          *)
IsList(n, p) ==
  /\ p[0] = next /\ state[p[n]] = End
  /\ \A i \in 0 .. n - 1 : state[p[i]] = p[i + 1]
  /\ \A i, j \in 0 .. n : p[i] = p[j] => i = j

On(n, p, s) == \E i \in 0 .. n : p[i] = s

Pop(w)  == LoadHead(w) \/ LoadLink(w) \/ TakeHead(w)
Push(w) == ReadHead(w) \/ StoreLink(w) \/ SwingHead(w)

(* The list is a stack whose pops and pushes are single steps, those of    *)
(* the two compare_exchanges that succeed.                                 *)
Contents == [n \in 1 .. ListLength |-> Walk[n - 1]]

Stack == INSTANCE SlotStack WITH stack <- Contents

IsStack == Stack!Spec
=============================================================================
