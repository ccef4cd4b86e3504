----------------------------- MODULE SlotEvents -----------------------------
(***************************************************************************)
(* The per-slot event protocol of the multithreaded server: how readiness  *)
(* events that several workers receive for one connection are handed to    *)
(* the single worker that is serving it (Server::try_connection), with the *)
(* lock around the connection (Lock::try_lock, TryLock::drop) and the      *)
(* polling loop that delivers the events.                                  *)
(*                                                                         *)
(* Slot::events is a word: bit 0 says that some worker owns the slot, the  *)
(* other bits are the event kinds posted and not yet taken.  Here it is    *)
(* the set of the bits that are on, with Owned for bit 0.  Every access to *)
(* it in the code is one SeqCst read-modify-write, one action here.        *)
(***************************************************************************)
EXTENDS Slots

CONSTANTS
  Kinds,     (* the bits of EventSet::all()                                *)
  Owned      (* bit 0 of Slot::events                                      *)

ASSUME KindsAssumption == Owned \notin Kinds

VARIABLES
  ready,     (* ready[s]: kinds raised by the OS for slot s's socket and   *)
             (* not yet reported by any poll (the epoll ready list)        *)
  batch,     (* batch[w][s]: kinds reported to w for token s + 1 by its    *)
             (* last poll and not yet passed to try_connection             *)
  events,    (* events[s]: Slot::events                                    *)
  locked,    (* locked[s]: Lock::locked                                    *)
  conn,      (* conn[s]: the Option<Connection> in the lock                *)
  bits,      (* bits[w]: the event set w passes to try_connection, and     *)
             (* from the first swap on the word w took from events; {}     *)
             (* when w has left the call                                   *)
  remove     (* remove[w]: the local `remove` of try_connection, FALSE     *)
             (* outside of its loop                                        *)

gateVars == <<ready, batch, events, locked, conn, bits, remove>>

(* The connection slot is empty, holds a connection that is not registered *)
(* with the poll yet (Connection::first is true), or a registered one.     *)
ConnState == {"none", "new", "registered"}

GateLabels == {"idle", "check", "post", "swap", "cas", "lock", "handle",
               "unlock", "clear", "panicked"}

GateTypeOK ==
  /\ ready  \in [Slot -> SUBSET Kinds]
  /\ batch  \in [Workers -> [Slot -> SUBSET Kinds]]
  /\ events \in [Slot -> SUBSET (Kinds \cup {Owned})]
  /\ locked \in [Slot -> BOOLEAN]
  /\ conn   \in [Slot -> ConnState]
  /\ bits   \in [Workers -> SUBSET (Kinds \cup {Owned})]
  /\ remove \in [Workers -> BOOLEAN]

GateInit ==
  /\ ready  = [s \in Slot |-> {}]
  /\ batch  = [w \in Workers |-> [s \in Slot |-> {}]]
  /\ events = [s \in Slot |-> {}]
  /\ locked = [s \in Slot |-> FALSE]
  /\ conn   = [s \in Slot |-> "none"]
  /\ bits   = [w \in Workers |-> {}]
  /\ remove = [w \in Workers |-> FALSE]

-----------------------------------------------------------------------------
(* The poll, which all workers share.                                      *)

(* External: the socket of a registered connection becomes ready (data, a  *)
(* hang-up, buffer space).  Edge triggered: an edge may come at any time,  *)
(* also while the previous one is still being handled.                     *)
Raise(s, K) ==
  /\ conn[s] = "registered"
  /\ ready' = [ready EXCEPT ![s] = @ \cup K]
  /\ UNCHANGED <<pc, idx, state, batch, events, locked, conn, bits, remove>>

(* poll.poll: some of the raised events, which ones is up to the OS, go to *)
(* this worker and to no other one.                                        *)
PollEvents(w) ==
  /\ At(w, "idle")
  /\ \A s \in Slot : batch[w][s] = {}
  /\ \E B \in SUBSET {s \in Slot : ready[s] # {}} :
       /\ B # {}
       /\ batch' = [batch EXCEPT ![w] =
                      [s \in Slot |-> IF s \in B THEN ready[s] ELSE {}]]
       /\ ready' = [s \in Slot |-> IF s \in B THEN {} ELSE ready[s]]
  /\ UNCHANGED <<pc, idx, state, events, locked, conn, bits, remove>>

(* Mutant of Dispatch: the token, slot + 1, is used as the index.          *)
DispatchRawToken(w, s) ==
  /\ At(w, "idle") /\ batch[w][s] # {}
  /\ batch' = [batch EXCEPT ![w][s] = {}]
  /\ bits'  = [bits EXCEPT ![w] = batch[w][s]]
  /\ idx'   = [idx EXCEPT ![w] = s + 1]
  /\ Goto(w, "check")
  /\ UNCHANGED <<state, ready, events, locked, conn, remove>>

(* The loop over the polled events calls ready, which for a connection's   *)
(* token calls try_connection.                                             *)
Dispatch(w, s) ==
  /\ At(w, "idle")
  /\ batch[w][s] # {}
  /\ batch' = [batch EXCEPT ![w][s] = {}]
  /\ bits'  = [bits EXCEPT ![w] = batch[w][s]]
  /\ idx'   = [idx EXCEPT ![w] = s]
  /\ Goto(w, "check")
  /\ UNCHANGED <<state, ready, events, locked, conn, remove>>

-----------------------------------------------------------------------------
(* try_connection.                                                         *)

(* assert_eq!(slot.state.load(SeqCst), 0)                                  *)
AssertInUse(w) ==
  /\ At(w, "check")
  /\ IF state[idx[w]] = InUse THEN Goto(w, "post") ELSE Panic(w)
  /\ UNCHANGED <<idx, state, gateVars>>

(* Mutant of PostEvents: the previous value is ignored.                    *)
PostEventsNoDefer(w) ==
  /\ At(w, "post")
  /\ events' = [events EXCEPT ![idx[w]] = @ \cup bits[w] \cup {Owned}]
  /\ Goto(w, "swap")
  /\ UNCHANGED <<idx, state, ready, batch, locked, conn, bits, remove>>

(* slot.events.fetch_or((events.bits() << 1) | 1): the worker that turns   *)
(* bit 0 on owns the slot, every other one leaves its events to the owner. *)
PostEvents(w) ==
  LET s == idx[w] IN
  /\ At(w, "post")
  /\ events' = [events EXCEPT ![s] = @ \cup bits[w] \cup {Owned}]
  /\ bits'   = [bits EXCEPT ![w] = {}]
  /\ remove' = [remove EXCEPT ![w] = FALSE]
  /\ Goto(w, IF Owned \in events[s] THEN "idle" ELSE "swap")
  /\ UNCHANGED <<idx, state, ready, batch, locked, conn>>

(* let bits = slot.events.swap(1); assert!(bits & 1 == 1)                  *)
TakeEvents(w) ==
  LET s == idx[w] IN
  /\ At(w, "swap")
  /\ bits'   = [bits EXCEPT ![w] = events[s]]
  /\ events' = [events EXCEPT ![s] = {Owned}]
  /\ CASE Owned \notin events[s] -> Panic(w)
       [] events[s] = {Owned}    -> Goto(w, "cas")
       [] OTHER                  -> Goto(w, "lock")
  /\ UNCHANGED <<idx, state, ready, batch, locked, conn, remove>>

(* Mutants of Release: a store instead of the compare_exchange; the slot   *)
(* of a closed connection is given up and not removed.                     *)
ReleaseStore(w) ==
  /\ At(w, "cas")
  /\ events' = [events EXCEPT ![idx[w]] = {}]
  /\ Goto(w, IF remove[w] THEN "clear" ELSE "idle")
  /\ UNCHANGED <<idx, state, ready, batch, locked, conn, bits, remove>>

ReleaseNoRemove(w) ==
  LET s == idx[w]
      quiet == events[s] = {Owned}
  IN
  /\ At(w, "cas")
  /\ events' = [events EXCEPT ![s] = IF quiet THEN {} ELSE @]
  /\ Goto(w, IF quiet THEN "idle" ELSE "swap")
  /\ UNCHANGED <<idx, state, ready, batch, locked, conn, bits, remove>>

(* slot.events.compare_exchange(1, 0): give the slot up unless an event    *)
(* was posted since the swap; then go on to remove, or return.             *)
Release(w) ==
  LET s == idx[w] IN
  /\ At(w, "cas")
  /\ IF events[s] = {Owned}
       THEN /\ events' = [events EXCEPT ![s] = {}]
            /\ remove' = [remove EXCEPT ![w] = FALSE]
            /\ Goto(w, IF remove[w] THEN "clear" ELSE "idle")
       ELSE /\ UNCHANGED <<events, remove>>
            /\ Goto(w, "swap")
  /\ bits' = [bits EXCEPT ![w] = {}]
  /\ UNCHANGED <<idx, state, ready, batch, locked, conn>>

(* Mutant of LockConn: the flag is tested and not set.                     *)
LockConnTest(w) ==
  /\ At(w, "lock")
  /\ IF locked[idx[w]] THEN Panic(w) ELSE Goto(w, "handle")
  /\ UNCHANGED <<idx, state, ready, batch, events, locked, conn, bits, remove>>

(* slot.lock.try_lock().expect("contention")                               *)
LockConn(w) ==
  LET s == idx[w] IN
  /\ At(w, "lock")
  /\ locked' = [locked EXCEPT ![s] = TRUE]
  /\ IF locked[s] THEN Panic(w) ELSE Goto(w, "handle")
  /\ UNCHANGED <<idx, state, ready, batch, events, conn, bits, remove>>

(* Mutant of HandleNone: a slot without a connection is removed.           *)
HandleNoneRemoves(w) ==
  /\ At(w, "handle") /\ ~remove[w] /\ conn[idx[w]] = "none"
  /\ remove' = [remove EXCEPT ![w] = TRUE]
  /\ Goto(w, "unlock")
  /\ UNCHANGED <<idx, state, ready, batch, events, locked, conn, bits>>

(* conn.as_mut().expect("conn is none"); unwinding drops the guard.        *)
HandleNone(w) ==
  LET s == idx[w] IN
  /\ At(w, "handle") /\ ~remove[w] /\ conn[s] = "none"
  /\ locked' = [locked EXCEPT ![s] = FALSE]
  /\ Panic(w)
  /\ UNCHANGED <<idx, state, ready, batch, events, conn, bits, remove>>

(* poll.register on the first call of the handler: from here on events of  *)
(* this connection reach every worker, while the owner still handles it.   *)
Register(w) ==
  LET s == idx[w] IN
  /\ At(w, "handle") /\ ~remove[w] /\ conn[s] = "new"
  /\ conn' = [conn EXCEPT ![s] = "registered"]
  /\ UNCHANGED <<pc, idx, state, ready, batch, events, locked, bits, remove>>

(* conn.ready returns Ok and leaves the connection open.                   *)
HandleKeep(w) ==
  /\ At(w, "handle") /\ ~remove[w] /\ conn[idx[w]] = "registered"
  /\ Goto(w, "unlock")
  /\ UNCHANGED <<idx, state, ready, batch, events, locked, conn, bits, remove>>

(* conn.ready fails or finishes the connection, or an earlier turn of the  *)
(* loop did: *conn = None drops the connection, which closes its socket    *)
(* and takes it off the poll.                                              *)
HandleRemove(w) ==
  LET s == idx[w] IN
  /\ At(w, "handle") /\ (remove[w] \/ conn[s] = "registered")
  /\ remove' = [remove EXCEPT ![w] = TRUE]
  /\ conn'   = [conn EXCEPT ![s] = "none"]
  /\ ready'  = [ready EXCEPT ![s] = {}]
  /\ Goto(w, "unlock")
  /\ UNCHANGED <<idx, state, batch, events, locked, bits>>

(* poll.register fails (unwrap) or conn.ready panics (the request is not   *)
(* for /plaintext): the guard is dropped, bit 0 of events stays on.        *)
HandlePanic(w) ==
  LET s == idx[w] IN
  /\ At(w, "handle") /\ ~remove[w] /\ conn[s] # "none"
  /\ locked' = [locked EXCEPT ![s] = FALSE]
  /\ Panic(w)
  /\ UNCHANGED <<idx, state, ready, batch, events, conn, bits, remove>>

(* The guard `conn` is dropped at the end of the loop body.                *)
Unlock(w) ==
  LET s == idx[w] IN
  /\ At(w, "unlock")
  /\ locked' = [locked EXCEPT ![s] = FALSE]
  /\ Goto(w, "swap")
  /\ UNCHANGED <<idx, state, ready, batch, events, conn, bits, remove>>

(* remove: assert_eq!(slot.events.swap(0), 0), before the slot is pushed   *)
(* on the free list.                                                       *)
AssertQuiet(w) ==
  LET s == idx[w] IN
  /\ At(w, "clear")
  /\ events' = [events EXCEPT ![s] = {}]
  /\ IF events[s] = {} THEN Goto(w, "push") ELSE Panic(w)
  /\ UNCHANGED <<idx, state, ready, batch, locked, conn, bits, remove>>

Handle(w) == \/ HandleNone(w) \/ Register(w) \/ HandleKeep(w)
             \/ HandleRemove(w) \/ HandlePanic(w)

(* The steps of a worker that has started a call of try_connection.        *)
GateStep(w) == \/ AssertInUse(w) \/ PostEvents(w) \/ TakeEvents(w)
               \/ Release(w) \/ LockConn(w) \/ Handle(w) \/ Unlock(w)
               \/ AssertQuiet(w)
=============================================================================
