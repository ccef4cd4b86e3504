---------------------------- MODULE SharedServer ----------------------------
(***************************************************************************)
(* The server of mio-multithread as a whole: workers that share one poll   *)
(* and one listener, the event protocol of SlotEvents and the free list of *)
(* SlotList over the same slots, which are used again and again.           *)
(*                                                                         *)
(* EventGate shows that the event protocol is right for one lifetime of a  *)
(* slot, FreeList that the list is right if nobody disturbs its slots.     *)
(* Here an event that was polled for one connection can be late and meet   *)
(* the slot free, in the hands of insert, or with another connection in it.*)
(*                                                                         *)
(* The environment is calm: a client connects only when no other client is *)
(* waiting or being inserted.  FreeList shows what happens to the list     *)
(* when accepting overlaps.                                                *)
(***************************************************************************)
EXTENDS SlotEvents, SlotList

VARIABLES
  backlog,     (* clients in the listener's queue                          *)
  listening,   (* the workers with the listener's event in their batch     *)
  accepting,   (* the workers in the accept loop                           *)
  stale,       (* history: <<w, s>> if the event of s in w's batch was     *)
               (* polled for a connection that has been closed since       *)
  late         (* history: the workers in a call for such an event         *)

loopVars == <<backlog, listening, accepting>>
history  == <<stale, late>>
vars     == <<pc, idx, state, gateVars, listVars, loopVars, history>>

Init ==
  /\ pc        = [w \in Workers |-> "idle"]
  /\ idx       = [w \in Workers |-> 0]
  /\ state     = InitState
  /\ backlog   = 0
  /\ listening = {}
  /\ accepting = {}
  /\ stale     = {}
  /\ late      = {}
  /\ GateInit
  /\ ListInit

-----------------------------------------------------------------------------
(* The environment.                                                        *)

Inserting(w) == pc[w] \in {"insert", "link", "take", "mark", "fill", "put"}

Connect ==
  /\ backlog = 0 /\ \A w \in Workers : ~Inserting(w)
  /\ backlog' = 1
  /\ UNCHANGED <<pc, idx, state, gateVars, listVars, listening, accepting, history>>

Edge(s, K) == Raise(s, K) /\ UNCHANGED <<listVars, loopVars, history>>

-----------------------------------------------------------------------------
(* The loop of a worker.                                                   *)

(* The listener is registered by level: as long as a client waits, every   *)
(* poll reports it, to any number of workers, with or without other events.*)
Poll(w) ==
  /\ w \notin listening \cup accepting
  /\ \/ PollEvents(w) /\ UNCHANGED listening
     \/ PollEvents(w) /\ backlog > 0 /\ listening' = listening \cup {w}
     \/ /\ At(w, "idle") /\ \A s \in Slot : batch[w][s] = {}
        /\ backlog > 0 /\ listening' = listening \cup {w}
        /\ UNCHANGED <<pc, idx, state, gateVars>>
  /\ UNCHANGED <<listVars, backlog, accepting, history>>

DispatchListener(w) ==
  /\ At(w, "idle") /\ w \in listening
  /\ listening' = listening \ {w}
  /\ accepting' = accepting \cup {w}
  /\ UNCHANGED <<pc, idx, state, gateVars, listVars, backlog, history>>

DispatchEvent(w, s) ==
  /\ w \notin accepting
  /\ Dispatch(w, s)
  /\ late'  = IF <<w, s>> \in stale THEN late \cup {w} ELSE late
  /\ stale' = stale \ {<<w, s>>}
  /\ UNCHANGED <<listVars, loopVars>>

(* while let Ok(Some(socket)) = self.listener.accept()                     *)
Accept(w) ==
  /\ At(w, "idle") /\ w \in accepting /\ backlog > 0
  /\ backlog' = backlog - 1
  /\ Goto(w, "insert")
  /\ UNCHANGED <<idx, state, gateVars, listVars, listening, accepting, history>>

(* Mutant of AcceptDone: the loop also goes on after None.                 *)
AcceptDoneLoops(w) ==
  /\ At(w, "idle") /\ w \in accepting /\ backlog = 0
  /\ UNCHANGED vars

(* accept yields no socket, since nobody waits or because it fails: the    *)
(* loop ends, the next event is dispatched.                                *)
AcceptDone(w) ==
  /\ At(w, "idle") /\ w \in accepting
  /\ accepting' = accepting \ {w}
  /\ UNCHANGED <<pc, idx, state, gateVars, listVars, backlog, listening, history>>

-----------------------------------------------------------------------------
(* insert.                                                                 *)

InsertStep(w) ==
  /\ Pop(w) \/ MarkInUse(w, "fill")
  /\ UNCHANGED <<gateVars, loopVars, history>>

(* Mutant of LockSlot: the flag is tested and not set.                     *)
LockSlotTest(w) ==
  /\ At(w, "fill")
  /\ IF locked[idx[w]] THEN Panic(w) ELSE Goto(w, "put")
  /\ UNCHANGED <<idx, state, gateVars, listVars, loopVars, history>>

(* lock.try_lock().expect("failed lock"): a late event may hold the lock.  *)
LockSlot(w) ==
  LET s == idx[w] IN
  /\ At(w, "fill")
  /\ locked' = [locked EXCEPT ![s] = TRUE]
  /\ IF locked[s] THEN Panic(w) ELSE Goto(w, "put")
  /\ UNCHANGED <<idx, state, ready, batch, events, conn, bits, remove,
                 listVars, loopVars, history>>

(* Mutant of PutConnection: the new connection is left to later events.    *)
PutConnectionWaits(w) ==
  LET s == idx[w] IN
  /\ At(w, "put")
  /\ conn'   = [conn EXCEPT ![s] = "new"]
  /\ locked' = [locked EXCEPT ![s] = FALSE]
  /\ Goto(w, "idle")
  /\ UNCHANGED <<idx, state, ready, batch, events, bits, remove,
                 listVars, loopVars, history>>

(* *slot = Some(Connection::new(socket)), the guard is dropped, and the    *)
(* worker calls try_connection(token, EventSet::all()).                    *)
PutConnection(w) ==
  LET s == idx[w] IN
  /\ At(w, "put")
  /\ conn'   = [conn EXCEPT ![s] = "new"]
  /\ locked' = [locked EXCEPT ![s] = FALSE]
  /\ bits'   = [bits EXCEPT ![w] = Kinds]
  /\ Goto(w, "check")
  /\ UNCHANGED <<idx, state, ready, batch, events, remove,
                 listVars, loopVars, history>>

-----------------------------------------------------------------------------
(* try_connection and remove.  When a connection is closed, the events of  *)
(* its slot that workers have polled and not posted yet become late.       *)

Outdate(w) ==
  LET s == idx[w]
      closes == conn[s] # "none" /\ conn'[s] = "none"
      over   == IF At(w, "idle")' THEN {w} ELSE {}
  IN
  /\ stale' = IF closes THEN stale \cup {<<v, s>> : v \in {u \in Workers : batch[u][s] # {}}}
                        ELSE stale
  /\ late' = IF closes THEN late \cup {v \in Workers : idx[v] = s /\ pc[v] \in {"check", "post"}}
                       ELSE late \ over

EventStep(w) == GateStep(w) /\ Outdate(w) /\ UNCHANGED <<listVars, loopVars>>

PushStep(w) ==
  /\ Push(w)
  /\ late' = late \ (IF At(w, "idle")' THEN {w} ELSE {})
  /\ UNCHANGED <<gateVars, loopVars, stale>>

(* What a worker does on its own, between two polls.                       *)
Work(w) ==
  \/ DispatchListener(w) \/ \E s \in Slot : DispatchEvent(w, s)
  \/ Accept(w) \/ AcceptDone(w)
  \/ InsertStep(w) \/ LockSlot(w) \/ PutConnection(w)
  \/ EventStep(w) \/ PushStep(w)

Next ==
  \/ Connect
  \/ \E s \in Slot, K \in SUBSET Kinds \ {{}} : Edge(s, K)
  \/ \E w \in Workers : Poll(w) \/ Work(w)

Spec == Init /\ [][Next]_vars

(* The OS runs every worker that is not in poll, and nothing else blocks.  *)
(* Clients, sockets and the poll owe nothing.                              *)
Fairness == \A w \in Workers : WF_vars(Work(w))

FairSpec == Spec /\ Fairness

-----------------------------------------------------------------------------

TypeOK ==
  /\ pc    \in [Workers -> GateLabels \cup ListLabels \cup {"fill", "put"}]
  /\ idx   \in [Workers -> Slot]
  /\ state \in [Slot -> Link]
  /\ backlog \in {0, 1}
  /\ listening \in SUBSET Workers /\ accepting \in SUBSET Workers
  /\ stale \in SUBSET (Workers \X Slot) /\ late \in SUBSET Workers
  /\ GateTypeOK
  /\ ListTypeOK

(* w is in the loop of try_connection for slot s, as its owner.            *)
Owner(w, s) == /\ idx[w] = s
               /\ pc[w] \in {"swap", "cas", "lock", "handle", "unlock"}

(* The connection of s is open, or its owner has not given s up yet.       *)
Live(s) == conn[s] # "none" \/ \E w \in Workers : Owner(w, s) /\ remove[w]

(* A worker has taken s off the list and put nothing into it, or has given *)
(* it up and not pushed it.                                                *)
Holds(w, s) ==
  /\ idx[w] = s
  /\ pc[w] \in {"mark", "fill", "put", "clear", "push", "store", "swing"}

(* A worker died over s.                                                   *)
DiedOver(s) == \E w \in Workers : idx[w] = s /\ At(w, "panicked")

(* Bit 0 of s is on and no worker is left that would turn it off.          *)
Abandoned(s) == Owned \in events[s] /\ \A w \in Workers : ~Owner(w, s)

-----------------------------------------------------------------------------
(* Safety.                                                                 *)

(* The lock excludes, also between insert and a late event.                *)
InGuard(w, s) == idx[w] = s /\ pc[w] \in {"handle", "unlock", "put"}

LockExclusion ==
  \A s \in Slot :
    /\ \A v, w \in Workers : InGuard(v, s) /\ InGuard(w, s) => v = w
    /\ locked[s] <=> \E w \in Workers : InGuard(w, s)

(* Over all lifetimes of a slot, whatever is late: a live connection has   *)
(* at most one owner, and its owner has bit 0 on.                          *)
Sound(s) ==
  /\ \A v, w \in Workers : Owner(v, s) /\ Owner(w, s) => v = w
  /\ \A w \in Workers : Owner(w, s) => Owned \in events[s]
  /\ Owned \notin events[s] => events[s] = {}

SingleOwner == \A s \in Slot : Live(s) => Sound(s)

(* The event protocol and the free list agree on every slot: it is on the  *)
(* list, or has a live connection, or is in the hands of one worker; if it *)
(* is none of these, a worker died over it and it is lost.                 *)
SlotsAccountedFor ==
  \A s \in Slot :
    /\ s \in OnList => ~Live(s)
    /\ \A w \in Workers : Holds(w, s) =>
         /\ s \notin OnList /\ ~Live(s)
         /\ \A v \in Workers : Holds(v, s) => v = w
    /\ s \in OnList \/ Live(s) \/ DiedOver(s) \/ \E w \in Workers : Holds(w, s)

(* The inductive invariant.  One client at a time is waiting or inserted,  *)
(* so what insert has loaded stays true of the list p[0] .. p[n]; a slot   *)
(* that is lost, because a worker died over it, may have two owners, or    *)
(* one without bit 0.                                                      *)
Calm ==
  /\ \A v, w \in Workers : Inserting(v) /\ Inserting(w) => v = w
  /\ backlog > 0 => \A w \in Workers : ~Inserting(w)

Locals(n, p) ==
  \A w \in Workers :
    /\ pc[w] \in {"link", "take"}  => On(n, p, idx[w])
    /\ pc[w] \in {"take", "swing"} => nxt[w] \in Slot /\ state[idx[w]] = nxt[w]
    /\ At(w, "take")  => nxt[w] # InUse
    /\ At(w, "mark")  => state[idx[w]] # InUse
    /\ At(w, "store") => nxt[w] \in Slot

Accounted(n, p, s) ==
  LET held == \E w \in Workers : Holds(w, s) IN
  /\ On(n, p, s) \/ Live(s) \/ held => Sound(s)
  /\ On(n, p, s) \/ Live(s) \/ held \/ DiedOver(s)
  /\ On(n, p, s) => ~Live(s) /\ ~held
  /\ \A w \in Workers :
       /\ Holds(w, s) => ~Live(s) /\ \A v \in Workers : Holds(v, s) => v = w
       /\ Owner(w, s) /\ remove[w] => conn[s] = "none"

(* A worker that brings an event to a slot without a connection, or owns   *)
(* such a slot, or died as its owner, is late.                             *)
LateOnly ==
  /\ \A s \in Slot :
       /\ ready[s] # {} => conn[s] = "registered"
       /\ conn[s] # "none" => state[s] = InUse
       /\ Owned \in events[s] /\ ~Live(s) =>
            \E v \in late : Owner(v, s) \/ (idx[v] = s /\ At(v, "panicked"))
  /\ \A w \in Workers :
       /\ pc[w] \in {"fill", "put"} => state[idx[w]] = InUse
       /\ pc[w] \in {"check", "post"} /\ w \notin late => conn[idx[w]] # "none"
       /\ \A s \in Slot :
            /\ batch[w][s] # {} /\ <<w, s>> \notin stale => conn[s] # "none"
            /\ Owner(w, s) /\ ~Live(s) => w \in late

IInv ==
  /\ TypeOK /\ LockExclusion /\ Calm /\ LateOnly
  /\ \E n \in 0 .. NSlots - 1 : \E p \in [0 .. n -> Slot] :
       IsList(n, p) /\ Locals(n, p) /\ \A s \in Slot : Accounted(n, p, s)

(* No worker dies but in the handler of its connection, at the end of the  *)
(* list, or because of a late event: its own, or one that another worker   *)
(* is handling, or has died handling, for the same slot.                   *)
OnlyLateEventsKill ==
  [][\A w \in Workers :
       ~At(w, "panicked") /\ At(w, "panicked")'
         => \/ HandlePanic(w) \/ LoadLink(w)
            \/ \E v \in late : idx[v] = idx[w]]_vars

-----------------------------------------------------------------------------
(* Liveness.                                                               *)

(* A connection that insert has put into a slot gets to its handler, also  *)
(* when a late event's worker owns the slot, unless the owner died.        *)
NewIsServed ==
  \A s \in Slot :
    conn[s] = "new" ~> (conn[s] # "new" \/ Abandoned(s) \/ DiedOver(s))

(* An event posted for an open connection is passed to its handler, also   *)
(* when the worker that posted it left it to the owner; unless the         *)
(* connection is closed first or its owner died.                           *)
PostedIsHandled ==
  \A s \in Slot, k \in Kinds :
    (k \in events[s] /\ conn[s] # "none")
      ~> \/ \E w \in Workers : InGuard(w, s) /\ k \in bits[w]
         \/ conn[s] = "none" \/ Abandoned(s)

(* The owner that closes a connection gets to push its slot on the free    *)
(* list, whatever the other workers still post to it, unless a worker dies *)
(* over it.                                                                *)
ClosedIsGivenBack ==
  \A s \in Slot, w \in Workers :
    (Owner(w, s) /\ remove[w]) ~> ((idx[w] = s /\ At(w, "push")) \/ DiedOver(s))

(* An owner goes on as long as others post to its slot, and the rest of    *)
(* its batch waits, the events of other connections.  If from some time on *)
(* no socket becomes ready and no client connects, which is bounded where  *)
(* this is checked, every event that was polled reaches try_connection,    *)
(* unless its worker dies, or spins in insert on a head that looks in use. *)
PolledIsDispatched ==
  \A w \in Workers, s \in Slot :
    batch[w][s] # {} ~> \/ batch[w][s] = {} \/ At(w, "panicked")
                        \/ Inserting(w) /\ state[next] = InUse
=============================================================================
