------------------------- MODULE SharedServerProofs -------------------------
(***************************************************************************)
(* IInv is an inductive invariant of SharedServer for any number of        *)
(* workers, slots and event kinds, and what follows from it.               *)
(***************************************************************************)
EXTENDS SharedServer, SlotListProofs

-----------------------------------------------------------------------------
(* Types.                                                                  *)

LEMMA TypeInit == Init => TypeOK /\ LinksAreSlots
<1> SUFFICES ASSUME Init PROVE TypeOK /\ LinksAreSlots
  OBVIOUS
<1> USE SlotsAssumption DEF Init, ListInit, GateInit, InitState, Slot, Link
<1>1. state \in [Slot -> Link]
  OBVIOUS
<1>2. next \in Slot /\ nxt \in [Workers -> Link] /\ idx \in [Workers -> Slot]
  OBVIOUS
<1>3. pc \in [Workers -> GateLabels \cup ListLabels \cup {"fill", "put"}]
  BY DEF GateLabels
<1>4. GateTypeOK
  BY DEF GateTypeOK, ConnState
<1> QED
  BY <1>1, <1>2, <1>3, <1>4 DEF TypeOK, ListTypeOK, LinksAreSlots

LEMMA TypeStep == TypeOK /\ LinksAreSlots /\ [Next]_vars => (TypeOK /\ LinksAreSlots)'
<1> SUFFICES ASSUME TypeOK, LinksAreSlots, [Next]_vars PROVE (TypeOK /\ LinksAreSlots)'
  OBVIOUS
<1> DEFINE Goal == (TypeOK /\ LinksAreSlots)'
<1> USE LinkFacts
    DEF TypeOK, GateTypeOK, ListTypeOK, ListLabels, GateLabels, ConnState, LinksAreSlots,
        gateVars, listVars, loopVars, history, At, Goto, Panic, Drop
<1>1. ASSUME Connect PROVE Goal
  BY <1>1 DEF Connect
<1>2. ASSUME NEW s \in Slot, NEW K \in SUBSET Kinds \ {{}}, Edge(s, K) PROVE Goal
  BY <1>2 DEF Edge, Raise
<1>3. ASSUME NEW w \in Workers, Poll(w) PROVE Goal
  <2>1. CASE PollEvents(w)
    <3>1. batch' \in [Workers -> [Slot -> SUBSET Kinds]] /\ ready' \in [Slot -> SUBSET Kinds]
      BY <2>1 DEF PollEvents
    <3>2. UNCHANGED <<pc, idx, state, events, locked, conn, bits, remove>>
      BY <2>1 DEF PollEvents
    <3>3. listening' \in SUBSET Workers /\ UNCHANGED <<listVars, backlog, accepting, history>>
      BY <1>3 DEF Poll
    <3> QED
      BY <3>1, <3>2, <3>3
  <2>2. CASE ~PollEvents(w)
    BY <1>3, <2>2 DEF Poll
  <2> QED
    BY <2>1, <2>2
<1>4. ASSUME NEW w \in Workers, DispatchListener(w) PROVE Goal
  BY <1>4 DEF DispatchListener
<1>5. ASSUME NEW w \in Workers, NEW s \in Slot, DispatchEvent(w, s) PROVE Goal
  BY <1>5 DEF DispatchEvent, Dispatch
<1>6. ASSUME NEW w \in Workers, Accept(w) \/ AcceptDone(w) PROVE Goal
  <2>1. CASE Accept(w)
    BY <2>1 DEF Accept
  <2>2. CASE AcceptDone(w)
    BY <2>2 DEF AcceptDone
  <2> QED
    BY <1>6, <2>1, <2>2
<1>7. ASSUME NEW w \in Workers, InsertStep(w) PROVE Goal
  <2>1. CASE LoadHead(w)
    BY <1>7, <2>1 DEF InsertStep, LoadHead
  <2>2. CASE LoadLink(w)
    <3>1. state[idx[w]] \in Link
      OBVIOUS
    <3>2. CASE state[idx[w]] = InUse
      BY <1>7, <2>2, <3>2 DEF InsertStep, LoadLink
    <3>3. CASE state[idx[w]] = End
      BY <1>7, <2>2, <3>3 DEF InsertStep, LoadLink
    <3>4. CASE state[idx[w]] \notin {InUse, End}
      BY <1>7, <2>2, <3>1, <3>4 DEF InsertStep, LoadLink
    <3> QED
      BY <3>2, <3>3, <3>4
  <2>3. CASE TakeHead(w) /\ next = idx[w]
    BY <1>7, <2>3 DEF InsertStep, TakeHead
  <2>4. CASE TakeHead(w) /\ next # idx[w]
    BY <1>7, <2>4 DEF InsertStep, TakeHead
  <2>5. CASE MarkInUse(w, "fill")
    BY <1>7, <2>5 DEF InsertStep, MarkInUse
  <2> QED
    BY <1>7, <2>1, <2>2, <2>3, <2>4, <2>5 DEF InsertStep, Pop
<1>8. ASSUME NEW w \in Workers, LockSlot(w) \/ PutConnection(w) PROVE Goal
  <2>1. CASE LockSlot(w)
    BY <2>1 DEF LockSlot
  <2>2. CASE PutConnection(w)
    BY <2>2 DEF PutConnection
  <2> QED
    BY <1>8, <2>1, <2>2
<1>9. ASSUME NEW w \in Workers, EventStep(w) PROVE Goal
  <2>1. stale' \in SUBSET (Workers \X Slot) /\ late' \in SUBSET Workers
    BY <1>9 DEF EventStep, Outdate
  <2>0. UNCHANGED <<listVars, loopVars>>
    BY <1>9 DEF EventStep
  <2> USE <2>0, <2>1
  <2>2. ASSUME AssertInUse(w) PROVE Goal
    BY <2>2 DEF AssertInUse
  <2>3. ASSUME PostEvents(w) PROVE Goal
    BY <2>3 DEF PostEvents
  <2>4. ASSUME TakeEvents(w) PROVE Goal
    BY <2>4 DEF TakeEvents
  <2>5. ASSUME Release(w) PROVE Goal
    BY <2>5 DEF Release
  <2>6. ASSUME LockConn(w) PROVE Goal
    BY <2>6 DEF LockConn
  <2>7. ASSUME HandleNone(w) \/ HandlePanic(w) PROVE Goal
    BY <2>7 DEF HandleNone, HandlePanic
  <2>8. ASSUME Register(w) \/ HandleKeep(w) PROVE Goal
    BY <2>8 DEF Register, HandleKeep
  <2>9. ASSUME HandleRemove(w) PROVE Goal
    BY <2>9 DEF HandleRemove
  <2>10. ASSUME Unlock(w) PROVE Goal
    BY <2>10 DEF Unlock
  <2>11. ASSUME AssertQuiet(w) PROVE Goal
    BY <2>11 DEF AssertQuiet
  <2> QED
    BY <1>9, <2>2, <2>3, <2>4, <2>5, <2>6, <2>7, <2>8, <2>9, <2>10, <2>11
       DEF EventStep, GateStep, Handle
<1>10. ASSUME NEW w \in Workers, PushStep(w) PROVE Goal
  <2>1. stale' \in SUBSET (Workers \X Slot) /\ late' \in SUBSET Workers
    BY <1>10 DEF PushStep
  <2>0. UNCHANGED <<gateVars, loopVars>>
    BY <1>10 DEF PushStep
  <2> USE <2>0, <2>1
  <2>2. CASE ReadHead(w)
    BY <2>2 DEF ReadHead
  <2>3. CASE StoreLink(w)
    BY <2>3 DEF StoreLink
  <2>4. CASE SwingHead(w) /\ next = nxt[w]
    <3>1. /\ pc' = [pc EXCEPT ![w] = "idle"] /\ next' = idx[w]
          /\ nxt' = [nxt EXCEPT ![w] = 0] /\ UNCHANGED <<idx, state>>
      BY <2>4 DEF SwingHead
    <3> QED
      BY <3>1
  <2>5. CASE SwingHead(w) /\ next # nxt[w]
    <3>1. /\ pc' = [pc EXCEPT ![w] = "store"] /\ nxt' = [nxt EXCEPT ![w] = next]
          /\ UNCHANGED <<idx, state, next>>
      BY <2>5 DEF SwingHead
    <3> QED
      BY <3>1
  <2> QED
    BY <1>10, <2>2, <2>3, <2>4, <2>5 DEF PushStep, Push
<1>11. CASE UNCHANGED vars
  BY <1>11 DEF vars
<1> QED
  BY <1>1, <1>2, <1>3, <1>4, <1>5, <1>6, <1>7, <1>8, <1>9, <1>10, <1>11 DEF Next, Work

(* Every local, link and word of the server stays in its range: no slot is *)
(* indexed out of the table, by a token, a link or the head of the list.   *)
THEOREM TypeCorrect == Spec => []TypeOK
<1>1. TypeOK /\ LinksAreSlots => TypeOK
  OBVIOUS
<1> QED
  BY TypeInit, TypeStep, PTL DEF Spec

-----------------------------------------------------------------------------
(* What a step of w leaves alone: the other workers and the other slots.   *)

LEMMA GateFrame ==
  ASSUME TypeOK, NEW w \in Workers, GateStep(w)
  PROVE  /\ UNCHANGED <<idx, state, batch>>
         /\ pc[w] \in {"check", "post", "swap", "cas", "lock", "handle", "unlock", "clear"}
         /\ pc'[w] \in {"idle", "post", "swap", "cas", "lock", "handle", "unlock", "clear",
                        "push", "panicked"}
         /\ pc'[w] = "push" => pc[w] = "clear"
         /\ \A v \in Workers \ {w} : pc'[v] = pc[v] /\ remove'[v] = remove[v]
         /\ \A r \in Slot \ {idx[w]} : /\ conn'[r] = conn[r] /\ events'[r] = events[r]
                                       /\ locked'[r] = locked[r] /\ ready'[r] = ready[r]
<1> DEFINE Goal ==
      /\ UNCHANGED <<idx, state, batch>>
      /\ pc[w] \in {"check", "post", "swap", "cas", "lock", "handle", "unlock", "clear"}
      /\ pc'[w] \in {"idle", "post", "swap", "cas", "lock", "handle", "unlock", "clear",
                     "push", "panicked"}
      /\ pc'[w] = "push" => pc[w] = "clear"
      /\ \A v \in Workers \ {w} : pc'[v] = pc[v] /\ remove'[v] = remove[v]
      /\ \A r \in Slot \ {idx[w]} : /\ conn'[r] = conn[r] /\ events'[r] = events[r]
                                    /\ locked'[r] = locked[r] /\ ready'[r] = ready[r]
<1> SUFFICES Goal
  OBVIOUS
<1> USE DEF TypeOK, GateTypeOK, At, Goto, Panic
<1>1. ASSUME AssertInUse(w) PROVE Goal
  BY <1>1 DEF AssertInUse, gateVars
<1>2. ASSUME PostEvents(w) PROVE Goal
  BY <1>2 DEF PostEvents
<1>3. ASSUME TakeEvents(w) PROVE Goal
  BY <1>3 DEF TakeEvents
<1>4. ASSUME Release(w) PROVE Goal
  BY <1>4 DEF Release
<1>5. ASSUME LockConn(w) PROVE Goal
  BY <1>5 DEF LockConn
<1>6. ASSUME HandleNone(w) PROVE Goal
  BY <1>6 DEF HandleNone
<1>7. ASSUME Register(w) PROVE Goal
  BY <1>7 DEF Register
<1>8. ASSUME HandleKeep(w) PROVE Goal
  BY <1>8 DEF HandleKeep
<1>9. ASSUME HandleRemove(w) PROVE Goal
  BY <1>9 DEF HandleRemove
<1>10. ASSUME HandlePanic(w) PROVE Goal
  BY <1>10 DEF HandlePanic
<1>11. ASSUME Unlock(w) PROVE Goal
  BY <1>11 DEF Unlock
<1>12. ASSUME AssertQuiet(w) PROVE Goal
  BY <1>12 DEF AssertQuiet
<1> QED
  BY <1>1, <1>2, <1>3, <1>4, <1>5, <1>6, <1>7, <1>8, <1>9, <1>10, <1>11, <1>12
     DEF GateStep, Handle

LEMMA ListFrame ==
  ASSUME TypeOK, NEW w \in Workers, Pop(w) \/ MarkInUse(w, "fill") \/ Push(w)
  PROVE  /\ pc[w] \in ListLabels /\ pc'[w] \in ListLabels \cup {"idle", "fill", "panicked"}
         /\ \/ /\ pc[w] \in {"insert", "link", "take", "mark"}
               /\ pc'[w] \in {"insert", "link", "take", "mark", "fill", "panicked"}
            \/ /\ pc[w] \in {"push", "store", "swing"}
               /\ pc'[w] \in {"store", "swing", "idle"} /\ UNCHANGED idx
         /\ \A v \in Workers \ {w} : pc'[v] = pc[v] /\ idx'[v] = idx[v] /\ nxt'[v] = nxt[v]
<1> DEFINE Goal ==
      /\ pc[w] \in ListLabels /\ pc'[w] \in ListLabels \cup {"idle", "fill", "panicked"}
      /\ \/ /\ pc[w] \in {"insert", "link", "take", "mark"}
            /\ pc'[w] \in {"insert", "link", "take", "mark", "fill", "panicked"}
         \/ /\ pc[w] \in {"push", "store", "swing"}
            /\ pc'[w] \in {"store", "swing", "idle"} /\ UNCHANGED idx
      /\ \A v \in Workers \ {w} : pc'[v] = pc[v] /\ idx'[v] = idx[v] /\ nxt'[v] = nxt[v]
<1> SUFFICES Goal
  OBVIOUS
<1> USE DEF TypeOK, ListTypeOK, ListLabels, At, Goto, Panic, Drop
<1>1. ASSUME LoadHead(w) PROVE Goal
  BY <1>1 DEF LoadHead
<1>2. ASSUME LoadLink(w) PROVE Goal
  <2>1. InUse # End
    BY LinkFacts
  <2>2. CASE state[idx[w]] = InUse
    BY <1>2, <2>1, <2>2 DEF LoadLink
  <2>3. CASE state[idx[w]] = End
    BY <1>2, <2>1, <2>3 DEF LoadLink
  <2>4. CASE state[idx[w]] \notin {InUse, End}
    BY <1>2, <2>4 DEF LoadLink
  <2> QED
    BY <2>2, <2>3, <2>4
<1>3. ASSUME TakeHead(w) PROVE Goal
  BY <1>3 DEF TakeHead
<1>4. ASSUME MarkInUse(w, "fill") PROVE Goal
  BY <1>4 DEF MarkInUse
<1>5. ASSUME ReadHead(w) PROVE Goal
  BY <1>5 DEF ReadHead
<1>6. ASSUME StoreLink(w) PROVE Goal
  BY <1>6 DEF StoreLink
<1>7. ASSUME SwingHead(w) PROVE Goal
  BY <1>7 DEF SwingHead
<1> QED
  BY <1>1, <1>2, <1>3, <1>4, <1>5, <1>6, <1>7 DEF Pop, Push

-----------------------------------------------------------------------------
(* The lock.                                                               *)

(* A step of one worker that stays out of the guarded region, or stays in  *)
(* it, leaves the exclusion of the lock alone.                             *)
LEMMA GuardFrame ==
  ASSUME TypeOK, LockExclusion, UNCHANGED locked, NEW w \in Workers,
         \A v \in Workers : v # w => pc'[v] = pc[v] /\ idx'[v] = idx[v],
         \/ pc[w] \notin {"handle", "unlock", "put"} /\ pc'[w] \notin {"handle", "unlock", "put"}
         \/ /\ pc[w] \in {"handle", "unlock", "put"} /\ pc'[w] \in {"handle", "unlock", "put"}
            /\ idx'[w] = idx[w]
  PROVE  LockExclusion'
<1>1. \A v \in Workers, s \in Slot : InGuard(v, s)' <=> InGuard(v, s)
  BY DEF InGuard
<1> QED
  BY <1>1 DEF LockExclusion

(* The two ways into the region and the ways out of it.                    *)
LEMMA GuardEnter ==
  ASSUME TypeOK, LockExclusion, NEW w \in Workers, NEW to \in {"handle", "put"},
         pc[w] \notin {"handle", "unlock", "put"}, ~locked[idx[w]],
         locked' = [locked EXCEPT ![idx[w]] = TRUE], pc' = [pc EXCEPT ![w] = to], UNCHANGED idx
  PROVE  LockExclusion'
<1>1. PICK s \in Slot : s = idx[w]
  BY DEF TypeOK
<1>2. \A v \in Workers, r \in Slot : InGuard(v, r)' <=> InGuard(v, r) \/ (v = w /\ r = s)
  BY <1>1 DEF InGuard, TypeOK
<1>3. \A v \in Workers : ~InGuard(v, s)
  BY <1>1 DEF LockExclusion
<1> QED
  BY <1>1, <1>2, <1>3 DEF LockExclusion, TypeOK, GateTypeOK

LEMMA GuardLeave ==
  ASSUME TypeOK, LockExclusion, NEW w \in Workers, NEW to,
         to \notin {"handle", "unlock", "put"}, InGuard(w, idx[w]),
         locked' = [locked EXCEPT ![idx[w]] = FALSE], pc' = [pc EXCEPT ![w] = to], UNCHANGED idx
  PROVE  LockExclusion'
<1>1. PICK s \in Slot : s = idx[w]
  BY DEF TypeOK
<1>2. \A v \in Workers, r \in Slot : InGuard(v, r)' <=> InGuard(v, r) /\ v # w
  BY <1>1 DEF InGuard, TypeOK
<1> QED
  BY <1>1, <1>2 DEF LockExclusion, TypeOK, GateTypeOK, InGuard

LEMMA LockStep == TypeOK /\ LockExclusion /\ [Next]_vars => LockExclusion'
<1> SUFFICES ASSUME TypeOK, LockExclusion, [Next]_vars PROVE LockExclusion'
  OBVIOUS
<1> USE DEF TypeOK, At, Goto, Panic
<1>1. ASSUME Connect PROVE LockExclusion'
  BY <1>1 DEF Connect, gateVars, LockExclusion, InGuard
<1>2. ASSUME NEW s \in Slot, NEW K \in SUBSET Kinds \ {{}}, Edge(s, K) PROVE LockExclusion'
  BY <1>2 DEF Edge, Raise, LockExclusion, InGuard
<1>3. ASSUME NEW w \in Workers, Poll(w) PROVE LockExclusion'
  BY <1>3 DEF Poll, PollEvents, gateVars, LockExclusion, InGuard
<1>4. ASSUME NEW w \in Workers, DispatchListener(w) PROVE LockExclusion'
  BY <1>4 DEF DispatchListener, gateVars, LockExclusion, InGuard
<1>5. ASSUME NEW w \in Workers, NEW s \in Slot, DispatchEvent(w, s) PROVE LockExclusion'
  BY <1>5, GuardFrame DEF DispatchEvent, Dispatch
<1>6. ASSUME NEW w \in Workers, Accept(w) PROVE LockExclusion'
  BY <1>6, GuardFrame DEF Accept, gateVars
<1>7. ASSUME NEW w \in Workers, AcceptDone(w) PROVE LockExclusion'
  BY <1>7 DEF AcceptDone, gateVars, LockExclusion, InGuard
<1>8. ASSUME NEW w \in Workers, InsertStep(w) \/ PushStep(w) PROVE LockExclusion'
  <2>1. Pop(w) \/ MarkInUse(w, "fill") \/ Push(w)
    BY <1>8 DEF InsertStep, PushStep
  <2>2. UNCHANGED locked
    BY <1>8 DEF InsertStep, PushStep, gateVars
  <2> QED
    BY <2>1, <2>2, ListFrame, GuardFrame DEF ListLabels
<1>9. ASSUME NEW w \in Workers, LockSlot(w) PROVE LockExclusion'
  <2>1. CASE locked[idx[w]]
    BY <1>9, <2>1, GuardFrame DEF LockSlot, GateTypeOK
  <2>2. CASE ~locked[idx[w]]
    BY <1>9, <2>2, GuardEnter DEF LockSlot
  <2> QED
    BY <2>1, <2>2
<1>10. ASSUME NEW w \in Workers, PutConnection(w) PROVE LockExclusion'
  BY <1>10, GuardLeave DEF PutConnection, InGuard
<1>11. ASSUME NEW w \in Workers, GateStep(w) PROVE LockExclusion'
  <2>1. ASSUME AssertInUse(w) PROVE LockExclusion'
    BY <2>1, GuardFrame DEF AssertInUse, gateVars
  <2>2. ASSUME PostEvents(w) PROVE LockExclusion'
    BY <2>2, GuardFrame DEF PostEvents
  <2>3. ASSUME TakeEvents(w) PROVE LockExclusion'
    BY <2>3, GuardFrame DEF TakeEvents
  <2>4. ASSUME Release(w) PROVE LockExclusion'
    BY <2>4, GuardFrame DEF Release
  <2>5. ASSUME LockConn(w), locked[idx[w]] PROVE LockExclusion'
    BY <2>5, GuardFrame DEF LockConn, GateTypeOK
  <2>6. ASSUME LockConn(w), ~locked[idx[w]] PROVE LockExclusion'
    BY <2>6, GuardEnter DEF LockConn
  <2>7. ASSUME Register(w) \/ HandleKeep(w) \/ HandleRemove(w) PROVE LockExclusion'
    BY <2>7, GuardFrame DEF Register, HandleKeep, HandleRemove
  <2>8. ASSUME HandleNone(w) \/ HandlePanic(w) \/ Unlock(w) PROVE LockExclusion'
    BY <2>8, GuardLeave DEF HandleNone, HandlePanic, Unlock, InGuard
  <2>9. ASSUME AssertQuiet(w) PROVE LockExclusion'
    BY <2>9, GuardFrame DEF AssertQuiet
  <2> QED
    BY <1>11, <2>1, <2>2, <2>3, <2>4, <2>5, <2>6, <2>7, <2>8, <2>9 DEF GateStep, Handle
<1>12. CASE UNCHANGED vars
  BY <1>12 DEF vars, gateVars, LockExclusion, InGuard
<1> QED
  BY <1>1, <1>2, <1>3, <1>4, <1>5, <1>6, <1>7, <1>8, <1>9, <1>10, <1>11, <1>12
     DEF Next, Work, EventStep

-----------------------------------------------------------------------------
(* One client at a time.                                                   *)

LEMMA CalmStep == TypeOK /\ Calm /\ [Next]_vars => Calm'
<1> SUFFICES ASSUME TypeOK, Calm, [Next]_vars PROVE Calm'
  OBVIOUS
<1>1. ASSUME UNCHANGED backlog, NEW w \in Workers, Inserting(w)' => Inserting(w),
             \A v \in Workers \ {w} : pc'[v] = pc[v]
      PROVE  Calm'
  <2>1. \A v \in Workers : Inserting(v)' => Inserting(v)
    BY <1>1 DEF Inserting
  <2> QED
    BY <1>1, <2>1 DEF Calm
<1>2. ASSUME UNCHANGED <<pc, backlog>> PROVE Calm'
  BY <1>2 DEF Calm, Inserting
<1> USE DEF At, Goto, Panic
<1>3. ASSUME Connect PROVE Calm'
  BY <1>3 DEF Connect, Calm, Inserting
<1>4. ASSUME NEW s \in Slot, NEW K \in SUBSET Kinds \ {{}}, Edge(s, K) PROVE Calm'
  BY <1>2, <1>4 DEF Edge, Raise, loopVars
<1>5. ASSUME NEW w \in Workers, Poll(w) \/ DispatchListener(w) \/ AcceptDone(w) PROVE Calm'
  BY <1>2, <1>5 DEF Poll, PollEvents, DispatchListener, AcceptDone
<1>6. ASSUME NEW w \in Workers, NEW s \in Slot, DispatchEvent(w, s) PROVE Calm'
  BY <1>1, <1>6 DEF DispatchEvent, Dispatch, loopVars, TypeOK, Inserting
<1>7. ASSUME NEW w \in Workers, Accept(w) PROVE Calm'
  <2>1. \A v \in Workers : Inserting(v)' => v = w
    BY <1>7 DEF Accept, Calm, Inserting, TypeOK
  <2>2. backlog' = 0
    BY <1>7 DEF Accept, TypeOK
  <2> QED
    BY <2>1, <2>2 DEF Calm
<1>8. ASSUME NEW w \in Workers, InsertStep(w) \/ PushStep(w) PROVE Calm'
  <2>1. (Pop(w) \/ MarkInUse(w, "fill") \/ Push(w)) /\ UNCHANGED backlog
    BY <1>8 DEF InsertStep, PushStep, loopVars
  <2> QED
    BY <1>1, <2>1, ListFrame DEF Inserting
<1>9. ASSUME NEW w \in Workers, LockSlot(w) \/ PutConnection(w) PROVE Calm'
  BY <1>1, <1>9 DEF LockSlot, PutConnection, loopVars, TypeOK, Inserting
<1>10. ASSUME NEW w \in Workers, EventStep(w) PROVE Calm'
  <2>1. GateStep(w) /\ UNCHANGED backlog
    BY <1>10 DEF EventStep, loopVars
  <2> QED
    BY <1>1, <2>1, GateFrame DEF Inserting
<1>11. CASE UNCHANGED vars
  BY <1>2, <1>11 DEF vars, loopVars
<1> QED
  BY <1>3, <1>4, <1>5, <1>6, <1>7, <1>8, <1>9, <1>10, <1>11 DEF Next, Work

-----------------------------------------------------------------------------
(* Every slot is accounted for: the steps that leave the list alone.       *)

(* A step that changes no worker's relation to the slot.                   *)
LEMMA SameRelations ==
  ASSUME NEW n, NEW p, NEW s \in Slot, Accounted(n, p, s),
         NEW m, NEW q, On(m, q, s) <=> On(n, p, s),
         \A v \in Workers : /\ Owner(v, s)' <=> Owner(v, s)
                            /\ Holds(v, s)' <=> Holds(v, s)
                            /\ Owner(v, s) => remove'[v] = remove[v],
         (conn[s] = "none")' <=> conn[s] = "none",
         events'[s] = events[s] \/ ((\E v \in Workers : Owner(v, s)) /\ Owned \in events'[s]),
         DiedOver(s) => DiedOver(s)'
  PROVE  Accounted(m, q, s)'
<1>1. Live(s)' <=> Live(s)
  BY DEF Live
<1>2. Sound(s) => Sound(s)'
  BY DEF Sound
<1>3. On(m, q, s)' <=> On(n, p, s)
  BY DEF On
<1> QED
  BY <1>1, <1>2, <1>3 DEF Accounted

(* A step of w that neither owns nor holds the slot, before or after.      *)
LEMMA Bystander ==
  ASSUME NEW n, NEW p, NEW s \in Slot, Accounted(n, p, s),
         NEW m, NEW q, On(m, q, s) <=> On(n, p, s), NEW w \in Workers,
         \A v \in Workers \ {w} : UNCHANGED <<pc[v], idx[v], remove[v]>>,
         conn'[s] = conn[s], events'[s] = events[s], pc[w] # "panicked",
         ~Owner(w, s), ~Owner(w, s)', ~Holds(w, s), ~Holds(w, s)'
  PROVE  Accounted(m, q, s)'
<1>1. \A v \in Workers : /\ Owner(v, s)' <=> Owner(v, s)
                         /\ Holds(v, s)' <=> Holds(v, s)
                         /\ Owner(v, s) => remove'[v] = remove[v]
  BY DEF Owner, Holds
<1>2. DiedOver(s) => DiedOver(s)'
  BY DEF DiedOver, At
<1> QED
  BY <1>1, <1>2, SameRelations

(* An owner that goes on, and keeps bit 0 and its connection.              *)
LEMMA OwnerGoesOn ==
  ASSUME NEW n, NEW p, NEW s \in Slot, Accounted(n, p, s), NEW w \in Workers,
         UNCHANGED <<idx, remove>>, \A v \in Workers \ {w} : pc'[v] = pc[v],
         (conn[s] = "none")' <=> conn[s] = "none", Owner(w, s), Owner(w, s)',
         events'[s] = events[s] \/ Owned \in events'[s]
  PROVE  Accounted(n, p, s)'
<1>1. \A v \in Workers : (Owner(v, s)' <=> Owner(v, s)) /\ (Holds(v, s)' <=> Holds(v, s))
  BY DEF Owner, Holds
<1>2. DiedOver(s) => DiedOver(s)'
  BY DEF DiedOver, At, Owner
<1> QED
  BY <1>1, <1>2, SameRelations

(* An owner that dies.                                                     *)
LEMMA OwnerDies ==
  ASSUME TypeOK, NEW n, NEW p, NEW s \in Slot, Accounted(n, p, s), NEW w \in Workers,
         UNCHANGED <<idx, remove, conn>>, pc' = [pc EXCEPT ![w] = "panicked"], Owner(w, s),
         events'[s] = events[s] \/ ~Sound(s)
  PROVE  Accounted(n, p, s)'
<1>1. \A v \in Workers : (Owner(v, s)' <=> Owner(v, s) /\ v # w) /\ (Holds(v, s)' <=> Holds(v, s))
  BY DEF Owner, Holds, TypeOK
<1>2. DiedOver(s)'
  BY DEF DiedOver, At, Owner, TypeOK
<1>3. Live(s)' => Live(s)
  BY <1>1 DEF Live
<1>4. Sound(s) => Sound(s)'
  BY <1>1 DEF Sound
<1>5. On(n, p, s)' <=> On(n, p, s)
  BY DEF On
<1> QED
  BY <1>1, <1>2, <1>3, <1>4, <1>5 DEF Accounted

LEMMA PostAccounted ==
  ASSUME TypeOK, NEW n, NEW p, NEW w \in Workers, NEW s \in Slot, s = idx[w],
         Accounted(n, p, s), PostEvents(w)
  PROVE  Accounted(n, p, s)'
<1> USE DEF TypeOK, GateTypeOK
<1>1. /\ \A v \in Workers : Holds(v, s)' <=> Holds(v, s)
      /\ \A v \in Workers : Owner(v, s)' <=> Owner(v, s) \/ (v = w /\ Owned \notin events[s])
      /\ \A v \in Workers : Owner(v, s)' => (remove'[v] <=> remove[v] /\ v # w)
      /\ ~Owner(w, s) /\ ~Holds(w, s)
  BY DEF PostEvents, Owner, Holds, At, Goto
<1>2. conn' = conn /\ Owned \in events'[s] /\ events[s] \subseteq events'[s]
  BY DEF PostEvents
<1>3. DiedOver(s) => DiedOver(s)'
  BY DEF DiedOver, PostEvents, At, Goto
<1>4. Live(s)' <=> Live(s)
  BY <1>1, <1>2 DEF Live
<1>5. Sound(s) => Sound(s)'
  BY <1>1, <1>2 DEF Sound
<1>6. On(n, p, s)' <=> On(n, p, s)
  BY DEF On
<1> QED
  BY <1>1, <1>2, <1>3, <1>4, <1>5, <1>6 DEF Accounted

LEMMA TakeAccounted ==
  ASSUME TypeOK, NEW n, NEW p, NEW w \in Workers, NEW s \in Slot, s = idx[w],
         Accounted(n, p, s), TakeEvents(w)
  PROVE  Accounted(n, p, s)'
<1> USE DEF TypeOK, GateTypeOK, At, Goto, Panic
<1>1. Owner(w, s) /\ UNCHANGED <<idx, remove, conn>> /\ Owned \in events'[s]
  BY DEF TakeEvents, Owner
<1>2. CASE Owned \in events[s]
  BY <1>1, <1>2, OwnerGoesOn DEF TakeEvents, Owner
<1>3. CASE Owned \notin events[s]
  <2>1. ~Sound(s)
    BY <1>1, <1>3 DEF Sound
  <2> QED
    BY <1>1, <1>3, <2>1, OwnerDies DEF TakeEvents
<1> QED
  BY <1>2, <1>3

LEMMA ReleaseAccounted ==
  ASSUME TypeOK, NEW n, NEW p, NEW w \in Workers, NEW s \in Slot, s = idx[w],
         Accounted(n, p, s), Release(w)
  PROVE  Accounted(n, p, s)'
<1> USE DEF TypeOK, GateTypeOK, At, Goto
<1>1. Owner(w, s) /\ UNCHANGED <<idx, conn>> /\ pc[w] = "cas"
  BY DEF Release, Owner
<1>2. CASE events[s] # {Owned}
  BY <1>1, <1>2, OwnerGoesOn DEF Release, Owner
<1>3. CASE events[s] = {Owned} /\ ~remove[w]
  <2>1. \A v \in Workers : /\ Owner(v, s)' <=> Owner(v, s) /\ v # w
                           /\ Holds(v, s)' <=> Holds(v, s)
                           /\ remove'[v] = remove[v]
    BY <1>3 DEF Release, Owner, Holds
  <2>2. events'[s] = {}
    BY <1>3 DEF Release
  <2>3. Live(s)' <=> Live(s)
    BY <1>1, <1>3, <2>1 DEF Live
  <2>4. DiedOver(s) => DiedOver(s)'
    BY <1>1, <1>3 DEF DiedOver, Release
  <2>5. Sound(s) => Sound(s)'
    BY <1>1, <2>1, <2>2 DEF Sound
  <2> QED
    BY <1>1, <2>1, <2>3, <2>4, <2>5 DEF Accounted, On
<1>4. CASE events[s] = {Owned} /\ remove[w]
  <2>1. \A v \in Workers : /\ Owner(v, s)' <=> Owner(v, s) /\ v # w
                           /\ Holds(v, s)' <=> Holds(v, s) \/ v = w
    BY <1>4 DEF Release, Owner, Holds
  <2>2. events'[s] = {}
    BY <1>4 DEF Release
  <2>3. Live(s) /\ conn[s] = "none" /\ Sound(s) /\ ~On(n, p, s) /\ \A v \in Workers : ~Holds(v, s)
    BY <1>1, <1>4 DEF Live, Accounted
  <2>4. \A v \in Workers : ~Owner(v, s)'
    BY <1>1, <2>1, <2>3 DEF Sound
  <2>5. ~Live(s)' /\ Sound(s)'
    BY <1>1, <2>2, <2>3, <2>4 DEF Live, Sound
  <2> QED
    BY <2>1, <2>3, <2>4, <2>5 DEF Accounted, On
<1> QED
  BY <1>2, <1>3, <1>4

LEMMA RemoveAccounted ==
  ASSUME TypeOK, NEW n, NEW p, NEW w \in Workers, NEW s \in Slot, s = idx[w],
         Accounted(n, p, s), HandleRemove(w)
  PROVE  Accounted(n, p, s)'
<1> USE DEF TypeOK, GateTypeOK, At, Goto
<1>1. \A v \in Workers : /\ Owner(v, s)' <=> Owner(v, s)
                         /\ Holds(v, s)' <=> Holds(v, s)
                         /\ v # w => remove'[v] = remove[v]
  BY DEF HandleRemove, Owner, Holds
<1>2. /\ Owner(w, s) /\ remove'[w] /\ conn'[s] = "none" /\ events' = events
      /\ remove[w] \/ conn[s] = "registered"
  BY DEF HandleRemove, Owner
<1>3. Live(s) /\ Live(s)'
  BY <1>1, <1>2 DEF Live
<1>4. Sound(s) => Sound(s)'
  BY <1>1, <1>2 DEF Sound
<1> QED
  BY <1>1, <1>2, <1>3, <1>4 DEF Accounted, On

LEMMA QuietAccounted ==
  ASSUME TypeOK, NEW n, NEW p, NEW w \in Workers, NEW s \in Slot, s = idx[w],
         Accounted(n, p, s), AssertQuiet(w)
  PROVE  Accounted(n, p, s)'
<1> USE DEF TypeOK, GateTypeOK, At, Goto, Panic
<1>1. Holds(w, s) /\ ~Owner(w, s) /\ UNCHANGED <<idx, conn, remove>> /\ events'[s] = {}
  BY DEF AssertQuiet, Holds, Owner
<1>2. \A v \in Workers : Owner(v, s)' <=> Owner(v, s)
  BY DEF AssertQuiet, Owner
<1>3. Live(s)' <=> Live(s)
  BY <1>1, <1>2 DEF Live
<1>4. CASE events[s] = {}
  <2>1. \A v \in Workers : Holds(v, s)' <=> Holds(v, s)
    BY <1>4 DEF AssertQuiet, Holds
  <2>2. Sound(s) => Sound(s)'
    BY <1>1, <1>2, <1>4 DEF Sound
  <2> QED
    BY <1>1, <1>2, <1>3, <2>1, <2>2 DEF Accounted, On
<1>5. CASE events[s] # {}
  <2>1. \A v \in Workers : Holds(v, s)' <=> Holds(v, s) /\ v # w
    BY <1>5 DEF AssertQuiet, Holds
  <2>2. DiedOver(s)'
    BY <1>5 DEF AssertQuiet, DiedOver
  <2>3. ~On(n, p, s) /\ ~Live(s) /\ \A v \in Workers : ~Holds(v, s)'
    BY <1>1, <2>1 DEF Accounted
  <2> QED
    BY <1>1, <1>2, <1>3, <2>2, <2>3 DEF Accounted, On
<1> QED
  BY <1>4, <1>5

LEMMA LockSlotAccounted ==
  ASSUME TypeOK, NEW n, NEW p, NEW w \in Workers, NEW s \in Slot, s = idx[w],
         Accounted(n, p, s), LockSlot(w)
  PROVE  Accounted(n, p, s)'
<1> USE DEF TypeOK, GateTypeOK, At, Goto, Panic
<1>1. Holds(w, s) /\ ~Owner(w, s) /\ UNCHANGED <<idx, conn, remove, events>>
  BY DEF LockSlot, Holds, Owner
<1>2. \A v \in Workers : Owner(v, s)' <=> Owner(v, s)
  BY DEF LockSlot, Owner
<1>3. (Live(s)' <=> Live(s)) /\ (Sound(s) => Sound(s)')
  BY <1>1, <1>2 DEF Live, Sound
<1>4. CASE ~locked[s]
  <2>1. \A v \in Workers : Holds(v, s)' <=> Holds(v, s)
    BY <1>4 DEF LockSlot, Holds
  <2> QED
    BY <1>1, <1>2, <1>3, <2>1 DEF Accounted, On
<1>5. CASE locked[s]
  <2>1. \A v \in Workers : Holds(v, s)' <=> Holds(v, s) /\ v # w
    BY <1>5 DEF LockSlot, Holds
  <2>2. DiedOver(s)'
    BY <1>5 DEF LockSlot, DiedOver
  <2>3. ~On(n, p, s) /\ ~Live(s) /\ \A v \in Workers : ~Holds(v, s)'
    BY <1>1, <2>1 DEF Accounted
  <2> QED
    BY <1>1, <1>2, <1>3, <2>2, <2>3 DEF Accounted, On
<1> QED
  BY <1>4, <1>5

LEMMA PutAccounted ==
  ASSUME TypeOK, NEW n, NEW p, NEW w \in Workers, NEW s \in Slot, s = idx[w],
         Accounted(n, p, s), PutConnection(w)
  PROVE  Accounted(n, p, s)'
<1> USE DEF TypeOK, GateTypeOK, At, Goto
<1>1. Holds(w, s) /\ UNCHANGED <<idx, remove, events>> /\ conn'[s] = "new"
  BY DEF PutConnection, Holds
<1>2. \A v \in Workers : /\ Owner(v, s)' <=> Owner(v, s)
                         /\ Holds(v, s)' <=> Holds(v, s) /\ v # w
  BY DEF PutConnection, Owner, Holds
<1>3. ~Live(s) /\ ~On(n, p, s) /\ Sound(s) /\ \A v \in Workers : ~Holds(v, s)'
  BY <1>1, <1>2 DEF Accounted
<1>4. \A v \in Workers : Owner(v, s)' => ~remove'[v]
  BY <1>1, <1>2, <1>3 DEF Live
<1>5. Live(s)' /\ Sound(s)'
  BY <1>1, <1>2, <1>3 DEF Live, Sound
<1> QED
  BY <1>3, <1>4, <1>5 DEF Accounted, On

LEMMA GateAccounted ==
  ASSUME TypeOK, NEW n, NEW p, NEW s \in Slot, Accounted(n, p, s),
         NEW w \in Workers, GateStep(w)
  PROVE  Accounted(n, p, s)'
<1> USE DEF TypeOK, GateTypeOK, At, Goto, Panic
<1>1. CASE s # idx[w]
  <2>1. /\ \A v \in Workers \ {w} : UNCHANGED <<pc[v], idx[v], remove[v]>>
        /\ conn'[s] = conn[s] /\ events'[s] = events[s] /\ idx' = idx /\ pc[w] # "panicked"
    <3>1. s \in Slot \ {idx[w]}
      BY <1>1
    <3>2. /\ UNCHANGED idx /\ pc[w] # "panicked"
          /\ \A v \in Workers \ {w} : pc'[v] = pc[v] /\ remove'[v] = remove[v]
          /\ \A r \in Slot \ {idx[w]} : conn'[r] = conn[r] /\ events'[r] = events[r]
      BY GateFrame
    <3> QED
      BY <3>1, <3>2
  <2>2. ~Owner(w, s) /\ ~Owner(w, s)' /\ ~Holds(w, s) /\ ~Holds(w, s)'
    BY <1>1, <2>1 DEF Owner, Holds
  <2> QED
    BY <2>1, <2>2, Bystander
<1>2. CASE s = idx[w]
  <2>1. ASSUME AssertInUse(w) PROVE Accounted(n, p, s)'
    BY <1>2, <2>1, Bystander DEF AssertInUse, gateVars, Owner, Holds
  <2>2. ASSUME LockConn(w), ~locked[s] PROVE Accounted(n, p, s)'
    BY <1>2, <2>2, OwnerGoesOn DEF LockConn, Owner
  <2>3. ASSUME LockConn(w), locked[s] PROVE Accounted(n, p, s)'
    BY <1>2, <2>3, OwnerDies DEF LockConn, Owner
  <2>4. ASSUME HandleNone(w) \/ HandlePanic(w) PROVE Accounted(n, p, s)'
    BY <1>2, <2>4, OwnerDies DEF HandleNone, HandlePanic, Owner
  <2>5. ASSUME Register(w) PROVE Accounted(n, p, s)'
    BY <1>2, <2>5, OwnerGoesOn DEF Register, Owner
  <2>6. ASSUME HandleKeep(w) \/ Unlock(w) PROVE Accounted(n, p, s)'
    BY <1>2, <2>6, OwnerGoesOn DEF HandleKeep, Unlock, Owner
  <2> QED
    BY <1>2, <2>1, <2>2, <2>3, <2>4, <2>5, <2>6, PostAccounted, TakeAccounted,
       ReleaseAccounted, RemoveAccounted, QuietAccounted DEF GateStep, Handle
<1> QED
  BY <1>1, <1>2

(* The list is where it was, and so is what the workers in insert and      *)
(* remove rely on.                                                         *)
LEMMA ListStays ==
  ASSUME NEW n, NEW p, IsList(n, p), Locals(n, p), UNCHANGED <<state, next, nxt>>,
         \A v \in Workers : pc'[v] \in {"link", "take", "mark", "store", "swing"}
            => UNCHANGED <<pc[v], idx[v]>>
  PROVE  IsList(n, p)' /\ Locals(n, p)'
<1>1. IsList(n, p)'
  BY DEF IsList
<1>2. Locals(n, p)'
  BY DEF Locals, On, At
<1> QED
  BY <1>1, <1>2

-----------------------------------------------------------------------------
(* Every slot is accounted for: the steps that read or change the list.    *)

(* The invariant with its list made visible.                               *)
Good(n, p) ==
  /\ TypeOK /\ LinksAreSlots /\ LockExclusion /\ Calm /\ LateOnly
  /\ n \in Nat /\ p \in [0 .. n -> Slot]
  /\ IsList(n, p) /\ Locals(n, p) /\ \A s \in Slot : Accounted(n, p, s)

(* What a step of insert or remove leaves alone of a slot.                 *)
LEMMA ListBystander ==
  ASSUME NEW n, NEW p, NEW s \in Slot, Accounted(n, p, s), NEW m, NEW q,
         On(m, q, s) <=> On(n, p, s), UNCHANGED gateVars, NEW w \in Workers,
         \A v \in Workers \ {w} : pc'[v] = pc[v] /\ idx'[v] = idx[v],
         pc[w] \in ListLabels, ~Owner(w, s)', Holds(w, s)' <=> Holds(w, s)
  PROVE  Accounted(m, q, s)'
<1>1. \A v \in Workers : /\ Owner(v, s)' <=> Owner(v, s)
                         /\ Holds(v, s)' <=> Holds(v, s)
                         /\ Owner(v, s) => remove'[v] = remove[v]
  BY DEF Owner, Holds, ListLabels, gateVars
<1>2. DiedOver(s) => DiedOver(s)'
  BY DEF DiedOver, At, ListLabels
<1>3. conn'[s] = conn[s] /\ events'[s] = events[s]
  BY DEF gateVars
<1> QED
  BY <1>1, <1>2, <1>3, SameRelations

(* A step that reads the list.                                             *)
LEMMA ReadStep ==
  ASSUME NEW n, NEW p, Good(n, p), UNCHANGED <<gateVars, state, next>>, NEW w \in Workers,
         \/ LoadHead(w) \/ LoadLink(w) \/ (TakeHead(w) /\ next # idx[w])
         \/ ReadHead(w) \/ (SwingHead(w) /\ next # nxt[w])
  PROVE  IsList(n, p)' /\ Locals(n, p)' /\ \A s \in Slot : Accounted(n, p, s)'
<1> USE DEF Good, TypeOK, ListTypeOK, At, Goto, Panic, Drop
<1>0. InUse # End
  BY LinkFacts
<1>1. IsList(n, p)'
  BY DEF IsList
<1>2. /\ pc[w] \in ListLabels
      /\ \A v \in Workers \ {w} : pc'[v] = pc[v] /\ idx'[v] = idx[v] /\ nxt'[v] = nxt[v]
  BY ListFrame DEF Pop, Push
<1>3. \/ /\ pc[w] \in {"insert", "link", "take"}
         /\ pc'[w] \in {"insert", "link", "take", "panicked"}
      \/ /\ pc[w] \in {"push", "swing"} /\ pc'[w] = "store" /\ UNCHANGED idx
  <2>1. CASE LoadLink(w)
    BY <1>0, <2>1 DEF LoadLink
  <2> QED
    BY <2>1 DEF LoadHead, TakeHead, ReadHead, SwingHead
<1>4. \A s \in Slot : Accounted(n, p, s)'
  <2> SUFFICES ASSUME NEW s \in Slot PROVE Accounted(n, p, s)'
    OBVIOUS
  <2>1. ~Owner(w, s)' /\ (Holds(w, s)' <=> Holds(w, s))
    BY <1>3 DEF Owner, Holds
  <2> QED
    BY <1>2, <2>1, ListBystander
<1>5. On(n, p, next)
  <2>1. p[0] = next /\ 0 \in 0 .. n
    BY DEF IsList
  <2> QED
    BY <2>1 DEF On
<1>6. /\ pc'[w] \in {"link", "take"} => On(n, p, idx'[w])
      /\ pc'[w] = "take" => /\ nxt'[w] \in Slot /\ state[idx'[w]] = nxt'[w]
                           /\ nxt'[w] # InUse
      /\ pc'[w] = "store" => nxt'[w] \in Slot
  <2>1. CASE LoadHead(w)
    BY <1>5, <2>1 DEF LoadHead
  <2>2. CASE LoadLink(w)
    <3>1. On(n, p, idx[w]) /\ state[idx[w]] \in Slot \cup {End}
      BY <2>2, LinkFacts DEF LoadLink, Locals
    <3> QED
      BY <1>0, <2>2, <3>1 DEF LoadLink
  <2>3. CASE TakeHead(w) /\ next # idx[w]
    BY <1>5, <2>3 DEF TakeHead
  <2>4. CASE ReadHead(w)
    BY <2>4 DEF ReadHead
  <2>5. CASE SwingHead(w) /\ next # nxt[w]
    BY <2>5 DEF SwingHead
  <2> QED
    BY <2>1, <2>2, <2>3, <2>4, <2>5
<1>7. Locals(n, p)'
  <2> SUFFICES ASSUME NEW v \in Workers
               PROVE  /\ pc'[v] \in {"link", "take"} => On(n, p, idx'[v])
                      /\ pc'[v] \in {"take", "swing"} =>
                            nxt'[v] \in Slot /\ state'[idx'[v]] = nxt'[v]
                      /\ pc'[v] = "take"  => nxt'[v] # InUse
                      /\ pc'[v] = "mark"  => state'[idx'[v]] # InUse
                      /\ pc'[v] = "store" => nxt'[v] \in Slot
    BY DEF Locals, On
  <2>1. CASE v = w
    BY <1>3, <1>6, <2>1
  <2>2. CASE v # w
    BY <1>2, <2>2 DEF Locals
  <2> QED
    BY <2>1, <2>2
<1> QED
  BY <1>1, <1>4, <1>7

(* The word of a slot that w holds changes, which the list does not see.   *)
LEMMA HeldWord ==
  ASSUME NEW n, NEW p, Good(n, p), NEW w \in Workers, NEW s \in Slot, s = idx[w], Holds(w, s),
         UNCHANGED <<idx, next>>, \A r \in Slot : r # s => state'[r] = state[r]
  PROVE  /\ IsList(n, p)' /\ ~On(n, p, s)
         /\ \A v \in Workers : pc[v] = "take" \/ (v # w /\ Holds(v, idx[v]))
              => idx[v] # s /\ state'[idx[v]] = state[idx[v]]
<1>1. ~On(n, p, s) /\ \A v \in Workers : Holds(v, s) => v = w
  BY DEF Good, Accounted
<1>2. \A i \in 0 .. n : p[i] \in Slot /\ p[i] # s /\ state'[p[i]] = state[p[i]]
  BY <1>1 DEF On, Good
<1>3. IsList(n, p)'
  BY <1>2 DEF Good, IsList
<1>4. ASSUME NEW v \in Workers, pc[v] = "take" \/ (v # w /\ Holds(v, idx[v]))
      PROVE  idx[v] # s /\ state'[idx[v]] = state[idx[v]]
  <2>1. idx[v] \in Slot
    BY DEF Good, TypeOK
  <2>2. idx[v] # s
    <3>1. CASE pc[v] = "take"
      BY <1>1, <3>1 DEF Good, Locals
    <3>2. CASE v # w /\ Holds(v, idx[v])
      BY <1>1, <3>2
    <3> QED
      BY <1>4, <3>1, <3>2
  <2> QED
    BY <2>1, <2>2
<1> QED
  BY <1>1, <1>3, <1>4

(* A step that writes the word of the slot that w holds: the mark, and the *)
(* link before the push.                                                   *)
LEMMA WriteStep ==
  ASSUME NEW n, NEW p, Good(n, p), UNCHANGED gateVars, NEW w \in Workers,
         MarkInUse(w, "fill") \/ StoreLink(w)
  PROVE  /\ IsList(n, p)' /\ Locals(n, p)' /\ \A s \in Slot : Accounted(n, p, s)'
         /\ pc[w] = "mark" => pc'[w] = "fill" /\ state'[idx[w]] = InUse
<1> USE DEF Good, TypeOK, ListTypeOK, At, Goto, Panic
<1>1. PICK s \in Slot : s = idx[w]
  OBVIOUS
<1>2. /\ Holds(w, s) /\ UNCHANGED <<idx, next, nxt>>
      /\ \A r \in Slot : r # s => state'[r] = state[r]
      /\ \A v \in Workers \ {w} : pc'[v] = pc[v]
      /\ \/ pc[w] = "mark" /\ pc'[w] = "fill" /\ state'[s] = InUse
         \/ pc[w] = "store" /\ pc'[w] = "swing" /\ nxt[w] \in Slot /\ state'[s] = nxt[w]
  <2>1. CASE MarkInUse(w, "fill")
    <3>1. pc[w] = "mark" /\ state[s] # InUse
      BY <1>1, <2>1 DEF MarkInUse, Locals
    <3> QED
      BY <1>1, <2>1, <3>1 DEF MarkInUse, Holds
  <2>2. CASE StoreLink(w)
    BY <1>1, <2>2 DEF StoreLink, Holds, LinksAreSlots
  <2> QED
    BY <2>1, <2>2
<1>3. /\ IsList(n, p)'
      /\ \A v \in Workers : pc[v] = "take" \/ (v # w /\ Holds(v, idx[v]))
            => idx[v] # s /\ state'[idx[v]] = state[idx[v]]
  BY <1>1, <1>2, HeldWord
<1>4. \A r \in Slot : Accounted(n, p, r)'
  <2> SUFFICES ASSUME NEW r \in Slot PROVE Accounted(n, p, r)'
    OBVIOUS
  <2>1. ~Owner(w, r)' /\ (Holds(w, r)' <=> Holds(w, r)) /\ pc[w] \in ListLabels
    BY <1>2 DEF Owner, Holds, ListLabels
  <2>2. \A v \in Workers \ {w} : pc'[v] = pc[v] /\ idx'[v] = idx[v]
    BY <1>2
  <2> QED
    BY <2>1, <2>2, ListBystander
<1>5. Locals(n, p)'
  <2> SUFFICES ASSUME NEW v \in Workers
               PROVE  /\ pc'[v] \in {"link", "take"} => On(n, p, idx'[v])
                      /\ pc'[v] \in {"take", "swing"} =>
                            nxt'[v] \in Slot /\ state'[idx'[v]] = nxt'[v]
                      /\ pc'[v] = "take"  => nxt'[v] # InUse
                      /\ pc'[v] = "mark"  => state'[idx'[v]] # InUse
                      /\ pc'[v] = "store" => nxt'[v] \in Slot
    BY DEF Locals, On
  <2>1. CASE v = w
    BY <1>1, <1>2, <2>1
  <2>2. CASE v # w
    <3>1. pc[v] \in {"mark", "swing"} => Holds(v, idx[v])
      BY DEF Holds
    <3> QED
      BY <1>2, <1>3, <2>2, <3>1 DEF Locals
  <2> QED
    BY <2>1, <2>2
<1> QED
  BY <1>1, <1>2, <1>3, <1>4, <1>5

(* The pop: the head goes from the list to the hands of w.                 *)
LEMMA PopStep ==
  ASSUME NEW n, NEW p, Good(n, p), UNCHANGED gateVars, NEW w \in Workers,
         TakeHead(w), next = idx[w]
  PROVE  LET q == [i \in 0 .. n - 1 |-> p[i + 1]] IN
         /\ n - 1 \in Nat /\ q \in [0 .. n - 1 -> Slot]
         /\ IsList(n - 1, q)' /\ Locals(n - 1, q)' /\ \A s \in Slot : Accounted(n - 1, q, s)'
<1> USE DEF Good, TypeOK, ListTypeOK, At, Goto, Drop
<1> DEFINE q == [i \in 0 .. n - 1 |-> p[i + 1]]
<1>1. PICK s \in Slot : s = next
  OBVIOUS
<1>2. /\ pc[w] = "take" /\ pc' = [pc EXCEPT ![w] = "mark"] /\ next' = nxt[w]
      /\ \A v \in Workers \ {w} : nxt'[v] = nxt[v]
      /\ UNCHANGED <<idx, state>>
  BY DEF TakeHead
<1>3. nxt[w] \in Slot \ {InUse} /\ state[s] = nxt[w] /\ p[0] = s
  BY <1>1, <1>2 DEF Locals, IsList
<1>4. n > 0 /\ next' = p[1]
  <2>1. n # 0
    BY <1>3, LinkFacts DEF IsList
  <2>2. n > 0 /\ 0 \in 0 .. n - 1
    BY <2>1
  <2>3. state[p[0]] = p[0 + 1]
    BY <2>2 DEF IsList
  <2> QED
    BY <1>2, <1>3, <2>2, <2>3
<1>5. /\ n - 1 \in Nat /\ q \in [0 .. n - 1 -> Slot] /\ IsList(n - 1, q)'
      /\ \A r : (\E i \in 0 .. n - 1 : q[i] = r) <=> r # next /\ \E i \in 0 .. n : p[i] = r
  BY <1>2, <1>4, NextTail
<1> HIDE DEF q
<1>6. \A r : On(n - 1, q, r) <=> r # s /\ On(n, p, r)
  BY <1>1, <1>5 DEF On
<1>7. ASSUME NEW r \in Slot, r # s PROVE Accounted(n - 1, q, r)'
  <2>1. ~Owner(w, r)' /\ (Holds(w, r)' <=> Holds(w, r)) /\ pc[w] \in ListLabels
    BY <1>1, <1>2, <1>7 DEF Owner, Holds, ListLabels
  <2>2. \A v \in Workers \ {w} : pc'[v] = pc[v] /\ idx'[v] = idx[v]
    BY <1>2
  <2>3. On(n - 1, q, r) <=> On(n, p, r)
    BY <1>6, <1>7
  <2> QED
    BY <2>1, <2>2, <2>3, ListBystander
<1>8. Accounted(n - 1, q, s)'
  <2>1. On(n, p, s) /\ ~Live(s) /\ Sound(s) /\ \A v \in Workers : ~Holds(v, s)
    <3>1. p[0] = s /\ 0 \in 0 .. n
      BY <1>3
    <3>2. On(n, p, s)
      BY <3>1 DEF On
    <3> QED
      BY <3>2 DEF Accounted
  <2>2. \A v \in Workers : (Owner(v, s)' <=> Owner(v, s)) /\ (Holds(v, s)' <=> v = w)
    BY <1>1, <1>2, <2>1 DEF Owner, Holds, TakeHead
  <2>3. ~Live(s)' /\ Sound(s)'
    BY <2>1, <2>2 DEF Live, Sound, gateVars
  <2>4. \A v \in Workers : Owner(v, s)' /\ remove'[v] => conn'[s] = "none"
    BY <2>1, <2>2 DEF Live, gateVars
  <2>5. ~On(n - 1, q, s)
    BY <1>6
  <2> QED
    BY <2>2, <2>3, <2>4, <2>5 DEF Accounted, On
<1>9. Locals(n - 1, q)'
  <2> SUFFICES ASSUME NEW v \in Workers
               PROVE  /\ pc'[v] \notin {"link", "take"}
                      /\ pc'[v] = "swing" => nxt'[v] \in Slot /\ state'[idx'[v]] = nxt'[v]
                      /\ pc'[v] = "mark"  => state'[idx'[v]] # InUse
                      /\ pc'[v] = "store" => nxt'[v] \in Slot
    BY DEF Locals, On
  <2>1. CASE v = w
    BY <1>1, <1>2, <1>3, <2>1 DEF TakeHead
  <2>2. CASE v # w
    <3>1. ~Inserting(v)
      BY <1>2, <2>2 DEF Calm, Inserting
    <3> QED
      BY <1>2, <2>2, <3>1 DEF Locals, Inserting
  <2> QED
    BY <2>1, <2>2
<1> QED
  BY <1>5, <1>7, <1>8, <1>9 DEF q

(* The push: the slot goes from the hands of w to the list.                *)
LEMMA PushedStep ==
  ASSUME NEW n, NEW p, Good(n, p), UNCHANGED gateVars, NEW w \in Workers,
         SwingHead(w), next = nxt[w], NEW s \in Slot, s = idx[w]
  PROVE  LET q == [i \in 0 .. n + 1 |-> IF i = 0 THEN s ELSE p[i - 1]] IN
         /\ n + 1 \in Nat /\ q \in [0 .. n + 1 -> Slot]
         /\ IsList(n + 1, q)' /\ Locals(n + 1, q)' /\ \A r \in Slot : Accounted(n + 1, q, r)'
<1> USE DEF Good, TypeOK, ListTypeOK, At, Goto, Drop
<1> DEFINE q == [i \in 0 .. n + 1 |-> IF i = 0 THEN s ELSE p[i - 1]]
<1>1. /\ pc[w] = "swing" /\ pc' = [pc EXCEPT ![w] = "idle"] /\ next' = s
      /\ \A v \in Workers \ {w} : nxt'[v] = nxt[v]
      /\ UNCHANGED <<idx, state>>
  BY DEF SwingHead
<1>2. Holds(w, s) /\ state[s] = next
  BY <1>1 DEF Holds, Locals
<1>3. ~On(n, p, s) /\ ~Live(s) /\ Sound(s) /\ \A v \in Workers : Holds(v, s) => v = w
  BY <1>2 DEF Accounted
<1>4. /\ n + 1 \in Nat /\ q \in [0 .. n + 1 -> Slot] /\ IsList(n + 1, q)'
      /\ \A r : (\E i \in 0 .. n + 1 : q[i] = r) <=> r = s \/ \E i \in 0 .. n : p[i] = r
  <2>1. \A i \in 0 .. n : p[i] # s
    BY <1>3 DEF On
  <2> QED
    BY <1>1, <1>2, <2>1, NextCons
<1> HIDE DEF q
<1>5. \A r : On(n + 1, q, r) <=> r = s \/ On(n, p, r)
  BY <1>4 DEF On
<1>6. ASSUME NEW r \in Slot, r # s PROVE Accounted(n + 1, q, r)'
  <2>1. ~Owner(w, r)' /\ (Holds(w, r)' <=> Holds(w, r)) /\ pc[w] \in ListLabels
    BY <1>1, <1>6 DEF Owner, Holds, ListLabels
  <2>2. \A v \in Workers \ {w} : pc'[v] = pc[v] /\ idx'[v] = idx[v]
    BY <1>1
  <2>3. On(n + 1, q, r) <=> On(n, p, r)
    BY <1>5, <1>6
  <2> QED
    BY <2>1, <2>2, <2>3, ListBystander
<1>7. Accounted(n + 1, q, s)'
  <2>1. \A v \in Workers : (Owner(v, s)' <=> Owner(v, s)) /\ ~Holds(v, s)'
    BY <1>1, <1>3 DEF Owner, Holds
  <2>2. ~Live(s)' /\ Sound(s)'
    BY <1>3, <2>1 DEF Live, Sound, gateVars
  <2>3. \A v \in Workers : Owner(v, s)' /\ remove'[v] => conn'[s] = "none"
    BY <1>3, <2>1 DEF Live, gateVars
  <2>4. On(n + 1, q, s)
    BY <1>5
  <2> QED
    BY <2>1, <2>2, <2>3, <2>4 DEF Accounted, On
<1>8. Locals(n + 1, q)'
  <2> SUFFICES ASSUME NEW v \in Workers
               PROVE  /\ pc'[v] \in {"link", "take"} => On(n + 1, q, idx'[v])
                      /\ pc'[v] \in {"take", "swing"} =>
                            nxt'[v] \in Slot /\ state'[idx'[v]] = nxt'[v]
                      /\ pc'[v] = "take"  => nxt'[v] # InUse
                      /\ pc'[v] = "mark"  => state'[idx'[v]] # InUse
                      /\ pc'[v] = "store" => nxt'[v] \in Slot
    BY DEF Locals, On
  <2>1. CASE v = w
    BY <1>1, <2>1
  <2>2. CASE v # w
    BY <1>1, <1>5, <2>2 DEF Locals
  <2> QED
    BY <2>1, <2>2
<1> QED
  BY <1>4, <1>6, <1>7, <1>8 DEF q
-----------------------------------------------------------------------------
(* Who brings an event to a slot without a connection is late.             *)

(* LateOnly, of one slot.                                                  *)
LateSlot(s) ==
  /\ ready[s] # {} => conn[s] = "registered"
  /\ conn[s] # "none" => state[s] = InUse
  /\ Owned \in events[s] /\ ~Live(s) =>
       \E v \in late : Owner(v, s) \/ (idx[v] = s /\ pc[v] = "panicked")
  /\ \A v \in Workers :
       /\ idx[v] = s /\ pc[v] \in {"fill", "put"} => state[s] = InUse
       /\ idx[v] = s /\ pc[v] \in {"check", "post"} /\ v \notin late => conn[s] # "none"
       /\ batch[v][s] # {} /\ <<v, s>> \notin stale => conn[s] # "none"
       /\ Owner(v, s) /\ ~Live(s) => v \in late

LEMMA LateSlots == TypeOK => (LateOnly <=> \A s \in Slot : LateSlot(s))
<1> SUFFICES ASSUME TypeOK PROVE LateOnly <=> \A s \in Slot : LateSlot(s)
  OBVIOUS
<1>1. \A w \in Workers : idx[w] \in Slot
  BY DEF TypeOK
<1>2. LateOnly => \A s \in Slot : LateSlot(s)
  BY DEF LateOnly, LateSlot, At
<1>3. (\A s \in Slot : LateSlot(s)) => LateOnly
  BY <1>1 DEF LateOnly, LateSlot, At
<1> QED
  BY <1>2, <1>3

LEMMA LateSlotsNext == TypeOK' => (LateOnly' <=> \A s \in Slot : LateSlot(s)')
<1>1. (TypeOK => (LateOnly <=> \A s \in Slot : LateSlot(s)))'
  BY LateSlots, PTL
<1> QED
  BY <1>1

(* A step of w that has nothing to do with the slot.                       *)
LEMMA LateBystander ==
  ASSUME NEW s \in Slot, LateSlot(s), NEW w \in Workers,
         \A v \in Workers \ {w} : UNCHANGED <<pc[v], idx[v], remove[v]>>,
         UNCHANGED <<ready[s], conn[s], events[s], state[s]>>,
         \A v \in Workers : batch'[v][s] # {} /\ <<v, s>> \notin stale'
            => batch[v][s] # {} /\ <<v, s>> \notin stale,
         late \subseteq Workers, late \ {w} \subseteq late',
         ~Owner(w, s), ~Owner(w, s)', pc[w] # "panicked",
         ~(idx'[w] = s /\ pc'[w] \in {"fill", "put", "check", "post"})
  PROVE  LateSlot(s)'
<1>1. \A v \in Workers : /\ Owner(v, s)' <=> Owner(v, s)
                         /\ Owner(v, s) => remove'[v] = remove[v]
  BY DEF Owner
<1>2. Live(s)' <=> Live(s)
  BY <1>1 DEF Live
<1>3. (\E v \in late : Owner(v, s) \/ (idx[v] = s /\ pc[v] = "panicked")) =>
         \E v \in late' : Owner(v, s)' \/ (idx'[v] = s /\ pc'[v] = "panicked")
  BY <1>1
<1>4. ASSUME NEW v \in Workers
      PROVE  /\ idx'[v] = s /\ pc'[v] \in {"fill", "put"} => state'[s] = InUse
             /\ idx'[v] = s /\ pc'[v] \in {"check", "post"} /\ v \notin late' => conn'[s] # "none"
             /\ batch'[v][s] # {} /\ <<v, s>> \notin stale' => conn'[s] # "none"
             /\ Owner(v, s)' /\ ~Live(s)' => v \in late'
  <2>1. CASE v = w
    BY <1>1, <1>2, <2>1 DEF LateSlot
  <2>2. CASE v # w
    BY <1>1, <1>2, <2>2 DEF LateSlot
  <2> QED
    BY <2>1, <2>2
<1>5. /\ ready'[s] # {} => conn'[s] = "registered"
      /\ conn'[s] # "none" => state'[s] = InUse
      /\ Owned \in events'[s] /\ ~Live(s)' =>
            \E v \in late' : Owner(v, s)' \/ (idx'[v] = s /\ pc'[v] = "panicked")
  BY <1>2, <1>3 DEF LateSlot
<1> QED
  BY <1>4, <1>5 DEF LateSlot

(* An owner that goes on, and keeps bit 0 and its connection.              *)
LEMMA LateOwner ==
  ASSUME NEW s \in Slot, LateSlot(s), NEW w \in Workers,
         UNCHANGED <<idx, remove, batch, state, ready, stale, late>>,
         \A v \in Workers \ {w} : pc'[v] = pc[v], Owner(w, s), Owner(w, s)',
         (conn[s] = "none")' <=> conn[s] = "none", conn[s] = "registered" => conn'[s] = conn[s],
         late \subseteq Workers, Owned \in events'[s] => Owned \in events[s]
  PROVE  LateSlot(s)'
<1>1. \A v \in Workers : Owner(v, s)' <=> Owner(v, s)
  BY DEF Owner
<1>2. Live(s)' <=> Live(s)
  BY <1>1 DEF Live
<1>3. (\E v \in late : Owner(v, s) \/ (idx[v] = s /\ pc[v] = "panicked")) =>
         \E v \in late' : Owner(v, s)' \/ (idx'[v] = s /\ pc'[v] = "panicked")
  BY <1>1 DEF Owner
<1>4. ASSUME NEW v \in Workers
      PROVE  /\ idx'[v] = s /\ pc'[v] \in {"fill", "put"} => state'[s] = InUse
             /\ idx'[v] = s /\ pc'[v] \in {"check", "post"} /\ v \notin late' => conn'[s] # "none"
             /\ batch'[v][s] # {} /\ <<v, s>> \notin stale' => conn'[s] # "none"
             /\ Owner(v, s)' /\ ~Live(s)' => v \in late'
  <2>1. CASE v = w
    BY <1>1, <1>2, <2>1 DEF LateSlot, Owner
  <2>2. CASE v # w
    BY <1>1, <1>2, <2>2 DEF LateSlot
  <2> QED
    BY <2>1, <2>2
<1>5. /\ ready'[s] # {} => conn'[s] = "registered"
      /\ conn'[s] # "none" => state'[s] = InUse
      /\ Owned \in events'[s] /\ ~Live(s)' =>
            \E v \in late' : Owner(v, s)' \/ (idx'[v] = s /\ pc'[v] = "panicked")
  BY <1>2, <1>3 DEF LateSlot
<1> QED
  BY <1>4, <1>5 DEF LateSlot

(* An owner that dies: the slot is still live, or has not been for long.   *)
LEMMA LateDies ==
  ASSUME NEW s \in Slot, LateSlot(s), NEW w \in Workers,
         UNCHANGED <<idx, remove, batch, state, ready, conn, stale, late>>,
         \A v \in Workers \ {w} : pc'[v] = pc[v], pc'[w] = "panicked", Owner(w, s),
         Live(s) => conn[s] # "none"
  PROVE  LateSlot(s)'
<1>1. \A v \in Workers : Owner(v, s)' => Owner(v, s)
  BY DEF Owner
<1>2. ~Live(s)' => ~Live(s)
  BY DEF Live
<1>3. idx'[w] = s /\ (~Live(s) => w \in late)
  BY DEF LateSlot, Owner
<1>4. ASSUME NEW v \in Workers
      PROVE  /\ idx'[v] = s /\ pc'[v] \in {"fill", "put"} => state'[s] = InUse
             /\ idx'[v] = s /\ pc'[v] \in {"check", "post"} /\ v \notin late' => conn'[s] # "none"
             /\ batch'[v][s] # {} /\ <<v, s>> \notin stale' => conn'[s] # "none"
             /\ Owner(v, s)' /\ ~Live(s)' => v \in late'
  <2>1. CASE v = w
    BY <1>1, <1>2, <2>1 DEF LateSlot
  <2>2. CASE v # w
    BY <1>1, <1>2, <2>2 DEF LateSlot
  <2> QED
    BY <2>1, <2>2
<1>5. /\ ready'[s] # {} => conn'[s] = "registered"
      /\ conn'[s] # "none" => state'[s] = InUse
      /\ Owned \in events'[s] /\ ~Live(s)' =>
            \E v \in late' : Owner(v, s)' \/ (idx'[v] = s /\ pc'[v] = "panicked")
  BY <1>2, <1>3 DEF LateSlot
<1> QED
  BY <1>4, <1>5 DEF LateSlot

LEMMA PostLate ==
  ASSUME TypeOK, NEW w \in Workers, NEW s \in Slot, s = idx[w], LateSlot(s),
         PostEvents(w), Outdate(w)
  PROVE  LateSlot(s)'
<1> USE DEF TypeOK, GateTypeOK
<1>1. /\ \A v \in Workers : Owner(v, s)' <=> Owner(v, s) \/ (v = w /\ Owned \notin events[s])
      /\ \A v \in Workers : Owner(v, s)' => (remove'[v] <=> remove[v] /\ v # w)
      /\ ~Owner(w, s)
  BY DEF PostEvents, Owner, At, Goto
<1>2. /\ UNCHANGED <<idx, conn, ready, state, batch>> /\ pc[w] = "post"
      /\ pc'[w] = IF Owned \in events[s] THEN "idle" ELSE "swap"
      /\ \A v \in Workers \ {w} : pc'[v] = pc[v]
  BY DEF PostEvents, At, Goto
<1>3. stale' = stale /\ late' = late \ (IF pc'[w] = "idle" THEN {w} ELSE {})
  BY <1>2 DEF Outdate, At
<1>4. Live(s)' <=> Live(s)
  BY <1>1, <1>2 DEF Live
<1>5. ASSUME ~Live(s)'
      PROVE  \E v \in late' : Owner(v, s)' \/ (idx'[v] = s /\ pc'[v] = "panicked")
  <2>1. CASE Owned \in events[s]
    <3>1. PICK v \in late : Owner(v, s) \/ (idx[v] = s /\ pc[v] = "panicked")
      BY <1>4, <1>5, <2>1 DEF LateSlot
    <3> QED
      BY <1>1, <1>2, <1>3, <3>1
  <2>2. CASE Owned \notin events[s]
    <3>1. w \in late /\ Owner(w, s)'
      BY <1>1, <1>2, <1>4, <1>5, <2>2 DEF LateSlot, Live
    <3> QED
      BY <1>2, <1>3, <2>2, <3>1
  <2> QED
    BY <2>1, <2>2
<1>6. ASSUME NEW v \in Workers
      PROVE  /\ idx'[v] = s /\ pc'[v] \in {"fill", "put"} => state'[s] = InUse
             /\ idx'[v] = s /\ pc'[v] \in {"check", "post"} /\ v \notin late' => conn'[s] # "none"
             /\ batch'[v][s] # {} /\ <<v, s>> \notin stale' => conn'[s] # "none"
             /\ Owner(v, s)' /\ ~Live(s)' => v \in late'
  <2>1. CASE v = w
    BY <1>1, <1>2, <1>3, <1>4, <2>1 DEF LateSlot, Live
  <2>2. CASE v # w
    BY <1>1, <1>2, <1>3, <1>4, <2>2 DEF LateSlot
  <2> QED
    BY <2>1, <2>2
<1>7. /\ ready'[s] # {} => conn'[s] = "registered"
      /\ conn'[s] # "none" => state'[s] = InUse
  BY <1>2 DEF LateSlot
<1> QED
  BY <1>5, <1>6, <1>7 DEF LateSlot

(* The last step of an owner, after which bit 0 is off.                    *)
LEMMA ReleaseLate ==
  ASSUME TypeOK, NEW n, NEW p, NEW w \in Workers, NEW s \in Slot, s = idx[w],
         Accounted(n, p, s), LateSlot(s), Release(w), Outdate(w)
  PROVE  LateSlot(s)'
<1> USE DEF TypeOK, GateTypeOK, At, Goto
<1>1. /\ Owner(w, s) /\ UNCHANGED <<idx, conn, ready, state, batch>> /\ pc[w] = "cas"
      /\ \A v \in Workers \ {w} : pc'[v] = pc[v] /\ remove'[v] = remove[v]
  BY DEF Release, Owner
<1>2. stale' = stale /\ late' = late \ (IF pc'[w] = "idle" THEN {w} ELSE {})
  BY <1>1 DEF Outdate
<1>3. CASE events[s] # {Owned}
  <2>1. pc'[w] = "swap" /\ Owner(w, s)' /\ UNCHANGED <<events, remove>>
    BY <1>1, <1>3 DEF Release, Owner
  <2> QED
    BY <1>1, <1>2, <2>1, LateOwner
<1>4. CASE events[s] = {Owned}
  <2>1. pc'[w] \in {"idle", "clear"} /\ ~remove'[w] /\ Owned \notin events'[s]
    BY <1>4 DEF Release
  <2>2. \A v \in Workers : Owner(v, s)' <=> Owner(v, s) /\ v # w
    BY <1>1, <2>1 DEF Owner
  <2>3. ASSUME NEW v \in Workers, Owner(v, s)', ~Live(s)' PROVE v \in late'
    <3>1. v # w /\ Owner(v, s) /\ ~Live(s)
      BY <1>1, <2>2, <2>3 DEF Accounted, Sound
    <3> QED
      BY <1>2, <3>1 DEF LateSlot
  <2>4. ASSUME NEW v \in Workers
        PROVE  /\ idx'[v] = s /\ pc'[v] \in {"fill", "put"} => state'[s] = InUse
               /\ idx'[v] = s /\ pc'[v] \in {"check", "post"} /\ v \notin late' => conn'[s] # "none"
               /\ batch'[v][s] # {} /\ <<v, s>> \notin stale' => conn'[s] # "none"
    <3>1. CASE v = w
      BY <1>1, <1>2, <2>1, <3>1 DEF LateSlot
    <3>2. CASE v # w
      BY <1>1, <1>2, <3>2 DEF LateSlot
    <3> QED
      BY <3>1, <3>2
  <2>5. /\ ready'[s] # {} => conn'[s] = "registered"
        /\ conn'[s] # "none" => state'[s] = InUse
    BY <1>1 DEF LateSlot
  <2> QED
    BY <2>1, <2>3, <2>4, <2>5 DEF LateSlot
<1> QED
  BY <1>3, <1>4

LEMMA TakeLate ==
  ASSUME TypeOK, NEW n, NEW p, NEW w \in Workers, NEW s \in Slot, s = idx[w],
         Accounted(n, p, s), LateSlot(s), TakeEvents(w), Outdate(w)
  PROVE  LateSlot(s)'
<1> USE DEF TypeOK, GateTypeOK, At, Goto, Panic
<1>1. /\ Owner(w, s) /\ UNCHANGED <<idx, remove, conn, ready, state, batch>>
      /\ pc'[w] \in {"cas", "lock", "panicked"}
      /\ \A v \in Workers \ {w} : pc'[v] = pc[v]
  BY DEF TakeEvents, Owner
<1>2. UNCHANGED <<stale, late>>
  BY <1>1 DEF Outdate
<1>3. CASE Owned \in events[s]
  <2>1. Owner(w, s)'
    BY <1>1, <1>3 DEF TakeEvents, Owner
  <2> QED
    BY <1>1, <1>2, <1>3, <2>1, LateOwner
<1>4. CASE Owned \notin events[s]
  <2>1. ~Live(s)
    BY <1>1, <1>4 DEF Accounted, Sound
  <2>2. pc'[w] = "panicked"
    BY <1>4 DEF TakeEvents
  <2> QED
    BY <1>1, <1>2, <2>1, <2>2, LateDies
<1> QED
  BY <1>3, <1>4

(* The connection is closed: whoever is still to post an event to it is    *)
(* late from now on.                                                       *)
LEMMA RemoveLate ==
  ASSUME TypeOK, NEW w \in Workers, NEW s \in Slot, s = idx[w], LateSlot(s),
         HandleRemove(w), Outdate(w)
  PROVE  LateSlot(s)'
<1> USE DEF TypeOK, GateTypeOK, At, Goto
<1>1. /\ UNCHANGED <<idx, state, batch>> /\ pc'[w] = "unlock" /\ remove'[w]
      /\ conn'[s] = "none" /\ ready'[s] = {} /\ \A v \in Workers \ {w} : pc'[v] = pc[v]
  BY DEF HandleRemove
<1>2. Live(s)'
  BY <1>1 DEF Live, Owner
<1>3. ASSUME NEW v \in Workers
      PROVE  /\ idx'[v] = s /\ pc'[v] \in {"fill", "put"} => state'[s] = InUse
             /\ idx'[v] = s /\ pc'[v] \in {"check", "post"} => v \in late'
             /\ batch'[v][s] # {} => <<v, s>> \in stale'
  <2>1. idx'[v] = s /\ pc'[v] \in {"fill", "put"} => state'[s] = InUse
    BY <1>1 DEF LateSlot
  <2>2. CASE conn[s] = "none"
    BY <1>1, <2>1, <2>2 DEF LateSlot, Outdate
  <2>3. CASE conn[s] # "none"
    BY <1>1, <2>1, <2>3 DEF Outdate
  <2> QED
    BY <2>2, <2>3
<1> QED
  BY <1>1, <1>2, <1>3 DEF LateSlot

LEMMA QuietLate ==
  ASSUME TypeOK, NEW w \in Workers, NEW s \in Slot, s = idx[w], LateSlot(s),
         AssertQuiet(w), Outdate(w)
  PROVE  LateSlot(s)'
<1> USE DEF TypeOK, GateTypeOK, At, Goto, Panic
<1>1. /\ UNCHANGED <<idx, remove, conn, ready, state, batch>> /\ events'[s] = {}
      /\ pc[w] = "clear" /\ pc'[w] \in {"push", "panicked"}
      /\ \A v \in Workers \ {w} : pc'[v] = pc[v]
  BY DEF AssertQuiet
<1>2. UNCHANGED <<stale, late>>
  BY <1>1 DEF Outdate
<1>3. \A v \in Workers : Owner(v, s)' <=> Owner(v, s)
  BY <1>1 DEF Owner
<1>4. Live(s)' <=> Live(s)
  BY <1>1, <1>3 DEF Live
<1>5. ASSUME NEW v \in Workers
      PROVE  /\ idx'[v] = s /\ pc'[v] \in {"fill", "put"} => state'[s] = InUse
             /\ idx'[v] = s /\ pc'[v] \in {"check", "post"} /\ v \notin late' => conn'[s] # "none"
             /\ batch'[v][s] # {} /\ <<v, s>> \notin stale' => conn'[s] # "none"
             /\ Owner(v, s)' /\ ~Live(s)' => v \in late'
  <2>1. CASE v = w
    BY <1>1, <1>2, <1>3, <1>4, <2>1 DEF LateSlot
  <2>2. CASE v # w
    BY <1>1, <1>2, <1>3, <1>4, <2>2 DEF LateSlot
  <2> QED
    BY <2>1, <2>2
<1> QED
  BY <1>1, <1>5 DEF LateSlot

(* Whoever finds the lock of a live connection taken would find itself.    *)
LEMMA LiveIsNotLocked ==
  ASSUME TypeOK, LockExclusion, NEW n, NEW p, NEW w \in Workers, NEW s \in Slot, s = idx[w],
         Accounted(n, p, s), Owner(w, s), pc[w] = "lock", locked[s]
  PROVE  ~Live(s)
<1>1. PICK v \in Workers : InGuard(v, s)
  BY DEF LockExclusion
<1>2. Owner(v, s) \/ Holds(v, s)
  BY <1>1 DEF InGuard, Owner, Holds
<1>3. v # w
  BY <1>1 DEF InGuard
<1> QED
  BY <1>2, <1>3 DEF Accounted, Sound

LEMMA GateLate ==
  ASSUME TypeOK, LockExclusion, NEW n, NEW p, NEW s \in Slot, Accounted(n, p, s), LateSlot(s),
         NEW w \in Workers, GateStep(w), Outdate(w)
  PROVE  LateSlot(s)'
<1> USE DEF TypeOK, GateTypeOK, At, Goto, Panic
<1>1. CASE s # idx[w]
  <2>1. s \in Slot \ {idx[w]}
    BY <1>1
  <2>2. /\ UNCHANGED <<idx, state, batch>> /\ pc[w] # "panicked"
        /\ \A v \in Workers \ {w} : pc'[v] = pc[v] /\ remove'[v] = remove[v]
        /\ \A r \in Slot \ {idx[w]} : /\ conn'[r] = conn[r] /\ events'[r] = events[r]
                                      /\ ready'[r] = ready[r]
    BY GateFrame
  <2>3. stale \subseteq stale' /\ late \ {w} \subseteq late' /\ late \subseteq Workers
    BY DEF Outdate
  <2>4. ~Owner(w, s) /\ ~Owner(w, s)' /\ idx'[w] # s
    BY <1>1, <2>2 DEF Owner
  <2> QED
    BY <2>1, <2>2, <2>3, <2>4, LateBystander
<1>2. CASE s = idx[w]
  <2>1. ASSUME AssertInUse(w) PROVE LateSlot(s)'
    <3>1. /\ UNCHANGED <<idx, state, gateVars>> /\ pc[w] = "check"
          /\ pc'[w] \in {"post", "panicked"} /\ \A v \in Workers \ {w} : pc'[v] = pc[v]
      BY <2>1 DEF AssertInUse
    <3>2. UNCHANGED <<stale, late>>
      BY <3>1 DEF Outdate, gateVars
    <3>3. \A v \in Workers : Owner(v, s)' <=> Owner(v, s)
      BY <3>1 DEF Owner
    <3>4. Live(s)' <=> Live(s)
      BY <3>1, <3>3 DEF Live, gateVars
    <3>5. ASSUME NEW v \in Workers
          PROVE  /\ idx'[v] = s /\ pc'[v] \in {"fill", "put"} => state'[s] = InUse
                 /\ idx'[v] = s /\ pc'[v] \in {"check", "post"} /\ v \notin late'
                       => conn'[s] # "none"
                 /\ batch'[v][s] # {} /\ <<v, s>> \notin stale' => conn'[s] # "none"
                 /\ Owner(v, s)' /\ ~Live(s)' => v \in late'
      <4>1. CASE v = w
        BY <3>1, <3>2, <3>3, <3>4, <4>1 DEF LateSlot, gateVars
      <4>2. CASE v # w
        BY <3>1, <3>2, <3>3, <3>4, <4>2 DEF LateSlot, gateVars
      <4> QED
        BY <4>1, <4>2
    <3>6. (\E v \in late : Owner(v, s) \/ (idx[v] = s /\ pc[v] = "panicked")) =>
             \E v \in late' : Owner(v, s)' \/ (idx'[v] = s /\ pc'[v] = "panicked")
      BY <3>1, <3>2, <3>3
    <3> QED
      BY <3>1, <3>4, <3>5, <3>6 DEF LateSlot, gateVars
  <2>2. ASSUME LockConn(w), ~locked[s] PROVE LateSlot(s)'
    <3>1. Owner(w, s) /\ Owner(w, s)' /\ pc'[w] = "handle"
      BY <1>2, <2>2 DEF LockConn, Owner
    <3>2. UNCHANGED <<stale, late>>
      BY <2>2, <3>1 DEF Outdate, LockConn
    <3> QED
      BY <2>2, <3>1, <3>2, LateOwner DEF LockConn
  <2>3. ASSUME LockConn(w), locked[s] PROVE LateSlot(s)'
    <3>1. Owner(w, s) /\ pc[w] = "lock" /\ pc'[w] = "panicked"
      BY <1>2, <2>3 DEF LockConn, Owner
    <3>2. UNCHANGED <<stale, late>>
      BY <2>3, <3>1 DEF Outdate, LockConn
    <3>3. ~Live(s)
      BY <1>2, <2>3, <3>1, LiveIsNotLocked
    <3> QED
      BY <2>3, <3>1, <3>2, <3>3, LateDies DEF LockConn
  <2>4. ASSUME HandleNone(w) \/ HandlePanic(w) PROVE LateSlot(s)'
    <3>1. /\ Owner(w, s) /\ pc'[w] = "panicked" /\ ~remove[w]
          /\ UNCHANGED <<idx, remove, batch, state, ready, conn, events>>
          /\ \A v \in Workers \ {w} : pc'[v] = pc[v]
      BY <1>2, <2>4 DEF HandleNone, HandlePanic, Owner
    <3>2. UNCHANGED <<stale, late>>
      BY <3>1 DEF Outdate
    <3>3. Live(s) => conn[s] # "none"
      BY <3>1 DEF Live, Accounted, Sound
    <3> QED
      BY <3>1, <3>2, <3>3, LateDies
  <2>5. ASSUME Register(w) PROVE LateSlot(s)'
    <3>1. /\ Owner(w, s) /\ Owner(w, s)' /\ UNCHANGED pc /\ pc[w] = "handle"
          /\ conn[s] = "new" /\ conn'[s] = "registered"
      BY <1>2, <2>5 DEF Register, Owner
    <3>2. UNCHANGED <<stale, late>>
      BY <1>2, <3>1 DEF Outdate
    <3> QED
      BY <2>5, <3>1, <3>2, LateOwner DEF Register
  <2>6. ASSUME HandleKeep(w) \/ Unlock(w) PROVE LateSlot(s)'
    <3>1. /\ Owner(w, s) /\ Owner(w, s)' /\ pc'[w] \in {"unlock", "swap"}
          /\ UNCHANGED <<idx, remove, batch, state, ready, conn, events>>
          /\ \A v \in Workers \ {w} : pc'[v] = pc[v]
      BY <1>2, <2>6 DEF HandleKeep, Unlock, Owner
    <3>2. UNCHANGED <<stale, late>>
      BY <3>1 DEF Outdate
    <3> QED
      BY <3>1, <3>2, LateOwner
  <2> QED
    BY <1>2, <2>1, <2>2, <2>3, <2>4, <2>5, <2>6, PostLate, TakeLate, ReleaseLate,
       RemoveLate, QuietLate DEF GateStep, Handle
<1> QED
  BY <1>1, <1>2
-----------------------------------------------------------------------------
(* The invariant is inductive.                                             *)

(* What is left to show of a step.                                         *)
Kept(n, p) ==
  /\ n \in Nat /\ p \in [0 .. n -> Slot]
  /\ IsList(n, p) /\ Locals(n, p)
  /\ \A s \in Slot : Accounted(n, p, s) /\ LateSlot(s)

LEMMA KeptIsGood ==
  ASSUME NEW n, NEW p, Good(n, p), [Next]_vars, NEW m, NEW q, Kept(m, q)'
  PROVE  Good(m, q)'
<1>1. TypeOK' /\ LinksAreSlots' /\ LockExclusion' /\ Calm'
  BY TypeStep, LockStep, CalmStep DEF Good
<1>2. LateOnly'
  BY <1>1, LateSlotsNext DEF Kept, Slot
<1> QED
  BY <1>1, <1>2 DEF Good, Kept, Slot

(* A step of the environment, of the poll, or of the loop of a worker.     *)
LEMMA EnvStep ==
  ASSUME NEW n, NEW p, Good(n, p),
         UNCHANGED <<pc, idx, state, listVars, events, conn, remove, history>>,
         \A s \in Slot : ready'[s] # {} => conn[s] = "registered",
         \A s \in Slot, v \in Workers : batch'[v][s] # {} => batch[v][s] # {} \/ conn[s] # "none"
  PROVE  Kept(n, p)'
<1> USE DEF listVars, history
<1>1. IsList(n, p)' /\ Locals(n, p)'
  BY ListStays DEF Good
<1>2. ASSUME NEW s \in Slot PROVE Accounted(n, p, s)' /\ LateSlot(s)'
  <2>1. Accounted(n, p, s) /\ LateSlot(s)
    BY LateSlots DEF Good
  <2>2. \A v \in Workers : (Owner(v, s)' <=> Owner(v, s)) /\ (Holds(v, s)' <=> Holds(v, s))
    BY DEF Owner, Holds
  <2>3. (DiedOver(s)' <=> DiedOver(s)) /\ (Live(s)' <=> Live(s))
    BY <2>2 DEF DiedOver, Live, At
  <2>4. Accounted(n, p, s)'
    BY <2>1, <2>2, <2>3, SameRelations
  <2>5. (\E v \in late : Owner(v, s) \/ (idx[v] = s /\ pc[v] = "panicked")) =>
           \E v \in late' : Owner(v, s)' \/ (idx'[v] = s /\ pc'[v] = "panicked")
    BY <2>2 DEF Owner
  <2>6. LateSlot(s)'
    BY <2>1, <2>2, <2>3, <2>5 DEF LateSlot
  <2> QED
    BY <2>4, <2>6
<1> QED
  BY <1>1, <1>2 DEF Good, Kept, Slot

LEMMA PollStep ==
  ASSUME NEW n, NEW p, Good(n, p), NEW w \in Workers, PollEvents(w)
  PROVE  /\ \A s \in Slot : ready'[s] # {} => conn[s] = "registered"
         /\ \A s \in Slot, v \in Workers :
              batch'[v][s] # {} => batch[v][s] # {} \/ conn[s] # "none"
<1> USE DEF Good, TypeOK, GateTypeOK
<1>1. \A s \in Slot : ready[s] # {} => conn[s] = "registered"
  BY LateSlots DEF LateSlot
<1>2. PICK B \in SUBSET {s \in Slot : ready[s] # {}} :
        /\ batch' = [batch EXCEPT ![w] = [s \in Slot |-> IF s \in B THEN ready[s] ELSE {}]]
        /\ ready' = [s \in Slot |-> IF s \in B THEN {} ELSE ready[s]]
  BY DEF PollEvents
<1>3. \A s \in Slot : ready'[s] # {} => ready[s] # {}
  BY <1>2
<1>4. \A s \in Slot, v \in Workers : batch'[v][s] # {} => batch[v][s] # {} \/ ready[s] # {}
  BY <1>2
<1> QED
  BY <1>1, <1>3, <1>4

(* A step of a worker that leaves the list and the locals of all alone.    *)
LEMMA DispatchStep ==
  ASSUME NEW n, NEW p, Good(n, p), NEW w \in Workers, NEW r \in Slot, DispatchEvent(w, r)
  PROVE  Kept(n, p)'
<1> USE DEF TypeOK, GateTypeOK, At, Goto
<1>1. /\ pc[w] = "idle" /\ pc' = [pc EXCEPT ![w] = "check"] /\ idx' = [idx EXCEPT ![w] = r]
      /\ batch' = [batch EXCEPT ![w][r] = {}] /\ batch[w][r] # {}
      /\ UNCHANGED <<state, ready, events, conn, remove, next, nxt>>
      /\ late' = (IF <<w, r>> \in stale THEN late \cup {w} ELSE late)
      /\ stale' = stale \ {<<w, r>>}
  BY DEF DispatchEvent, Dispatch, listVars
<1>2. TypeOK
  BY DEF Good
<1>3. IsList(n, p)' /\ Locals(n, p)'
  BY <1>1, <1>2, ListStays DEF Good
<1>4. ASSUME NEW s \in Slot PROVE Accounted(n, p, s)' /\ LateSlot(s)'
  <2>1. Accounted(n, p, s) /\ LateSlot(s) /\ LateSlot(r)
    BY LateSlots DEF Good
  <2>2. ~Owner(w, s) /\ ~Owner(w, s)' /\ ~Holds(w, s) /\ ~Holds(w, s)'
    BY <1>1, <1>2 DEF Owner, Holds
  <2>3. \A v \in Workers \ {w} : UNCHANGED <<pc[v], idx[v], remove[v]>>
    BY <1>1, <1>2
  <2>4. Accounted(n, p, s)'
    BY <1>1, <2>1, <2>2, <2>3, Bystander
  <2>5. \A v \in Workers : batch'[v][s] # {} /\ <<v, s>> \notin stale'
            => batch[v][s] # {} /\ <<v, s>> \notin stale
    BY <1>1, <1>2
  <2>6. late \subseteq Workers /\ late \ {w} \subseteq late'
    BY <1>1, <1>2
  <2>7. CASE s # r
    <3>1. idx'[w] # s
      BY <1>1, <1>2, <2>7
    <3> QED
      BY <1>1, <2>1, <2>2, <2>3, <2>4, <2>5, <2>6, <3>1, LateBystander
  <2>8. CASE s = r
    <3>1. w \notin late' => conn[s] # "none"
      BY <1>1, <2>1, <2>8 DEF LateSlot
    <3>2. \A v \in Workers : /\ Owner(v, s)' <=> Owner(v, s)
                             /\ remove'[v] = remove[v]
      BY <1>1, <2>2, <2>3 DEF Owner
    <3>3. Live(s)' <=> Live(s)
      BY <1>1, <3>2 DEF Live
    <3>4. (\E v \in late : Owner(v, s) \/ (idx[v] = s /\ pc[v] = "panicked")) =>
             \E v \in late' : Owner(v, s)' \/ (idx'[v] = s /\ pc'[v] = "panicked")
      BY <1>1, <2>3, <2>6, <3>2
    <3>5. ASSUME NEW v \in Workers
          PROVE  /\ idx'[v] = s /\ pc'[v] \in {"fill", "put"} => state'[s] = InUse
                 /\ idx'[v] = s /\ pc'[v] \in {"check", "post"} /\ v \notin late'
                       => conn'[s] # "none"
                 /\ batch'[v][s] # {} /\ <<v, s>> \notin stale' => conn'[s] # "none"
                 /\ Owner(v, s)' /\ ~Live(s)' => v \in late'
      <4>1. CASE v = w
        BY <1>1, <1>2, <2>1, <2>2, <2>5, <3>1, <4>1 DEF LateSlot
      <4>2. CASE v # w
        BY <1>1, <2>1, <2>3, <2>5, <2>6, <3>2, <3>3, <4>2 DEF LateSlot
      <4> QED
        BY <4>1, <4>2
    <3>6. LateSlot(s)'
      BY <1>1, <2>1, <3>3, <3>4, <3>5 DEF LateSlot
    <3> QED
      BY <2>4, <3>6
  <2> QED
    BY <2>4, <2>7, <2>8
<1> QED
  BY <1>3, <1>4 DEF Good, Kept, Slot

LEMMA AcceptStep ==
  ASSUME NEW n, NEW p, Good(n, p), NEW w \in Workers, Accept(w)
  PROVE  Kept(n, p)'
<1> USE DEF TypeOK, At, Goto
<1>1. /\ pc[w] = "idle" /\ pc' = [pc EXCEPT ![w] = "insert"]
      /\ UNCHANGED <<idx, state, ready, batch, events, conn, remove, next, nxt, stale, late>>
  BY DEF Accept, gateVars, listVars, history
<1>2. TypeOK
  BY DEF Good
<1>3. IsList(n, p)' /\ Locals(n, p)'
  BY <1>1, <1>2, ListStays DEF Good
<1>4. ASSUME NEW s \in Slot PROVE Accounted(n, p, s)' /\ LateSlot(s)'
  <2>1. Accounted(n, p, s) /\ LateSlot(s)
    BY LateSlots DEF Good
  <2>2. ~Owner(w, s) /\ ~Owner(w, s)' /\ ~Holds(w, s) /\ ~Holds(w, s)'
    BY <1>1, <1>2 DEF Owner, Holds
  <2>3. \A v \in Workers \ {w} : UNCHANGED <<pc[v], idx[v], remove[v]>>
    BY <1>1, <1>2
  <2>4. Accounted(n, p, s)'
    BY <1>1, <2>1, <2>2, <2>3, Bystander
  <2>5. LateSlot(s)'
    BY <1>1, <1>2, <2>1, <2>2, <2>3, LateBystander
  <2> QED
    BY <2>4, <2>5
<1> QED
  BY <1>3, <1>4 DEF Good, Kept, Slot

LEMMA LockSlotStep ==
  ASSUME NEW n, NEW p, Good(n, p), NEW w \in Workers, LockSlot(w)
  PROVE  Kept(n, p)'
<1> USE DEF TypeOK, At, Goto, Panic
<1>1. /\ pc[w] = "fill" /\ pc'[w] \in {"put", "panicked"}
      /\ \A v \in Workers \ {w} : pc'[v] = pc[v]
      /\ UNCHANGED <<idx, state, ready, batch, events, conn, remove, next, nxt, stale, late>>
  BY DEF Good, LockSlot, listVars, history
<1>2. TypeOK
  BY DEF Good
<1>3. IsList(n, p)' /\ Locals(n, p)'
  BY <1>1, <1>2, ListStays DEF Good
<1>4. ASSUME NEW s \in Slot PROVE Accounted(n, p, s)' /\ LateSlot(s)'
  <2>1. Accounted(n, p, s) /\ LateSlot(s)
    BY LateSlots DEF Good
  <2>2. \A v \in Workers : Owner(v, s)' <=> Owner(v, s)
    BY <1>1, <1>2 DEF Owner
  <2>3. Accounted(n, p, s)'
    <3>1. CASE s = idx[w]
      BY <1>2, <2>1, <3>1, LockSlotAccounted
    <3>2. CASE s # idx[w]
      BY <1>1, <2>1, <3>2, Bystander DEF Owner, Holds
    <3> QED
      BY <3>1, <3>2
  <2>4. Live(s)' <=> Live(s)
    BY <1>1, <2>2 DEF Live
  <2>5. (\E v \in late : Owner(v, s) \/ (idx[v] = s /\ pc[v] = "panicked")) =>
           \E v \in late' : Owner(v, s)' \/ (idx'[v] = s /\ pc'[v] = "panicked")
    BY <1>1, <1>2, <2>2
  <2>6. ASSUME NEW v \in Workers
        PROVE  /\ idx'[v] = s /\ pc'[v] \in {"fill", "put"} => state'[s] = InUse
               /\ idx'[v] = s /\ pc'[v] \in {"check", "post"} /\ v \notin late' => conn'[s] # "none"
               /\ batch'[v][s] # {} /\ <<v, s>> \notin stale' => conn'[s] # "none"
               /\ Owner(v, s)' /\ ~Live(s)' => v \in late'
    <3>1. CASE v = w
      BY <1>1, <2>1, <2>2, <2>4, <3>1 DEF LateSlot
    <3>2. CASE v # w
      BY <1>1, <2>1, <2>2, <2>4, <3>2 DEF LateSlot
    <3> QED
      BY <3>1, <3>2
  <2>7. LateSlot(s)'
    BY <1>1, <2>1, <2>4, <2>5, <2>6 DEF LateSlot
  <2> QED
    BY <2>3, <2>7
<1> QED
  BY <1>3, <1>4 DEF Good, Kept, Slot

LEMMA PutStep ==
  ASSUME NEW n, NEW p, Good(n, p), NEW w \in Workers, PutConnection(w)
  PROVE  Kept(n, p)'
<1> USE DEF TypeOK, GateTypeOK, At, Goto
<1>0. PICK t \in Slot : t = idx[w]
  BY DEF Good
<1>1. /\ pc[w] = "put" /\ pc'[w] = "check"
      /\ \A v \in Workers \ {w} : pc'[v] = pc[v]
      /\ conn'[t] = "new" /\ \A s \in Slot \ {t} : conn'[s] = conn[s]
      /\ UNCHANGED <<idx, state, ready, batch, events, remove, next, nxt, stale, late>>
  BY <1>0 DEF Good, PutConnection, listVars, history
<1>2. TypeOK
  BY DEF Good
<1>3. IsList(n, p)' /\ Locals(n, p)'
  BY <1>1, <1>2, ListStays DEF Good
<1>4. ASSUME NEW s \in Slot PROVE Accounted(n, p, s)' /\ LateSlot(s)'
  <2>1. Accounted(n, p, s) /\ LateSlot(s)
    BY LateSlots DEF Good
  <2>2. CASE s # t
    <3>1. ~Owner(w, s) /\ ~Owner(w, s)' /\ ~Holds(w, s) /\ ~Holds(w, s)' /\ idx'[w] # s
      BY <1>0, <1>1, <2>2 DEF Owner, Holds
    <3>2. \A v \in Workers \ {w} : UNCHANGED <<pc[v], idx[v], remove[v]>>
      BY <1>1
    <3>3. Accounted(n, p, s)'
      BY <1>1, <2>1, <2>2, <3>1, <3>2, Bystander
    <3>4. LateSlot(s)'
      BY <1>1, <1>2, <2>1, <2>2, <3>1, <3>2, LateBystander
    <3> QED
      BY <3>3, <3>4
  <2>3. CASE s = t
    <3>1. Accounted(n, p, s)'
      BY <1>0, <1>2, <2>1, <2>3, PutAccounted
    <3>2. ~Live(s) /\ state[s] = InUse
      <4>1. Holds(w, s)
        BY <1>0, <1>1, <2>3 DEF Holds
      <4> QED
        BY <1>0, <1>1, <2>1, <2>3, <4>1 DEF Accounted, LateSlot
    <3>3. ready'[s] = {}
      BY <1>1, <2>1, <3>2 DEF LateSlot, Live
    <3>4. Live(s)' /\ conn'[s] # "none" /\ state'[s] = InUse
      BY <1>1, <2>3, <3>2 DEF Live
    <3>5. LateSlot(s)'
      BY <3>3, <3>4 DEF LateSlot
    <3> QED
      BY <3>1, <3>5
  <2> QED
    BY <2>2, <2>3
<1> QED
  BY <1>3, <1>4 DEF Good, Kept, Slot

LEMMA GateKept ==
  ASSUME NEW n, NEW p, Good(n, p), NEW w \in Workers, EventStep(w)
  PROVE  Kept(n, p)'
<1>1. /\ UNCHANGED <<idx, state, next, nxt>> /\ \A v \in Workers \ {w} : pc'[v] = pc[v]
      /\ pc'[w] \in {"idle", "post", "swap", "cas", "lock", "handle", "unlock", "clear",
                     "push", "panicked"}
  BY GateFrame DEF Good, EventStep, listVars
<1>2. IsList(n, p)' /\ Locals(n, p)'
  BY <1>1, ListStays DEF Good
<1>3. ASSUME NEW s \in Slot PROVE Accounted(n, p, s)' /\ LateSlot(s)'
  <2>1. TypeOK /\ LockExclusion /\ Accounted(n, p, s) /\ LateSlot(s)
    BY LateSlots DEF Good
  <2> QED
    BY <2>1, GateAccounted, GateLate DEF EventStep
<1> QED
  BY <1>2, <1>3 DEF Good, Kept, Slot

(* A step of insert or remove may write the word of a slot.                *)
LEMMA LateList ==
  ASSUME NEW s \in Slot, LateSlot(s), NEW w \in Workers, UNCHANGED <<gateVars, stale>>,
         \A v \in Workers \ {w} : pc'[v] = pc[v] /\ idx'[v] = idx[v],
         pc[w] \in ListLabels, pc'[w] \in ListLabels \cup {"idle", "fill", "panicked"},
         late \subseteq Workers, late \ {w} \subseteq late',
         conn[s] # "none" => state'[s] = InUse,
         \A v \in Workers \ {w} : idx[v] = s /\ pc[v] \in {"fill", "put"} => state'[s] = InUse,
         idx'[w] = s /\ pc'[w] = "fill" => state'[s] = InUse
  PROVE  LateSlot(s)'
<1> USE DEF gateVars
<1>1. \A v \in Workers : Owner(v, s)' <=> Owner(v, s)
  BY DEF Owner, ListLabels
<1>2. Live(s)' <=> Live(s)
  BY <1>1 DEF Live
<1>3. ~Owner(w, s) /\ pc[w] # "panicked"
  BY DEF Owner, ListLabels
<1>4. (\E v \in late : Owner(v, s) \/ (idx[v] = s /\ pc[v] = "panicked")) =>
         \E v \in late' : Owner(v, s)' \/ (idx'[v] = s /\ pc'[v] = "panicked")
  BY <1>1, <1>3
<1>5. ASSUME NEW v \in Workers
      PROVE  /\ idx'[v] = s /\ pc'[v] \in {"fill", "put"} => state'[s] = InUse
             /\ idx'[v] = s /\ pc'[v] \in {"check", "post"} /\ v \notin late' => conn'[s] # "none"
             /\ batch'[v][s] # {} /\ <<v, s>> \notin stale' => conn'[s] # "none"
             /\ Owner(v, s)' /\ ~Live(s)' => v \in late'
  <2>1. CASE v = w
    BY <1>1, <1>2, <1>3, <2>1 DEF LateSlot, ListLabels
  <2>2. CASE v # w
    BY <1>1, <1>2, <2>2 DEF LateSlot
  <2> QED
    BY <2>1, <2>2
<1>6. /\ ready'[s] # {} => conn'[s] = "registered"
      /\ conn'[s] # "none" => state'[s] = InUse
      /\ Owned \in events'[s] /\ ~Live(s)' =>
            \E v \in late' : Owner(v, s)' \/ (idx'[v] = s /\ pc'[v] = "panicked")
  BY <1>2, <1>4 DEF LateSlot
<1> QED
  BY <1>5, <1>6 DEF LateSlot

(* A step of insert or remove that writes no word, or the one of the slot  *)
(* that its worker holds.                                                  *)
LEMMA ListLate ==
  ASSUME NEW n, NEW p, Good(n, p), NEW w \in Workers, InsertStep(w) \/ PushStep(w)
  PROVE  \A s \in Slot : LateSlot(s)'
<1> SUFFICES ASSUME NEW s \in Slot PROVE LateSlot(s)'
  OBVIOUS
<1> USE DEF At, Goto, Panic
<1>1. TypeOK /\ LateSlot(s) /\ Accounted(n, p, s)
  BY LateSlots DEF Good
<1>2. /\ Pop(w) \/ MarkInUse(w, "fill") \/ Push(w)
      /\ UNCHANGED <<gateVars, stale>> /\ late \ {w} \subseteq late' /\ late \subseteq Workers
  BY <1>1 DEF InsertStep, PushStep, history, TypeOK
<1>3. /\ pc[w] \in ListLabels /\ pc'[w] \in ListLabels \cup {"idle", "fill", "panicked"}
      /\ \A v \in Workers \ {w} : pc'[v] = pc[v] /\ idx'[v] = idx[v]
  BY <1>1, <1>2, ListFrame
<1>4. CASE UNCHANGED state /\ pc'[w] # "fill"
  <2>1. conn[s] # "none" => state'[s] = InUse
    BY <1>1, <1>4 DEF LateSlot
  <2>2. \A v \in Workers \ {w} : idx[v] = s /\ pc[v] \in {"fill", "put"} => state'[s] = InUse
    BY <1>1, <1>4 DEF LateSlot
  <2> QED
    BY <1>1, <1>2, <1>3, <1>4, <2>1, <2>2, LateList
<1>5. CASE MarkInUse(w, "fill") \/ StoreLink(w)
  <2>1. /\ Holds(w, idx[w]) /\ idx' = idx /\ pc[w] \in {"mark", "store"}
        /\ s # idx[w] => state'[s] = state[s]
        /\ pc'[w] = "fill" => pc[w] = "mark"
        /\ pc[w] = "mark" => state'[idx[w]] = InUse
    BY <1>1, <1>5 DEF MarkInUse, StoreLink, Holds, TypeOK
  <2>2. CASE s # idx[w]
    <3>1. conn[s] # "none" => state'[s] = InUse
      BY <1>1, <2>1, <2>2 DEF LateSlot
    <3>2. \A v \in Workers \ {w} : idx[v] = s /\ pc[v] \in {"fill", "put"} => state'[s] = InUse
      BY <1>1, <2>1, <2>2 DEF LateSlot
    <3> QED
      BY <1>1, <1>2, <1>3, <2>1, <2>2, <3>1, <3>2, LateList
  <2>3. CASE s = idx[w]
    <3>1. conn[s] = "none" /\ \A v \in Workers : Holds(v, s) => v = w
      BY <1>1, <2>1, <2>3 DEF Accounted, Live
    <3>2. \A v \in Workers \ {w} : ~(idx[v] = s /\ pc[v] \in {"fill", "put"})
      BY <3>1 DEF Holds
    <3> QED
      BY <1>1, <1>2, <1>3, <2>1, <2>3, <3>1, <3>2, LateList
  <2> QED
    BY <2>2, <2>3
<1>6. CASE LoadHead(w) \/ TakeHead(w) \/ ReadHead(w) \/ SwingHead(w)
  BY <1>1, <1>4, <1>6 DEF LoadHead, TakeHead, ReadHead, SwingHead, TypeOK
<1>7. CASE LoadLink(w)
  <2>1. UNCHANGED state /\ pc'[w] \in {"insert", "panicked", "take"}
    <3>1. InUse # End
      BY LinkFacts
    <3> QED
      BY <1>1, <1>7, <3>1 DEF LoadLink, TypeOK
  <2> QED
    BY <1>4, <2>1
<1> QED
  BY <1>2, <1>5, <1>6, <1>7 DEF Pop, Push

LEMMA ListKept ==
  ASSUME NEW n, NEW p, Good(n, p), NEW w \in Workers, InsertStep(w) \/ PushStep(w)
  PROVE  \E m, q : Kept(m, q)'
<1>1. /\ \A s \in Slot : LateSlot(s)'
      /\ Pop(w) \/ MarkInUse(w, "fill") \/ Push(w)
      /\ UNCHANGED gateVars
  BY ListLate DEF InsertStep, PushStep
<1>2. CASE \/ LoadHead(w) \/ LoadLink(w) \/ (TakeHead(w) /\ next # idx[w])
           \/ ReadHead(w) \/ (SwingHead(w) /\ next # nxt[w])
  <2>1. UNCHANGED <<state, next>>
    BY <1>2 DEF LoadHead, LoadLink, TakeHead, ReadHead, SwingHead
  <2>2. Kept(n, p)'
    BY <1>1, <1>2, <2>1, ReadStep DEF Good, Kept, Slot
  <2> QED
    BY <2>2
<1>3. CASE MarkInUse(w, "fill") \/ StoreLink(w)
  <2>1. Kept(n, p)'
    BY <1>1, <1>3, WriteStep DEF Good, Kept, Slot
  <2> QED
    BY <2>1
<1>4. CASE TakeHead(w) /\ next = idx[w]
  <2> DEFINE q == [i \in 0 .. n - 1 |-> p[i + 1]]
  <2>1. /\ n - 1 \in Nat /\ q \in [0 .. n - 1 -> Slot]
        /\ IsList(n - 1, q)' /\ Locals(n - 1, q)' /\ \A s \in Slot : Accounted(n - 1, q, s)'
    BY <1>1, <1>4, PopStep
  <2> HIDE DEF q
  <2>2. Kept(n - 1, q)'
    BY <1>1, <2>1 DEF Kept, Slot
  <2> QED
    BY <2>2
<1>5. CASE SwingHead(w) /\ next = nxt[w]
  <2>1. PICK r \in Slot : r = idx[w]
    BY DEF Good, TypeOK
  <2> DEFINE q == [i \in 0 .. n + 1 |-> IF i = 0 THEN r ELSE p[i - 1]]
  <2>2. /\ n + 1 \in Nat /\ q \in [0 .. n + 1 -> Slot]
        /\ IsList(n + 1, q)' /\ Locals(n + 1, q)' /\ \A s \in Slot : Accounted(n + 1, q, s)'
    BY <1>1, <1>5, <2>1, PushedStep
  <2> HIDE DEF q
  <2>3. Kept(n + 1, q)'
    BY <1>1, <2>2 DEF Kept, Slot
  <2> QED
    BY <2>3
<1> QED
  BY <1>1, <1>2, <1>3, <1>4, <1>5 DEF Pop, Push

LEMMA GoodInit == Init => \E n, p : Good(n, p)
<1> SUFFICES ASSUME Init PROVE \E n, p : Good(n, p)
  OBVIOUS
<1> DEFINE n == NSlots - 1
           p == [i \in 0 .. n |-> i]
<1>1. n \in Nat /\ p \in [0 .. n -> Slot]
  BY SlotsAssumption DEF Slot
<1>2. TypeOK /\ LinksAreSlots
  BY TypeInit
<1>3. \A w \in Workers : pc[w] = "idle"
  BY DEF Init
<1>4. IsList(n, p)
  BY SlotsAssumption DEF IsList, Init, ListInit, InitState, Slot, End
<1>5. Calm /\ LockExclusion /\ Locals(n, p)
  BY <1>3 DEF Init, GateInit, Calm, LockExclusion, Locals, Inserting, InGuard, At
<1>6. \A s \in Slot : conn[s] = "none" /\ events[s] = {} /\ ready[s] = {}
  BY DEF Init, GateInit
<1>7. \A s \in Slot, w \in Workers : ~Owner(w, s) /\ ~Holds(w, s) /\ batch[w][s] = {}
  BY <1>3 DEF Owner, Holds, Init, GateInit
<1>8. LateOnly
  BY <1>3, <1>6, <1>7 DEF LateOnly
<1>9. ASSUME NEW s \in Slot PROVE Accounted(n, p, s)
  <2>1. s \in 0 .. n /\ p[s] = s
    BY DEF Slot
  <2>2. On(n, p, s)
    BY <2>1 DEF On
  <2> QED
    BY <1>6, <1>7, <2>2 DEF Accounted, Live, Sound
<1> HIDE DEF n, p
<1> QED
  BY <1>1, <1>2, <1>4, <1>5, <1>8, <1>9 DEF Good

LEMMA GoodStep ==
  ASSUME NEW n, NEW p, Good(n, p), [Next]_vars
  PROVE  \E m, q : Good(m, q)'
<1> SUFFICES \E m, q : Kept(m, q)'
  BY KeptIsGood
<1> USE DEF gateVars, listVars, loopVars, history
<1>0. /\ \A s \in Slot : ready[s] # {} => conn[s] = "registered"
      /\ TypeOK
  BY LateSlots DEF Good, LateSlot
<1>1. ASSUME UNCHANGED <<pc, idx, state, listVars, gateVars, history>> PROVE Kept(n, p)'
  BY <1>0, <1>1, EnvStep
<1>2. ASSUME Connect PROVE Kept(n, p)'
  BY <1>1, <1>2 DEF Connect
<1>3. ASSUME NEW s \in Slot, NEW K \in SUBSET Kinds \ {{}}, Edge(s, K) PROVE Kept(n, p)'
  BY <1>0, <1>3, EnvStep DEF Edge, Raise, TypeOK, GateTypeOK
<1>4. ASSUME NEW w \in Workers, Poll(w) PROVE Kept(n, p)'
  <2>1. CASE PollEvents(w)
    <3>1. UNCHANGED <<pc, idx, state, listVars, events, conn, remove, history>>
      BY <1>4, <2>1 DEF Poll, PollEvents
    <3> QED
      BY <2>1, <3>1, PollStep, EnvStep
  <2>2. CASE ~PollEvents(w)
    BY <1>1, <1>4, <2>2 DEF Poll
  <2> QED
    BY <2>1, <2>2
<1>5. ASSUME NEW w \in Workers, DispatchListener(w) \/ AcceptDone(w) PROVE Kept(n, p)'
  BY <1>1, <1>5 DEF DispatchListener, AcceptDone
<1>6. CASE UNCHANGED vars
  BY <1>1, <1>6 DEF vars
<1> QED
  BY <1>2, <1>3, <1>4, <1>5, <1>6, DispatchStep, AcceptStep, ListKept, LockSlotStep, PutStep,
     GateKept DEF Next, Work

LEMMA GoodIsIInv == IInv <=> \E n, p : Good(n, p)
<1>1. ASSUME IInv PROVE \E n, p : Good(n, p)
  <2>1. PICK n \in 0 .. NSlots - 1 : \E p \in [0 .. n -> Slot] :
               IsList(n, p) /\ Locals(n, p) /\ \A s \in Slot : Accounted(n, p, s)
    BY <1>1 DEF IInv
  <2>2. PICK p \in [0 .. n -> Slot] :
               IsList(n, p) /\ Locals(n, p) /\ \A s \in Slot : Accounted(n, p, s)
    BY <2>1
  <2>3. LinksAreSlots
    BY <2>2 DEF Locals, LinksAreSlots, At
  <2>4. n \in Nat
    BY SlotsAssumption
  <2>5. Good(n, p)
    BY <1>1, <2>2, <2>3, <2>4 DEF IInv, Good
  <2> QED
    BY <2>5
<1>2. ASSUME NEW n, NEW p, Good(n, p) PROVE IInv
  <2>1. n \in 0 .. NSlots - 1
    BY <1>2, ListFits DEF Good, IsList
  <2> QED
    BY <1>2, <2>1 DEF Good, IInv
<1> QED
  BY <1>1, <1>2

(* What a step preserves, with the list hidden again.                      *)
LEMMA InvNext == \A m, q : Good(m, q)' => IInv'
<1>1. \A m, q : Good(m, q) => IInv
  BY GoodIsIInv
<1>2. (\A m, q : Good(m, q) => IInv)'
  BY <1>1, PTL
<1> QED
  BY <1>2

LEMMA Inductive == Spec => []IInv
<1>1. Init => IInv
  BY GoodInit, GoodIsIInv
<1>2. IInv /\ [Next]_vars => IInv'
  <2> SUFFICES ASSUME IInv, [Next]_vars PROVE IInv'
    OBVIOUS
  <2>1. PICK n, p : Good(n, p)
    BY GoodIsIInv
  <2> QED
    BY <2>1, GoodStep, InvNext
<1> QED
  BY <1>1, <1>2, PTL DEF Spec

-----------------------------------------------------------------------------
(* The stack.                                                              *)

LEMMA GoodIsListed == \A n, p : Good(n, p) => Listed(n, p)
BY DEF Good, Listed

LEMMA ListStack ==
  ASSUME NEW n, NEW p, Good(n, p), NEW w \in Workers, InsertStep(w) \/ PushStep(w)
  PROVE  [Stack!Next]_Contents
<1>1. /\ Pop(w) \/ MarkInUse(w, "fill") \/ Push(w)
      /\ UNCHANGED gateVars
  BY DEF InsertStep, PushStep
<1>2. Listed(n, p) /\ n \in Nat /\ p \in [0 .. n -> Slot]
  BY GoodIsListed DEF Good
<1>3. CASE \/ LoadHead(w) \/ LoadLink(w) \/ (TakeHead(w) /\ next # idx[w])
           \/ ReadHead(w) \/ (SwingHead(w) /\ next # nxt[w])
  <2>1. UNCHANGED <<state, next>>
    BY <1>3 DEF LoadHead, LoadLink, TakeHead, ReadHead, SwingHead
  <2>2. Listed(n, p)'
    BY <1>1, <1>2, <1>3, <2>1, ReadStep DEF Listed, Slot
  <2> QED
    BY <1>2, <2>2, StackStays
<1>4. CASE MarkInUse(w, "fill") \/ StoreLink(w)
  <2>1. Listed(n, p)'
    BY <1>1, <1>2, <1>4, WriteStep DEF Listed, Slot
  <2> QED
    BY <1>2, <2>1, StackStays
<1>5. CASE TakeHead(w) /\ next = idx[w]
  <2> DEFINE q == [i \in 0 .. n - 1 |-> p[i + 1]]
  <2>1. n - 1 \in Nat /\ q \in [0 .. n - 1 -> Slot] /\ IsList(n - 1, q)'
    BY <1>1, <1>5, PopStep
  <2>2. Listed(n - 1, q)' /\ n > 0
    BY <1>2, <2>1 DEF Listed, Slot
  <2> QED
    BY <1>2, <2>2, StackTakes
<1>6. CASE SwingHead(w) /\ next = nxt[w]
  <2>1. PICK r \in Slot : r = idx[w]
    BY DEF Good, TypeOK
  <2> DEFINE q == [i \in 0 .. n + 1 |-> IF i = 0 THEN r ELSE p[i - 1]]
  <2>2. n + 1 \in Nat /\ q \in [0 .. n + 1 -> Slot] /\ IsList(n + 1, q)'
    BY <1>1, <1>6, <2>1, PushedStep
  <2>3. Listed(n + 1, q)'
    BY <2>2 DEF Listed, Slot
  <2>4. Holds(w, r)
    BY <1>6, <2>1 DEF SwingHead, Holds, At
  <2>5. ~On(n, p, r)
    BY <2>4 DEF Good, Accounted
  <2> QED
    BY <1>2, <2>3, <2>5, StackGives
<1> QED
  BY <1>1, <1>3, <1>4, <1>5, <1>6 DEF Pop, Push

(* The event protocol writes neither the head nor the word of a slot.      *)
LEMMA OthersKeepList ==
  ASSUME TypeOK, [Next]_vars, \A w \in Workers : ~InsertStep(w) /\ ~PushStep(w)
  PROVE  UNCHANGED <<state, next>>
<1> USE DEF listVars
<1>1. CASE Connect \/ UNCHANGED vars
  BY <1>1 DEF Connect, vars
<1>2. ASSUME NEW s \in Slot, NEW K \in SUBSET Kinds \ {{}}, Edge(s, K)
      PROVE  UNCHANGED <<state, next>>
  BY <1>2 DEF Edge, Raise
<1>3. ASSUME NEW w \in Workers, Poll(w) PROVE UNCHANGED <<state, next>>
  BY <1>3 DEF Poll, PollEvents
<1>4. ASSUME NEW w \in Workers, EventStep(w) PROVE UNCHANGED <<state, next>>
  BY <1>4, GateFrame DEF EventStep
<1>5. ASSUME NEW w \in Workers, \/ DispatchListener(w) \/ \E s \in Slot : DispatchEvent(w, s)
                               \/ Accept(w) \/ AcceptDone(w) \/ LockSlot(w) \/ PutConnection(w)
      PROVE  UNCHANGED <<state, next>>
  BY <1>5 DEF DispatchListener, DispatchEvent, Dispatch, Accept, AcceptDone, LockSlot, PutConnection
<1> QED
  BY <1>1, <1>2, <1>3, <1>4, <1>5 DEF Next, Work

LEMMA StackStep == IInv /\ [Next]_vars => [Stack!Next]_Contents
<1> SUFFICES ASSUME IInv, [Next]_vars PROVE [Stack!Next]_Contents
  OBVIOUS
<1>1. PICK n, p : Good(n, p)
  BY GoodIsIInv
<1>2. ASSUME \A w \in Workers : ~InsertStep(w) /\ ~PushStep(w) PROVE UNCHANGED Contents
  <2>1. UNCHANGED <<state, next>>
    BY <1>1, <1>2, OthersKeepList DEF Good
  <2>2. Listed(n, p) /\ Listed(n, p)'
    BY <1>1, <2>1, GoodIsListed DEF Listed, IsList, Slot
  <2> QED
    BY <2>2, StackStays
<1> QED
  BY <1>1, <1>2, ListStack

-----------------------------------------------------------------------------
(* The theorems.                                                           *)

(* Whatever is late, and however often slots are used again: the free list *)
(* is a list, what insert and remove have loaded of it stays true, every   *)
(* slot is on it, live, held by one worker or lost with a worker, and only *)
(* a late worker posts to, or owns, a slot without a connection.           *)
THEOREM Invariance == Spec => []IInv
BY Inductive

(* Lock::try_lock and the drop of its guard exclude, although insert fills *)
(* a slot that a late event's worker may be handling.                      *)
THEOREM LockIsExclusive == Spec => []LockExclusion
<1>1. IInv => LockExclusion
  BY DEF IInv
<1> QED
  BY <1>1, Inductive, PTL

(* Over all lifetimes of a slot, a live connection has one owner, and bit  *)
(* 0 of Slot::events is on as long as it has one: try_connection's         *)
(* fetch_or, swap and compare_exchange need no lock for it.                *)
THEOREM OwnerIsUnique == Spec => []SingleOwner
<1>1. IInv => SingleOwner
  BY DEF IInv, SingleOwner, Accounted
<1> QED
  BY <1>1, Inductive, PTL

(* No slot gets lost but with a worker that died over it, and none is      *)
(* handed out while it is in use: try_connection and the free list agree.  *)
THEOREM EverySlotIsAccountedFor == Spec => []SlotsAccountedFor
<1>1. ASSUME NEW n, NEW p, Good(n, p) PROVE SlotsAccountedFor
  <2>1. n \in 0 .. NSlots - 1 /\ Walk = Along(n, p) /\ n \in Nat
    BY <1>1, ListFits, WalkAlong DEF Good, IsList
  <2>2. ASSUME NEW s \in Slot PROVE s \in OnList <=> On(n, p, s)
    <3>1. \A k \in 0 .. NSlots - 1 : Walk[k] = IF k <= n THEN p[k] ELSE End
      BY <2>1, SlotsAssumption DEF Along
    <3>2. \A i \in 0 .. n : i \in 0 .. NSlots - 1 /\ i <= n
      BY <2>1, SlotsAssumption
    <3>3. \A k \in 0 .. NSlots - 1 : k <= n => k \in 0 .. n
      BY <2>1, SlotsAssumption
    <3>4. s # End
      BY LinkFacts
    <3> QED
      BY <3>1, <3>2, <3>3, <3>4 DEF OnList, On
  <2>3. ASSUME NEW s \in Slot PROVE Accounted(n, p, s)
    BY <1>1 DEF Good
  <2> QED
    BY <2>2, <2>3 DEF SlotsAccountedFor, Accounted
<1>2. IInv => SlotsAccountedFor
  BY <1>1, GoodIsIInv
<1> QED
  BY <1>2, Inductive, PTL

-----------------------------------------------------------------------------
(* Deaths.                                                                 *)

(* The owner of a slot that is not live is late.                           *)
LEMMA OwnerOfDeadIsLate ==
  ASSUME NEW n, NEW p, Good(n, p), NEW w \in Workers, NEW s \in Slot, Owner(w, s), ~Live(s)
  PROVE  w \in late
BY LateSlots DEF Good, LateSlot

LEMMA GateKill ==
  ASSUME NEW n, NEW p, Good(n, p), NEW w \in Workers, GateStep(w), pc'[w] = "panicked"
  PROVE  HandlePanic(w) \/ \E v \in late : idx[v] = idx[w]
<1> DEFINE Goal == HandlePanic(w) \/ \E v \in late : idx[v] = idx[w]
<1> USE DEF At, Goto, Panic
<1>0. PICK s \in Slot : s = idx[w]
  BY DEF Good, TypeOK
<1>1. TypeOK /\ LockExclusion /\ Accounted(n, p, s) /\ LateSlot(s)
  BY LateSlots DEF Good
<1>2. Owner(w, s) /\ ~Live(s) => Goal
  BY <1>0, OwnerOfDeadIsLate
<1>3. ASSUME AssertInUse(w) PROVE Goal
  <2>1. pc[w] = "check" /\ state[s] # InUse
    BY <1>0, <1>1, <1>3 DEF AssertInUse, TypeOK
  <2> QED
    BY <1>0, <1>1, <2>1 DEF LateSlot
<1>4. ASSUME TakeEvents(w) PROVE Goal
  <2>1. Owner(w, s) /\ Owned \notin events[s]
    BY <1>0, <1>1, <1>4 DEF TakeEvents, TypeOK, Owner
  <2> QED
    BY <1>1, <1>2, <2>1 DEF Accounted, Sound
<1>5. ASSUME LockConn(w) PROVE Goal
  <2>1. Owner(w, s) /\ locked[s] /\ pc[w] = "lock"
    BY <1>0, <1>1, <1>5 DEF LockConn, TypeOK, Owner
  <2> QED
    BY <1>0, <1>1, <1>2, <2>1, LiveIsNotLocked
<1>6. ASSUME HandleNone(w) PROVE Goal
  <2>1. Owner(w, s) /\ ~remove[w] /\ conn[s] = "none"
    BY <1>0, <1>6 DEF HandleNone, Owner
  <2> QED
    BY <1>1, <1>2, <2>1 DEF Accounted, Sound, Live
<1>7. ASSUME AssertQuiet(w) PROVE Goal
  <2>1. Holds(w, s) /\ events[s] # {}
    BY <1>0, <1>1, <1>7 DEF AssertQuiet, TypeOK, Holds
  <2>2. Owned \in events[s] /\ ~Live(s)
    BY <1>1, <2>1 DEF Accounted, Sound
  <2> QED
    BY <1>0, <1>1, <2>2 DEF LateSlot, Owner
<1>8. ASSUME \/ PostEvents(w) \/ Release(w) \/ Register(w) \/ HandleKeep(w)
             \/ HandleRemove(w) \/ Unlock(w)
      PROVE  FALSE
  BY <1>1, <1>8 DEF TypeOK, PostEvents, Release, Register, HandleKeep, HandleRemove, Unlock
<1> QED
  BY <1>3, <1>4, <1>5, <1>6, <1>7, <1>8 DEF GateStep, Handle

LEMMA KillStep ==
  ASSUME NEW n, NEW p, Good(n, p), [Next]_vars, NEW w \in Workers,
         ~At(w, "panicked"), At(w, "panicked")'
  PROVE  HandlePanic(w) \/ LoadLink(w) \/ \E v \in late : idx[v] = idx[w]
<1> DEFINE Goal == HandlePanic(w) \/ LoadLink(w) \/ \E v \in late : idx[v] = idx[w]
<1> USE DEF At, Goto, Panic
<1>1. TypeOK
  BY DEF Good
<1>2. ASSUME UNCHANGED pc PROVE FALSE
  BY <1>2
<1>3. ASSUME NEW u \in Workers, NEW s \in Slot, DispatchEvent(u, s) PROVE FALSE
  BY <1>1, <1>3 DEF DispatchEvent, Dispatch, TypeOK
<1>4. ASSUME NEW u \in Workers, Accept(u) \/ PutConnection(u) PROVE FALSE
  BY <1>1, <1>4 DEF Accept, PutConnection, TypeOK
<1>5. ASSUME NEW u \in Workers, InsertStep(u) \/ PushStep(u) PROVE Goal
  <2>1. Pop(u) \/ MarkInUse(u, "fill") \/ Push(u)
    BY <1>5 DEF InsertStep, PushStep
  <2>2. u = w
    BY <1>1, <2>1, ListFrame
  <2>3. CASE MarkInUse(w, "fill")
    <3>1. pc'[w] = "fill"
      BY <1>1, <2>3 DEF MarkInUse, TypeOK, Good, Locals
    <3> QED
      BY <3>1
  <2>4. CASE Pop(w) \/ Push(w)
    BY <1>1, <2>4 DEF Pop, Push, LoadHead, TakeHead, ReadHead, StoreLink, SwingHead, TypeOK
  <2> QED
    BY <2>1, <2>2, <2>3, <2>4
<1>6. ASSUME NEW u \in Workers, LockSlot(u) PROVE Goal
  <2>1. u = w /\ pc[w] = "fill" /\ locked[idx[w]]
    BY <1>1, <1>6 DEF LockSlot, TypeOK
  <2>2. PICK s \in Slot : s = idx[w]
    BY <1>1 DEF TypeOK
  <2>3. PICK v \in Workers : InGuard(v, s)
    BY <2>1, <2>2 DEF Good, LockExclusion
  <2>4. Holds(w, s) /\ v # w /\ (Owner(v, s) \/ Holds(v, s))
    BY <2>1, <2>2, <2>3 DEF Holds, Owner, InGuard
  <2>5. ~Live(s) /\ Owner(v, s)
    BY <2>4 DEF Good, Accounted
  <2>6. v \in late
    BY <2>5, OwnerOfDeadIsLate
  <2> QED
    BY <2>2, <2>5, <2>6 DEF Owner
<1>7. ASSUME NEW u \in Workers, EventStep(u) PROVE Goal
  <2>1. u = w /\ GateStep(w)
    BY <1>1, <1>7, GateFrame DEF EventStep
  <2> QED
    BY <2>1, GateKill
<1> QED
  BY <1>2, <1>3, <1>4, <1>5, <1>6, <1>7
     DEF Next, Work, Connect, Edge, Raise, Poll, PollEvents, DispatchListener, AcceptDone, vars

(* The assertions of try_connection, remove and insert fail only because   *)
(* of a late event for the same slot; apart from that a worker dies in the *)
(* handler of its connection or at the end of the free list.               *)
THEOREM OnlyLateEventsDoKill == Spec => OnlyLateEventsKill
<1>1. IInv /\ [Next]_vars =>
        [\A w \in Workers :
           ~At(w, "panicked") /\ At(w, "panicked")'
             => \/ HandlePanic(w) \/ LoadLink(w)
                \/ \E v \in late : idx[v] = idx[w]]_vars
  BY GoodIsIInv, KillStep
<1> QED
  BY <1>1, Inductive, PTL DEF Spec, OnlyLateEventsKill

(* Whatever is late, and however often slots are used again: the free list *)
(* is the stack it is without the event protocol around it.  insert and    *)
(* remove move a slot in the one step of their successful CAS, and nothing *)
(* that try_connection does, for a slot that may be free, disturbs it.     *)
THEOREM Refinement == Spec => IsStack
<1>1. Init => Stack!Init
  BY StackStarts DEF Init
<1> QED
  BY <1>1, StackStep, Inductive, PTL DEF Spec, IsStack, Stack!Spec
=============================================================================
