-------------------------- MODULE EventGateProofs ---------------------------
(***************************************************************************)
(* IInv is an inductive invariant of EventGate for any number of workers,  *)
(* slots and event kinds, and what follows from it; EventGate implements   *)
(* SerialHandler.                                                          *)
(***************************************************************************)
EXTENDS EventGate, TLAPS

LEMMA InitInv == Init => IInv
<1> SUFFICES ASSUME Init PROVE IInv
  OBVIOUS
<1> USE SlotsAssumption DEF Init, GateInit, Slot, Link, InUse, End, At
<1>1. TypeOK
  BY DEF TypeOK, GateTypeOK, GateLabels, ConnState
<1>2. Untouched
  BY DEF Untouched
<1>3. LockExclusion
  BY DEF LockExclusion, InGuard
<1>4. \A s \in Slot : ~Live(s)
  BY DEF Live, Owner
<1>5. RemovedOnce
  BY DEF RemovedOnce, Removing
<1> QED
  BY <1>1, <1>2, <1>3, <1>4, <1>5 DEF IInv, SingleOwner, LiveSlots

-----------------------------------------------------------------------------

(* Every action keeps the types.                                           *)
LEMMA TypeStep == TypeOK /\ [Next]_vars => TypeOK'
<1> SUFFICES ASSUME TypeOK, [Next]_vars PROVE TypeOK'
  OBVIOUS
<1> USE DEF TypeOK, GateTypeOK, GateLabels, ConnState, At, Goto, Panic, gateVars
<1>1. ASSUME NEW s \in Slot, NEW K \in SUBSET Kinds \ {{}}, Edge(s, K) PROVE TypeOK'
  BY <1>1 DEF Edge, Raise
<1>2. ASSUME NEW w \in Workers, Poll(w) PROVE TypeOK'
  BY <1>2 DEF Poll, PollEvents
<1>3. ASSUME NEW w \in Workers, Step(w) PROVE TypeOK'
  <2>1. ASSUME AssertInUse(w), UNCHANGED vacant PROVE TypeOK'
    BY <2>1 DEF AssertInUse
  <2>2. ASSUME PostEvents(w), UNCHANGED vacant PROVE TypeOK'
    BY <2>2 DEF PostEvents
  <2>3. ASSUME TakeEvents(w), UNCHANGED vacant PROVE TypeOK'
    BY <2>3 DEF TakeEvents
  <2>4. ASSUME Release(w), UNCHANGED vacant PROVE TypeOK'
    BY <2>4 DEF Release
  <2>5. ASSUME LockConn(w), UNCHANGED vacant PROVE TypeOK'
    BY <2>5 DEF LockConn
  <2>6. ASSUME HandleNone(w), UNCHANGED vacant PROVE TypeOK'
    BY <2>6 DEF HandleNone
  <2>7. ASSUME Register(w), UNCHANGED vacant PROVE TypeOK'
    BY <2>7 DEF Register
  <2>8. ASSUME HandleKeep(w), UNCHANGED vacant PROVE TypeOK'
    BY <2>8 DEF HandleKeep
  <2>9. ASSUME HandleRemove(w), UNCHANGED vacant PROVE TypeOK'
    BY <2>9 DEF HandleRemove
  <2>10. ASSUME HandlePanic(w), UNCHANGED vacant PROVE TypeOK'
    BY <2>10 DEF HandlePanic
  <2>11. ASSUME Unlock(w), UNCHANGED vacant PROVE TypeOK'
    BY <2>11 DEF Unlock
  <2>12. ASSUME AssertQuiet(w), UNCHANGED vacant PROVE TypeOK'
    BY <2>12 DEF AssertQuiet
  <2> QED
    BY <1>3, <2>1, <2>2, <2>3, <2>4, <2>5, <2>6, <2>7, <2>8, <2>9, <2>10, <2>11, <2>12
       DEF Step, GateStep, Handle
<1>4. ASSUME NEW w \in Workers, Push(w) PROVE TypeOK'
  BY <1>4 DEF Push
<1>5. ASSUME NEW w \in Workers, NEW s \in Slot, Insert(w, s) PROVE TypeOK'
  BY <1>5, SlotsAssumption DEF Insert, Slot, Link, InUse
<1>6. ASSUME NEW w \in Workers, NEW s \in Slot, Call(w, s) PROVE TypeOK'
  BY <1>6 DEF Call, Dispatch
<1>7. CASE UNCHANGED vars
  BY <1>7 DEF vars
<1> QED
  BY <1>1, <1>2, <1>3, <1>4, <1>5, <1>6, <1>7 DEF Next

(* Every action keeps Untouched: a call works on a slot that was handed out. *)
LEMMA UntouchedStep == TypeOK /\ Untouched /\ [Next]_vars => Untouched'
<1> SUFFICES ASSUME TypeOK, Untouched, [Next]_vars PROVE Untouched'
  OBVIOUS
<1> USE DEF Untouched, TypeOK, GateTypeOK, At, Goto, Panic, gateVars
<1>1. ASSUME NEW s \in Slot, NEW K \in SUBSET Kinds \ {{}}, Edge(s, K) PROVE Untouched'
  BY <1>1 DEF Edge, Raise
<1>2. ASSUME NEW w \in Workers, Poll(w) PROVE Untouched'
  BY <1>2 DEF Poll, PollEvents
<1>3. ASSUME NEW w \in Workers, Step(w) PROVE Untouched'
  <2>1. ASSUME AssertInUse(w), UNCHANGED vacant PROVE Untouched'
    BY <2>1 DEF AssertInUse
  <2>2. ASSUME PostEvents(w), UNCHANGED vacant PROVE Untouched'
    BY <2>2 DEF PostEvents
  <2>3. ASSUME TakeEvents(w), UNCHANGED vacant PROVE Untouched'
    BY <2>3 DEF TakeEvents
  <2>4. ASSUME Release(w), UNCHANGED vacant PROVE Untouched'
    BY <2>4 DEF Release
  <2>5. ASSUME LockConn(w), UNCHANGED vacant PROVE Untouched'
    BY <2>5 DEF LockConn
  <2>6. ASSUME HandleNone(w), UNCHANGED vacant PROVE Untouched'
    BY <2>6 DEF HandleNone
  <2>7. ASSUME Register(w), UNCHANGED vacant PROVE Untouched'
    BY <2>7 DEF Register
  <2>8. ASSUME HandleKeep(w), UNCHANGED vacant PROVE Untouched'
    BY <2>8 DEF HandleKeep
  <2>9. ASSUME HandleRemove(w), UNCHANGED vacant PROVE Untouched'
    BY <2>9 DEF HandleRemove
  <2>10. ASSUME HandlePanic(w), UNCHANGED vacant PROVE Untouched'
    BY <2>10 DEF HandlePanic
  <2>11. ASSUME Unlock(w), UNCHANGED vacant PROVE Untouched'
    BY <2>11 DEF Unlock
  <2>12. ASSUME AssertQuiet(w), UNCHANGED vacant PROVE Untouched'
    BY <2>12 DEF AssertQuiet
  <2> QED
    BY <1>3, <2>1, <2>2, <2>3, <2>4, <2>5, <2>6, <2>7, <2>8, <2>9, <2>10, <2>11, <2>12
       DEF Step, GateStep, Handle
<1>4. ASSUME NEW w \in Workers, Push(w) PROVE Untouched'
  BY <1>4 DEF Push
<1>5. ASSUME NEW w \in Workers, NEW s \in Slot, Insert(w, s) PROVE Untouched'
  BY <1>5 DEF Insert
<1>6. ASSUME NEW w \in Workers, NEW s \in Slot, Call(w, s) PROVE Untouched'
  BY <1>6 DEF Call, Dispatch
<1>7. CASE UNCHANGED vars
  BY <1>7 DEF vars
<1> QED
  BY <1>1, <1>2, <1>3, <1>4, <1>5, <1>6, <1>7 DEF Next

(* A step of one worker that stays out of the guarded region, or stays in  *)
(* it, leaves the exclusion of the lock alone.                             *)
LEMMA GuardFrame ==
  ASSUME TypeOK, LockExclusion, UNCHANGED locked, NEW w \in Workers,
         \A v \in Workers : v # w => pc'[v] = pc[v] /\ idx'[v] = idx[v],
         \/ pc[w] \notin {"handle", "unlock"} /\ pc'[w] \notin {"handle", "unlock"}
         \/ /\ pc[w] \in {"handle", "unlock"} /\ pc'[w] \in {"handle", "unlock"}
            /\ idx'[w] = idx[w]
  PROVE  LockExclusion'
<1>1. \A v \in Workers, s \in Slot : InGuard(v, s)' <=> InGuard(v, s)
  BY DEF InGuard
<1> QED
  BY <1>1 DEF LockExclusion

(* The lock excludes: its holder is the worker whose swap has found it     *)
(* free, and only the holder frees it.                                     *)
LEMMA LockStep == TypeOK /\ LockExclusion /\ [Next]_vars => LockExclusion'
<1> SUFFICES ASSUME TypeOK, LockExclusion, [Next]_vars PROVE LockExclusion'
  OBVIOUS
<1> USE DEF TypeOK, GateTypeOK, At, Goto, Panic, gateVars
<1>1. ASSUME NEW s \in Slot, NEW K \in SUBSET Kinds \ {{}}, Edge(s, K) PROVE LockExclusion'
  BY <1>1 DEF LockExclusion, InGuard, Edge, Raise
<1>2. ASSUME NEW w \in Workers, Poll(w) PROVE LockExclusion'
  BY <1>2 DEF LockExclusion, InGuard, Poll, PollEvents
<1>3. ASSUME NEW w \in Workers, Step(w) PROVE LockExclusion'
  <2>1. ASSUME AssertInUse(w), UNCHANGED vacant PROVE LockExclusion'
    BY <2>1, GuardFrame DEF AssertInUse
  <2>2. ASSUME PostEvents(w), UNCHANGED vacant PROVE LockExclusion'
    BY <2>2, GuardFrame DEF PostEvents
  <2>3. ASSUME TakeEvents(w), UNCHANGED vacant PROVE LockExclusion'
    BY <2>3, GuardFrame DEF TakeEvents
  <2>4. ASSUME Release(w), UNCHANGED vacant PROVE LockExclusion'
    BY <2>4, GuardFrame DEF Release
  <2>5. ASSUME LockConn(w), UNCHANGED vacant PROVE LockExclusion'
    <3>1. CASE locked[idx[w]]
      BY <2>5, <3>1, GuardFrame DEF LockConn
    <3>2. CASE ~locked[idx[w]]
      <4>1. PICK s \in Slot : s = idx[w]
        OBVIOUS
      <4>2. \A v \in Workers : ~InGuard(v, s)
        BY <3>2, <4>1 DEF LockExclusion
      <4>3. locked' = [locked EXCEPT ![s] = TRUE]
        BY <2>5, <4>1 DEF LockConn
      <4>4. \A v \in Workers, r \in Slot :
              InGuard(v, r)' <=> InGuard(v, r) \/ (v = w /\ r = s)
        BY <2>5, <3>2, <4>1, <4>2 DEF InGuard, LockConn
      <4> QED
        BY <4>2, <4>3, <4>4 DEF LockExclusion
    <3> QED
      BY <3>1, <3>2
  <2>6. ASSUME HandleNone(w), UNCHANGED vacant PROVE LockExclusion'
    BY <2>6 DEF LockExclusion, InGuard, HandleNone
  <2>7. ASSUME Register(w), UNCHANGED vacant PROVE LockExclusion'
    BY <2>7, GuardFrame DEF Register
  <2>8. ASSUME HandleKeep(w), UNCHANGED vacant PROVE LockExclusion'
    BY <2>8, GuardFrame DEF HandleKeep
  <2>9. ASSUME HandleRemove(w), UNCHANGED vacant PROVE LockExclusion'
    BY <2>9, GuardFrame DEF HandleRemove
  <2>10. ASSUME HandlePanic(w), UNCHANGED vacant PROVE LockExclusion'
    BY <2>10 DEF LockExclusion, InGuard, HandlePanic
  <2>11. ASSUME Unlock(w), UNCHANGED vacant PROVE LockExclusion'
    BY <2>11 DEF LockExclusion, InGuard, Unlock
  <2>12. ASSUME AssertQuiet(w), UNCHANGED vacant PROVE LockExclusion'
    BY <2>12, GuardFrame DEF AssertQuiet
  <2> QED
    BY <1>3, <2>1, <2>2, <2>3, <2>4, <2>5, <2>6, <2>7, <2>8, <2>9, <2>10, <2>11, <2>12
       DEF Step, GateStep, Handle
<1>4. ASSUME NEW w \in Workers, Push(w) PROVE LockExclusion'
  BY <1>4, GuardFrame DEF Push
<1>5. ASSUME NEW w \in Workers, NEW s \in Slot, Insert(w, s) PROVE LockExclusion'
  BY <1>5, GuardFrame DEF Insert
<1>6. ASSUME NEW w \in Workers, NEW s \in Slot, Call(w, s) PROVE LockExclusion'
  BY <1>6, GuardFrame DEF Call, Dispatch
<1>7. CASE UNCHANGED vars
  BY <1>7 DEF LockExclusion, InGuard, vars
<1> QED
  BY <1>1, <1>2, <1>3, <1>4, <1>5, <1>6, <1>7 DEF Next

-----------------------------------------------------------------------------
(* The part of the invariant that is about ownership and removal, slot by  *)
(* slot.                                                                   *)

OwnedOnce(s) ==
  /\ \A v, w \in Workers : Holder(v, s) /\ Holder(w, s) => v = w
  /\ Owned \in events[s] <=> \E w \in Workers : Holder(w, s)
  /\ Owned \notin events[s] => events[s] = {}
  /\ state[s] = InUse
  /\ \A w \in Workers : /\ ~Removing(w, s)
                        /\ Owner(w, s) => (remove[w] <=> conn[s] = "none")

RemovedOnceAt(s) ==
  \A v, w \in Workers : Removing(v, s) /\ Removing(w, s) => v = w /\ ~Live(s)

LEMMA SlotBySlot ==
  IInv <=> /\ TypeOK /\ Untouched /\ LockExclusion
           /\ \A s \in Slot : RemovedOnceAt(s) /\ (Live(s) => OwnedOnce(s))
BY DEF IInv, SingleOwner, LiveSlots, RemovedOnce, OwnedOnce, RemovedOnceAt

(* A slot that was handed out and is not live stays so, and nobody starts  *)
(* to remove it.                                                           *)
LEMMA DeadStep ==
  ASSUME TypeOK, [Next]_vars, NEW s \in Slot, s \notin vacant, ~Live(s)
  PROVE  /\ ~Live(s)'
         /\ \A v \in Workers : Removing(v, s)' => Removing(v, s)
<1> DEFINE Dead == /\ ~Live(s)'
                   /\ \A v \in Workers : Removing(v, s)' => Removing(v, s)
<1> SUFFICES Dead
  OBVIOUS
<1> USE DEF TypeOK, GateTypeOK, At, Goto, Panic, gateVars, Live, Owner, Removing
<1>1. ASSUME NEW r \in Slot, NEW K \in SUBSET Kinds \ {{}}, Edge(r, K) PROVE Dead
  BY <1>1 DEF Edge, Raise
<1>2. ASSUME NEW w \in Workers, Poll(w) PROVE Dead
  BY <1>2 DEF Poll, PollEvents
<1>3. ASSUME NEW w \in Workers, Step(w) PROVE Dead
  <2>1. ASSUME AssertInUse(w) PROVE Dead
    BY <2>1 DEF AssertInUse
  <2>2. ASSUME PostEvents(w) PROVE Dead
    BY <2>2 DEF PostEvents
  <2>3. ASSUME TakeEvents(w) PROVE Dead
    BY <2>3 DEF TakeEvents
  <2>4. ASSUME Release(w) PROVE Dead
    BY <2>4 DEF Release
  <2>5. ASSUME LockConn(w) PROVE Dead
    BY <2>5 DEF LockConn
  <2>6. ASSUME HandleNone(w) PROVE Dead
    BY <2>6 DEF HandleNone
  <2>7. ASSUME Register(w) PROVE Dead
    BY <2>7 DEF Register
  <2>8. ASSUME HandleKeep(w) PROVE Dead
    BY <2>8 DEF HandleKeep
  <2>9. ASSUME HandleRemove(w) PROVE Dead
    BY <2>9 DEF HandleRemove
  <2>10. ASSUME HandlePanic(w) PROVE Dead
    BY <2>10 DEF HandlePanic
  <2>11. ASSUME Unlock(w) PROVE Dead
    BY <2>11 DEF Unlock
  <2>12. ASSUME AssertQuiet(w) PROVE Dead
    BY <2>12 DEF AssertQuiet
  <2> QED
    BY <1>3, <2>1, <2>2, <2>3, <2>4, <2>5, <2>6, <2>7, <2>8, <2>9, <2>10, <2>11, <2>12
       DEF Step, GateStep, Handle
<1>4. ASSUME NEW w \in Workers, Push(w) PROVE Dead
  BY <1>4 DEF Push
<1>5. ASSUME NEW w \in Workers, NEW r \in Slot, Insert(w, r) PROVE Dead
  BY <1>5 DEF Insert
<1>6. ASSUME NEW w \in Workers, NEW r \in Slot, Call(w, r) PROVE Dead
  BY <1>6 DEF Call, Dispatch
<1>7. CASE UNCHANGED vars
  BY <1>7 DEF vars
<1> QED
  BY <1>1, <1>2, <1>3, <1>4, <1>5, <1>6, <1>7 DEF Next

(* The labels at which a worker owns, removes or has died over its slot.   *)
Busy(w, s) == Holder(w, s) \/ Removing(w, s)

GoodAt(s) == RemovedOnceAt(s) /\ (Live(s) => OwnedOnce(s))

(* A step of w that is not about s, before or after, leaves s as it is.    *)
LEMMA OtherSlot ==
  ASSUME NEW s \in Slot, NEW w \in Workers, RemovedOnceAt(s), OwnedOnce(s), Live(s),
         \A v \in Workers : v # w =>
            pc'[v] = pc[v] /\ idx'[v] = idx[v] /\ remove'[v] = remove[v],
         conn'[s] = conn[s], events'[s] = events[s], state'[s] = state[s],
         ~Busy(w, s), ~Busy(w, s)'
  PROVE  GoodAt(s)'
<1>1. \A v \in Workers : /\ Holder(v, s)' <=> Holder(v, s)
                         /\ Owner(v, s)' <=> Owner(v, s)
                         /\ Owner(v, s) => remove'[v] = remove[v]
                         /\ ~Removing(v, s)'
  BY DEF Busy, Holder, Owner, Removing, OwnedOnce
<1>2. OwnedOnce(s)'
  BY <1>1 DEF OwnedOnce
<1>3. RemovedOnceAt(s)'
  BY <1>1 DEF RemovedOnceAt
<1> QED
  BY <1>2, <1>3 DEF GoodAt

(* A step of the owner of s that keeps it the owner, and changes neither   *)
(* what it knows about the connection nor bit 0, keeps s good.             *)
LEMMA OwnerStays ==
  ASSUME NEW s \in Slot, NEW w \in Workers, RemovedOnceAt(s), OwnedOnce(s), Live(s),
         \A v \in Workers : v # w => pc'[v] = pc[v],
         UNCHANGED <<idx, state, remove>>,
         (conn[s] = "none")' <=> conn[s] = "none",
         Owner(w, s), Owner(w, s)', Owned \in events'[s]
  PROVE  GoodAt(s)'
<1>1. \A v \in Workers : /\ Holder(v, s)' <=> Holder(v, s)
                         /\ Owner(v, s)' <=> Owner(v, s)
                         /\ ~Removing(v, s)'
  BY DEF Holder, Owner, Removing, OwnedOnce
<1>2. OwnedOnce(s)'
  BY <1>1 DEF OwnedOnce, Holder
<1>3. RemovedOnceAt(s)'
  BY <1>1 DEF RemovedOnceAt
<1> QED
  BY <1>2, <1>3 DEF GoodAt

(* A live slot stays good.                                                 *)
LEMMA LiveStep ==
  ASSUME IInv, [Next]_vars, NEW s \in Slot, Live(s)
  PROVE  GoodAt(s)'
<1>0. /\ TypeOK /\ Untouched /\ LockExclusion
      /\ RemovedOnceAt(s) /\ OwnedOnce(s) /\ s \notin vacant
  <2>1. s \notin vacant
    BY DEF IInv, Untouched, Live, Owner, At
  <2> QED
    BY <2>1, SlotBySlot
<1> USE <1>0 DEF TypeOK, GateTypeOK, At, Goto, Panic, gateVars
<1>1. ASSUME NEW r \in Slot, NEW K \in SUBSET Kinds \ {{}}, Edge(r, K) PROVE GoodAt(s)'
  BY <1>1 DEF Edge, Raise, GoodAt, OwnedOnce, RemovedOnceAt, Live, Holder, Owner, Removing
<1>2. ASSUME NEW w \in Workers, Poll(w) PROVE GoodAt(s)'
  BY <1>2, OtherSlot DEF Poll, PollEvents, Busy, Holder, Owner, Removing
<1>3. ASSUME NEW w \in Workers, Step(w), idx[w] # s PROVE GoodAt(s)'
  <2>1. UNCHANGED idx /\ \A v \in Workers : v # w => pc'[v] = pc[v] /\ remove'[v] = remove[v]
    BY <1>3 DEF Step, GateStep, Handle,
       AssertInUse, PostEvents, TakeEvents, Release, LockConn, HandleNone,
       Register, HandleKeep, HandleRemove, HandlePanic, Unlock, AssertQuiet
  <2>2. conn'[s] = conn[s] /\ events'[s] = events[s] /\ state'[s] = state[s]
    BY <1>3 DEF Step, GateStep, Handle,
       AssertInUse, PostEvents, TakeEvents, Release, LockConn, HandleNone,
       Register, HandleKeep, HandleRemove, HandlePanic, Unlock, AssertQuiet
  <2> QED
    BY <1>3, <2>1, <2>2, OtherSlot DEF Busy, Holder, Owner, Removing
<1>4. ASSUME NEW w \in Workers, Step(w), idx[w] = s PROVE GoodAt(s)'
  <2>1. ASSUME AssertInUse(w) PROVE GoodAt(s)'
    <3>1. state[idx[w]] = InUse
      BY <1>4 DEF OwnedOnce
    <3> QED
      BY <1>4, <2>1, <3>1, OtherSlot DEF AssertInUse, Busy, Holder, Owner, Removing
  <2>2. ASSUME PostEvents(w) PROVE GoodAt(s)'
    BY <1>4, <2>2 DEF PostEvents, GoodAt, OwnedOnce, RemovedOnceAt, Live, Holder, Owner, Removing
  <2>3. ASSUME TakeEvents(w) PROVE GoodAt(s)'
    <3>1. Owner(w, s) /\ Owned \in events[s]
      BY <1>4, <2>3 DEF TakeEvents, Owner, Holder, OwnedOnce
    <3>2. pc' = [pc EXCEPT ![w] = "cas"] \/ pc' = [pc EXCEPT ![w] = "lock"]
      BY <1>4, <2>3, <3>1 DEF TakeEvents
    <3>3. Owner(w, s)'
      BY <1>4, <2>3, <3>2 DEF TakeEvents, Owner
    <3> QED
      BY <1>4, <2>3, <3>1, <3>2, <3>3, OwnerStays DEF TakeEvents
  <2>4. ASSUME Release(w) PROVE GoodAt(s)'
    <3>1. Owner(w, s) /\ Owned \in events[s]
      BY <1>4, <2>4 DEF Release, Owner, Holder, OwnedOnce
    <3>2. CASE events[s] # {Owned}
      BY <1>4, <2>4, <3>1, <3>2, OwnerStays DEF Release, Owner
    <3>3. CASE events[s] = {Owned}
      <4>1. /\ events'[s] = {}
            /\ UNCHANGED <<idx, state, conn>>
            /\ pc' = [pc EXCEPT ![w] = IF remove[w] THEN "clear" ELSE "idle"]
        BY <1>4, <2>4, <3>3 DEF Release
      <4>2. \A v \in Workers : ~Holder(v, s)' /\ ~Owner(v, s)'
        BY <1>4, <3>1, <4>1 DEF OwnedOnce, Holder, Owner
      <4>3. \A v \in Workers : Removing(v, s)' => v = w /\ remove[w]
        BY <1>4, <3>1, <4>1 DEF OwnedOnce, Removing
      <4>4. remove[w] <=> conn[s] = "none"
        BY <3>1 DEF OwnedOnce
      <4> QED
        BY <4>1, <4>2, <4>3, <4>4 DEF GoodAt, OwnedOnce, RemovedOnceAt, Live
    <3> QED
      BY <3>2, <3>3
  <2>5. ASSUME LockConn(w) PROVE GoodAt(s)'
    <3>1. Owner(w, s) /\ Owned \in events[s]
      BY <1>4, <2>5 DEF LockConn, Owner, Holder, OwnedOnce
    <3>2. ~locked[s]
      <4>1. \A v \in Workers : InGuard(v, s) => v = w
        BY <3>1 DEF InGuard, Owner, Holder, OwnedOnce
      <4> QED
        BY <2>5, <4>1 DEF LockConn, LockExclusion, InGuard
    <3> QED
      BY <1>4, <2>5, <3>1, <3>2, OwnerStays DEF LockConn, Owner
  <2>6. ASSUME HandleNone(w) PROVE GoodAt(s)'
    BY <1>4, <2>6 DEF HandleNone, GoodAt, OwnedOnce, RemovedOnceAt, Live, Holder, Owner, Removing
  <2>7. ASSUME Register(w) PROVE GoodAt(s)'
    BY <1>4, <2>7 DEF Register, GoodAt, OwnedOnce, RemovedOnceAt, Live, Holder, Owner, Removing
  <2>8. ASSUME HandleKeep(w) PROVE GoodAt(s)'
    BY <1>4, <2>8 DEF HandleKeep, GoodAt, OwnedOnce, RemovedOnceAt, Live, Holder, Owner, Removing
  <2>9. ASSUME HandleRemove(w) PROVE GoodAt(s)'
    BY <1>4, <2>9 DEF HandleRemove, GoodAt, OwnedOnce, RemovedOnceAt, Live, Holder, Owner, Removing
  <2>10. ASSUME HandlePanic(w) PROVE GoodAt(s)'
    BY <1>4, <2>10 DEF HandlePanic, GoodAt, OwnedOnce, RemovedOnceAt, Live, Holder, Owner, Removing
  <2>11. ASSUME Unlock(w) PROVE GoodAt(s)'
    BY <1>4, <2>11 DEF Unlock, GoodAt, OwnedOnce, RemovedOnceAt, Live, Holder, Owner, Removing
  <2>12. ASSUME AssertQuiet(w) PROVE GoodAt(s)'
    BY <1>4, <2>12 DEF AssertQuiet, OwnedOnce, Removing
  <2> QED
    BY <1>4, <2>1, <2>2, <2>3, <2>4, <2>5, <2>6, <2>7, <2>8, <2>9, <2>10, <2>11, <2>12
       DEF Step, GateStep, Handle
<1>5. ASSUME NEW w \in Workers, Push(w) PROVE GoodAt(s)'
  BY <1>5, OtherSlot DEF Push, OwnedOnce, Busy, Holder, Owner, Removing
<1>6. ASSUME NEW w \in Workers, NEW r \in Slot, Insert(w, r) PROVE GoodAt(s)'
  BY <1>6, OtherSlot DEF Insert, Busy, Holder, Owner, Removing
<1>7. ASSUME NEW w \in Workers, NEW r \in Slot, Call(w, r) PROVE GoodAt(s)'
  BY <1>7, OtherSlot DEF Call, Dispatch, Busy, Holder, Owner, Removing
<1>8. CASE UNCHANGED vars
  BY <1>8 DEF vars, GoodAt, OwnedOnce, RemovedOnceAt, Live, Holder, Owner, Removing
<1> QED
  BY <1>1, <1>2, <1>3, <1>4, <1>5, <1>6, <1>7, <1>8 DEF Next

(* A slot that was not handed out is good when it is, and until then.      *)
LEMMA VacantStep ==
  ASSUME IInv, [Next]_vars, NEW s \in vacant
  PROVE  GoodAt(s)'
<1> USE DEF TypeOK, GateTypeOK, At, Goto, Panic, gateVars
<1>0. /\ TypeOK /\ Untouched /\ TypeOK' /\ Untouched' /\ s \in Slot
  BY TypeStep, UntouchedStep DEF IInv
<1>1. CASE s \in vacant'
  BY <1>0, <1>1 DEF Untouched, GoodAt, RemovedOnceAt, Live, Owner, Removing
<1>2. CASE s \notin vacant'
  <2>1. PICK w \in Workers : Insert(w, s)
    BY <1>2 DEF Next, Edge, Poll, Step, Push, Insert, Call, vars
  <2>2. /\ state'[s] = InUse /\ conn'[s] = "new" /\ events'[s] = {}
        /\ pc'[w] = "check"
        /\ \A v \in Workers : v # w /\ idx'[v] = s => pc'[v] = "idle"
    BY <1>0, <2>1 DEF Insert, Untouched
  <2> QED
    BY <2>2 DEF GoodAt, OwnedOnce, RemovedOnceAt, Live, Holder, Owner, Removing
<1> QED
  BY <1>1, <1>2

(* Every step keeps the invariant.                                         *)
LEMMA StepInv == IInv /\ [Next]_vars => IInv'
<1> SUFFICES ASSUME IInv, [Next]_vars PROVE IInv'
  OBVIOUS
<1>1. TypeOK' /\ Untouched' /\ LockExclusion'
  BY TypeStep, UntouchedStep, LockStep DEF IInv
<1>2. ASSUME NEW s \in Slot PROVE GoodAt(s)'
  <2>1. CASE s \in vacant
    BY <2>1, VacantStep
  <2>2. CASE Live(s)
    BY <2>2, LiveStep
  <2>3. CASE s \notin vacant /\ ~Live(s)
    <3>1. /\ ~Live(s)'
          /\ \A v \in Workers : Removing(v, s)' => Removing(v, s)
      BY <2>3, DeadStep DEF IInv
    <3>2. RemovedOnceAt(s)
      BY SlotBySlot
    <3> QED
      BY <3>1, <3>2 DEF GoodAt, RemovedOnceAt
  <2> QED
    BY <2>1, <2>2, <2>3
<1> QED
  BY <1>1, <1>2 DEF IInv, GoodAt, SingleOwner, LiveSlots, RemovedOnce, OwnedOnce, RemovedOnceAt

-----------------------------------------------------------------------------
(* Theorems.                                                               *)

(* IInv holds in every reachable state: Server::try_connection keeps its   *)
(* ownership protocol intact with any number of threads, connections and   *)
(* event kinds.                                                            *)
THEOREM Invariance == Spec => []IInv
BY InitInv, StepInv, PTL DEF Spec

(* Every variable keeps its type; no index leaves Server::connections.     *)
THEOREM TypeCorrect == Spec => []TypeOK
<1>1. IInv => TypeOK
  BY DEF IInv
<1> QED
  BY <1>1, Invariance, PTL

(* Lock::try_lock is exclusive and its flag tells who is inside.           *)
THEOREM LockIsExclusive == Spec => []LockExclusion
<1>1. IInv => LockExclusion
  BY DEF IInv
<1> QED
  BY <1>1, Invariance, PTL

(* fetch_or, swap and compare_exchange on Slot::events make bit 0 a token  *)
(* that exactly one worker holds while the connection is being served.     *)
THEOREM OwnerIsUnique == Spec => []SingleOwner
<1>1. IInv => SingleOwner
  BY DEF IInv
<1> QED
  BY <1>1, Invariance, PTL

(* remove runs once for a connection, after its last use.                  *)
THEOREM RemovalIsUnique == Spec => []RemovedOnce
<1>1. IInv => RemovedOnce
  BY DEF IInv
<1> QED
  BY <1>1, Invariance, PTL

(* No event, however late, brings a removed connection back.               *)
THEOREM RemovedStaysRemoved == Spec => RemovalIsFinal
<1>1. IInv /\ [Next]_vars => [\A s \in Slot \ vacant : ~Live(s) => ~Live(s)']_vars
  BY DeadStep DEF IInv
<1> QED
  BY <1>1, Invariance, PTL DEF Spec, RemovalIsFinal

(* The assert! and the three expects of try_connection hold for a live     *)
(* connection: a worker that dies over one dies in the connection's own    *)
(* handler.                                                                *)
THEOREM LiveAssertionsHold == Spec => AssertionsHold
<1> DEFINE A == \A w \in Workers : ~At(w, "panicked") /\ At(w, "panicked")'
                  => HandlePanic(w) \/ ~Live(idx[w])
<1>1. ASSUME IInv, Next PROVE A
  <2> SUFFICES ASSUME NEW w \in Workers, ~At(w, "panicked"), At(w, "panicked")',
                      Live(idx[w])
               PROVE  HandlePanic(w)
    BY DEF A
  <2>0. /\ TypeOK /\ LockExclusion /\ idx[w] \in Slot /\ OwnedOnce(idx[w])
    BY <1>1, SlotBySlot DEF TypeOK
  <2> USE DEF TypeOK, GateTypeOK, At, Goto, Panic, gateVars
  <2>1. Step(w)
    BY <1>1, <2>0 DEF Next, Edge, Raise, Poll, PollEvents, Push, Insert, Call, Dispatch,
       Step, GateStep, Handle, AssertInUse, PostEvents, TakeEvents, Release, LockConn, HandleNone,
       Register, HandleKeep, HandleRemove, HandlePanic, Unlock, AssertQuiet
  <2>2. ~AssertInUse(w)
    BY <2>0 DEF AssertInUse, OwnedOnce
  <2>3. ~TakeEvents(w)
    BY <2>0 DEF TakeEvents, OwnedOnce, Holder, Owner
  <2>4. ~LockConn(w)
    <3> SUFFICES ASSUME LockConn(w) PROVE FALSE
      OBVIOUS
    <3>1. locked[idx[w]] /\ pc[w] = "lock"
      BY <2>0 DEF LockConn
    <3>2. PICK v \in Workers : InGuard(v, idx[w])
      BY <2>0, <3>1 DEF LockExclusion
    <3> QED
      BY <2>0, <3>1, <3>2 DEF InGuard, OwnedOnce, Holder, Owner
  <2>5. ~HandleNone(w)
    BY <2>0 DEF HandleNone, OwnedOnce, Owner
  <2>6. ~AssertQuiet(w)
    BY <2>0 DEF AssertQuiet, OwnedOnce, Removing
  <2>7. /\ ~PostEvents(w) /\ ~Release(w) /\ ~Register(w) /\ ~HandleKeep(w)
        /\ ~HandleRemove(w) /\ ~Unlock(w)
    BY <2>0 DEF PostEvents, Release, Register, HandleKeep, HandleRemove, Unlock
  <2> QED
    BY <2>1, <2>2, <2>3, <2>4, <2>5, <2>6, <2>7 DEF Step, GateStep, Handle
<1>2. IInv /\ [Next]_vars => [A]_vars
  BY <1>1
<1> QED
  BY <1>2, Invariance, PTL DEF Spec, AssertionsHold

-----------------------------------------------------------------------------
(* EventGate implements SerialHandler: every step of the workers is a step *)
(* of the abstract specification or changes nothing it can see.            *)

(* A worker that is about to serve a connection has events to serve.       *)
BatchInv ==
  \A w \in Workers : pc[w] \in {"lock", "handle"} => bits[w] \ {Owned} # {}

LEMMA BatchStep == TypeOK /\ BatchInv /\ [Next]_vars => BatchInv'
<1> SUFFICES ASSUME TypeOK, BatchInv, [Next]_vars PROVE BatchInv'
  OBVIOUS
<1> USE DEF TypeOK, GateTypeOK, BatchInv, At, Goto, Panic, gateVars
<1>1. ASSUME NEW s \in Slot, NEW K \in SUBSET Kinds \ {{}}, Edge(s, K) PROVE BatchInv'
  BY <1>1 DEF Edge, Raise
<1>2. ASSUME NEW w \in Workers, Poll(w) PROVE BatchInv'
  BY <1>2 DEF Poll, PollEvents
<1>3. ASSUME NEW w \in Workers, Step(w) PROVE BatchInv'
  <2>1. ASSUME TakeEvents(w) PROVE BatchInv'
    <3>1. CASE Owned \notin events[idx[w]] \/ events[idx[w]] = {Owned}
      BY <2>1, <3>1 DEF TakeEvents
    <3>2. CASE Owned \in events[idx[w]] /\ events[idx[w]] # {Owned}
      BY <2>1, <3>2 DEF TakeEvents
    <3> QED
      BY <3>1, <3>2
  <2>2. ASSUME GateStep(w), ~TakeEvents(w) PROVE BatchInv'
    BY <2>2 DEF GateStep, Handle,
       AssertInUse, PostEvents, Release, LockConn, HandleNone, Register,
       HandleKeep, HandleRemove, HandlePanic, Unlock, AssertQuiet
  <2> QED
    BY <1>3, <2>1, <2>2 DEF Step
<1>4. ASSUME NEW w \in Workers, Push(w) PROVE BatchInv'
  BY <1>4 DEF Push
<1>5. ASSUME NEW w \in Workers, NEW s \in Slot, Insert(w, s) PROVE BatchInv'
  BY <1>5 DEF Insert
<1>6. ASSUME NEW w \in Workers, NEW s \in Slot, Call(w, s) PROVE BatchInv'
  BY <1>6 DEF Call, Dispatch
<1>7. CASE UNCHANGED vars
  BY <1>7 DEF vars
<1> QED
  BY <1>1, <1>2, <1>3, <1>4, <1>5, <1>6, <1>7 DEF Next

-----------------------------------------------------------------------------
(* What the abstract specification sees of one slot, and the steps it      *)
(* allows there.                                                           *)

SameAt(s) == /\ Status(s)' = Status(s)
             /\ Pending(s)' = Pending(s)
             /\ Serving(s)' = Serving(s)

OpenAt(s) == /\ Status(s) = "unborn" /\ Status(s)' = "open"
             /\ Pending(s)' = Pending(s) /\ Serving(s)' = Serving(s)

PostAt(s) == /\ Status(s) \in {"open", "wedged"} /\ Status(s)' = Status(s)
             /\ \E K \in SUBSET Kinds : Pending(s)' = Pending(s) \cup K
             /\ Serving(s)' = Serving(s)

BeginAt(s) == /\ Status(s) = "open" /\ Status(s)' = "open"
              /\ Serving(s) = {} /\ Pending(s) # {}
              /\ Serving(s)' = Pending(s) /\ Pending(s)' = {}

FinishAt(s) == /\ Status(s) = "open" /\ Status(s)' = "open"
               /\ Serving(s) # {} /\ Serving(s)' = {} /\ Pending(s)' = Pending(s)

CloseAt(s) == /\ Status(s) = "open" /\ Status(s)' = "closed"
              /\ Serving(s) # {} /\ Serving(s)' = {} /\ Pending(s)' = {}

WedgeAt(s) == /\ Status(s) = "open" /\ Status(s)' = "wedged"
              /\ Serving(s) # {} /\ Serving(s)' = {} /\ Pending(s)' = Pending(s)

StepAt(s) == \/ SameAt(s) \/ OpenAt(s) \/ PostAt(s) \/ BeginAt(s)
             \/ FinishAt(s) \/ CloseAt(s) \/ WedgeAt(s)

(* A step that neither enters nor leaves the handler of s.                 *)
LEMMA SameFrame ==
  ASSUME NEW s \in Slot, NEW w \in Workers,
         \A v \in Workers : v # w =>
            pc'[v] = pc[v] /\ idx'[v] = idx[v] /\ bits'[v] = bits[v],
         conn'[s] = conn[s], events'[s] = events[s], s \in vacant' <=> s \in vacant,
         ~(idx[w] = s /\ pc[w] \in {"lock", "handle", "panicked"}),
         ~(idx'[w] = s /\ pc'[w] \in {"lock", "handle", "panicked"})
  PROVE  SameAt(s)
<1>1. Taken(s)' = Taken(s)
  BY DEF Taken
<1>2. (\E v \in Workers : idx[v] = s /\ At(v, "panicked"))'
        <=> \E v \in Workers : idx[v] = s /\ At(v, "panicked")
  BY DEF At
<1>3. Status(s)' = Status(s)
  BY <1>2 DEF Status
<1> QED
  BY <1>1, <1>3 DEF SameAt, Pending, Serving

(* Nothing is seen of a slot without a connection.                         *)
LEMMA SameDead ==
  ASSUME NEW s \in Slot, conn[s] = "none", conn'[s] = "none",
         s \notin vacant, s \notin vacant'
  PROVE  SameAt(s)
BY DEF SameAt, Status, Pending, Serving

(* A step of a call is seen of the slot of the call only.                  *)
LEMMA ElsewhereSame ==
  ASSUME TypeOK, NEW w \in Workers, Step(w), NEW s \in Slot, s # idx[w]
  PROVE  SameAt(s)
<1> USE DEF TypeOK, GateTypeOK, At, Goto, Panic, gateVars
<1>1. /\ UNCHANGED <<idx, vacant>>
      /\ conn'[s] = conn[s] /\ events'[s] = events[s]
  BY DEF Step, GateStep, Handle,
       AssertInUse, PostEvents, TakeEvents, Release, LockConn, HandleNone,
       Register, HandleKeep, HandleRemove, HandlePanic, Unlock, AssertQuiet
<1>2. \A v \in Workers : v # w => pc'[v] = pc[v] /\ bits'[v] = bits[v]
  BY DEF Step, GateStep, Handle,
       AssertInUse, PostEvents, TakeEvents, Release, LockConn, HandleNone,
       Register, HandleKeep, HandleRemove, HandlePanic, Unlock, AssertQuiet
<1> QED
  BY <1>1, <1>2, SameFrame

(* What the worker that owns an open connection does to it is a step of    *)
(* the abstract specification.                                             *)
LEMMA HereStep ==
  ASSUME IInv, BatchInv, NEW w \in Workers, Step(w), NEW s \in Slot, s = idx[w]
  PROVE  StepAt(s)
<1>0. /\ TypeOK /\ LockExclusion /\ s \notin vacant /\ s \notin vacant'
      /\ (conn[s] # "none" => OwnedOnce(s))
  <2>1. s \notin vacant
    BY DEF IInv, Untouched, At, Step, GateStep, Handle,
       AssertInUse, PostEvents, TakeEvents, Release, LockConn, HandleNone,
       Register, HandleKeep, HandleRemove, HandlePanic, Unlock, AssertQuiet
  <2>2. vacant' = vacant
    BY DEF Step
  <2> QED
    BY <2>1, <2>2, SlotBySlot DEF IInv, Live
<1> USE <1>0 DEF TypeOK, GateTypeOK, At, Goto, Panic, gateVars
<1>1. CASE conn[s] = "none"
  <2>1. conn'[s] = "none"
    BY <1>1 DEF Step, GateStep, Handle,
       AssertInUse, PostEvents, TakeEvents, Release, LockConn, HandleNone,
       Register, HandleKeep, HandleRemove, HandlePanic, Unlock, AssertQuiet
  <2> QED
    BY <1>1, <2>1, SameDead DEF StepAt
<1>2. CASE conn[s] # "none"
  <2> USE <1>2
  <2>0. OwnedOnce(s)
    OBVIOUS
  <2>a. ASSUME Owner(w, s)
        PROVE  /\ \A v \in Workers : idx[v] = s /\ v # w
                     => pc[v] \notin {"swap", "cas", "lock", "handle", "unlock", "panicked"}
               /\ ~remove[w] /\ Owned \in events[s] /\ Status(s) = "open"
    BY <2>0, <2>a DEF OwnedOnce, Holder, Owner, Status
  <2>1. ASSUME AssertInUse(w) PROVE StepAt(s)
    <3>1. state[idx[w]] = InUse
      BY <2>0 DEF OwnedOnce
    <3> QED
      BY <2>1, <3>1, SameFrame DEF AssertInUse, StepAt
  <2>2. ASSUME PostEvents(w) PROVE StepAt(s)
    <3>1. Pending(s)' = Pending(s) \cup (bits[w] \ {Owned})
      BY <2>2 DEF PostEvents, Pending
    <3>2. Taken(s)' = Taken(s)
      BY <2>2 DEF PostEvents, Taken
    <3>3. Status(s) \in {"open", "wedged"} /\ Status(s)' = Status(s)
      BY <2>2 DEF PostEvents, Status
    <3>4. bits[w] \ {Owned} \in SUBSET Kinds
      OBVIOUS
    <3>5. Serving(s)' = Serving(s)
      BY <2>2, <3>2 DEF PostEvents, Serving
    <3> QED
      BY <3>1, <3>3, <3>4, <3>5 DEF StepAt, PostAt
  <2>3. ASSUME TakeEvents(w) PROVE StepAt(s)
    <3>1. Owner(w, s)
      BY <2>3 DEF TakeEvents, Owner
    <3>2. Owned \in events[s]
      BY <2>a, <3>1
    <3>3. CASE events[s] = {Owned}
      BY <2>3, <3>2, <3>3 DEF TakeEvents, StepAt, SameAt, Status, Pending, Serving, Taken
    <3>4. CASE events[s] # {Owned}
      <4>1. /\ pc' = [pc EXCEPT ![w] = "lock"] /\ bits' = [bits EXCEPT ![w] = events[s]]
            /\ events'[s] = {Owned} /\ UNCHANGED <<idx, conn, vacant>>
        BY <2>3, <3>2, <3>4 DEF TakeEvents, Step
      <4>2. Taken(s) = {}
        BY <2>3, <2>a, <3>1 DEF Taken, TakeEvents
      <4>3. Taken(s)' = events[s] \ {Owned}
        BY <2>a, <3>1, <4>1, KindsAssumption DEF Taken
      <4>4. Status(s) = "open" /\ Status(s)' = "open"
        BY <2>3, <2>a, <3>1, <4>1 DEF Status, TakeEvents
      <4> QED
        BY <3>2, <3>4, <4>1, <4>2, <4>3, <4>4 DEF StepAt, BeginAt, Pending, Serving
    <3> QED
      BY <3>3, <3>4
  <2>4. ASSUME Release(w) PROVE StepAt(s)
    <3>1. /\ UNCHANGED <<idx, conn>> /\ Pending(s)' = Pending(s)
          /\ \A v \in Workers : v # w => pc'[v] = pc[v] /\ bits'[v] = bits[v]
          /\ pc[w] = "cas" /\ pc'[w] \in {"swap", "clear", "idle"}
      BY <2>4 DEF Release, Pending
    <3>2. Taken(s)' = Taken(s)
      BY <3>1 DEF Taken
    <3>3. Status(s)' = Status(s)
      BY <2>4, <3>1 DEF Release, Status
    <3> QED
      BY <3>1, <3>2, <3>3 DEF StepAt, SameAt, Serving
  <2>5. ASSUME LockConn(w) PROVE StepAt(s)
    <3>1. Owner(w, s)
      BY <2>5 DEF LockConn, Owner
    <3>2. ~locked[s]
      <4>1. \A v \in Workers : InGuard(v, s) => v = w
        BY <2>a, <3>1 DEF InGuard
      <4> QED
        BY <2>5, <4>1 DEF LockConn, LockExclusion, InGuard
    <3> QED
      BY <2>5, <3>2 DEF LockConn, StepAt, SameAt, Status, Pending, Serving, Taken
  <2>6. ASSUME HandleNone(w) PROVE StepAt(s)
    BY <2>6 DEF HandleNone
  <2>7. ASSUME Register(w) PROVE StepAt(s)
    BY <2>7 DEF Register, StepAt, SameAt, Status, Pending, Serving, Taken
  <2>8. ASSUME HandleKeep(w) PROVE StepAt(s)
    <3>1. Owner(w, s)
      BY <2>8 DEF HandleKeep, Owner
    <3>2. bits[w] \ {Owned} # {}
      BY <2>8 DEF HandleKeep, BatchInv
    <3>3. Serving(s) # {}
      BY <2>8, <3>2 DEF HandleKeep, Serving, Taken
    <3>4. Serving(s)' = {}
      BY <2>8, <2>a, <3>1 DEF HandleKeep, Serving, Taken
    <3>5. Status(s)' = "open" /\ Pending(s)' = Pending(s)
      BY <2>8, <2>a, <3>1 DEF HandleKeep, Status, Pending
    <3> QED
      BY <2>a, <3>1, <3>3, <3>4, <3>5 DEF StepAt, FinishAt
  <2>9. ASSUME HandleRemove(w) PROVE StepAt(s)
    <3>1. Owner(w, s)
      BY <2>9 DEF HandleRemove, Owner
    <3>2. bits[w] \ {Owned} # {}
      BY <2>9 DEF HandleRemove, BatchInv
    <3>3. Serving(s) # {}
      BY <2>9, <3>2 DEF HandleRemove, Serving, Taken
    <3>4. Serving(s)' = {}
      BY <2>9, <2>a, <3>1 DEF HandleRemove, Serving, Taken
    <3>5. Status(s)' = "closed" /\ Pending(s)' = {}
      BY <2>9, <2>a, <3>1 DEF HandleRemove, Status, Pending
    <3> QED
      BY <2>a, <3>1, <3>3, <3>4, <3>5 DEF StepAt, CloseAt
  <2>10. ASSUME HandlePanic(w) PROVE StepAt(s)
    <3>1. Owner(w, s)
      BY <2>10 DEF HandlePanic, Owner
    <3>2. bits[w] \ {Owned} # {}
      BY <2>10 DEF HandlePanic, BatchInv
    <3>3. Serving(s) # {}
      BY <2>10, <3>2 DEF HandlePanic, Serving, Taken
    <3>4. Serving(s)' = {}
      BY <2>10, <2>a, <3>1 DEF HandlePanic, Serving, Taken
    <3>5. Status(s)' = "wedged" /\ Pending(s)' = Pending(s)
      BY <2>10, <2>a, <3>1 DEF HandlePanic, Status, Pending
    <3> QED
      BY <2>a, <3>1, <3>3, <3>4, <3>5 DEF StepAt, WedgeAt
  <2>11. ASSUME Unlock(w) PROVE StepAt(s)
    BY <2>11, SameFrame DEF Unlock, StepAt
  <2>12. ASSUME AssertQuiet(w) PROVE StepAt(s)
    BY <2>0, <2>12 DEF AssertQuiet, OwnedOnce, Removing
  <2> QED
    BY <2>1, <2>2, <2>3, <2>4, <2>5, <2>6, <2>7, <2>8, <2>9, <2>10, <2>11, <2>12
       DEF Step, GateStep, Handle
<1> QED
  BY <1>1, <1>2

-----------------------------------------------------------------------------

(* A step seen of at most one slot is a step of SerialHandler.             *)
LEMMA LiftStep ==
  ASSUME NEW s \in Slot, StepAt(s), \A r \in Slot : r # s => SameAt(r)
  PROVE  [Serial!Next]_(Serial!vars)
<1> DEFINE st == [r \in Slot |-> Status(r)]
           pe == [r \in Slot |-> Pending(r)]
           se == [r \in Slot |-> Serving(r)]
<1>1. /\ st' = [st EXCEPT ![s] = Status(s)']
      /\ pe' = [pe EXCEPT ![s] = Pending(s)']
      /\ se' = [se EXCEPT ![s] = Serving(s)']
  BY DEF SameAt
<1>2. st[s] = Status(s) /\ pe[s] = Pending(s) /\ se[s] = Serving(s)
  OBVIOUS
<1> HIDE DEF st, pe, se
<1>3. CASE SameAt(s)
  <2>1. UNCHANGED <<st, pe, se>>
    BY <1>1, <1>2, <1>3 DEF SameAt, st, pe, se
  <2> QED
    BY <2>1 DEF Serial!vars, st, pe, se
<1>4. CASE OpenAt(s)
  <2>1. Serial!Open(s)
    BY <1>1, <1>2, <1>4 DEF Serial!Open, OpenAt, st, pe, se
  <2> QED
    BY <2>1 DEF Serial!Next
<1>5. CASE PostAt(s)
  <2>1. PICK K \in SUBSET Kinds : Pending(s)' = Pending(s) \cup K
    BY <1>5 DEF PostAt
  <2>2. Serial!Post(s, K)
    BY <1>1, <1>2, <1>5, <2>1 DEF Serial!Post, PostAt, st, pe, se
  <2> QED
    BY <2>2 DEF Serial!Next
<1>6. CASE BeginAt(s)
  <2>1. Serial!Begin(s)
    BY <1>1, <1>2, <1>6 DEF Serial!Begin, BeginAt, st, pe, se
  <2> QED
    BY <2>1 DEF Serial!Next
<1>7. CASE FinishAt(s)
  <2>1. Serial!Finish(s)
    BY <1>1, <1>2, <1>7 DEF Serial!Finish, FinishAt, st, pe, se
  <2> QED
    BY <2>1 DEF Serial!Next
<1>8. CASE CloseAt(s)
  <2>1. Serial!Close(s)
    BY <1>1, <1>2, <1>8 DEF Serial!Close, CloseAt, st, pe, se
  <2> QED
    BY <2>1 DEF Serial!Next
<1>9. CASE WedgeAt(s)
  <2>1. Serial!Wedge(s)
    BY <1>1, <1>2, <1>9 DEF Serial!Wedge, WedgeAt, st, pe, se
  <2> QED
    BY <2>1 DEF Serial!Next
<1> QED
  BY <1>3, <1>4, <1>5, <1>6, <1>7, <1>8, <1>9 DEF StepAt

LEMMA LiftStutter ==
  ASSUME \A r \in Slot : SameAt(r)
  PROVE  [Serial!Next]_(Serial!vars)
BY DEF SameAt, Serial!vars

LEMMA SerialStep ==
  ASSUME IInv, BatchInv, [Next]_vars
  PROVE  [Serial!Next]_(Serial!vars)
<1>0. TypeOK /\ Untouched
  BY DEF IInv
<1> USE <1>0 DEF TypeOK, GateTypeOK, At, Goto, Panic, gateVars
<1>1. ASSUME NEW r \in Slot, NEW K \in SUBSET Kinds \ {{}}, Edge(r, K)
      PROVE  \A s \in Slot : SameAt(s)
  BY <1>1 DEF Edge, Raise, SameAt, Status, Pending, Serving, Taken
<1>2. ASSUME NEW w \in Workers, Poll(w) PROVE \A s \in Slot : SameAt(s)
  BY <1>2 DEF Poll, PollEvents, SameAt, Status, Pending, Serving, Taken
<1>3. ASSUME NEW w \in Workers, Step(w) PROVE [Serial!Next]_(Serial!vars)
  <2>1. PICK s \in Slot : s = idx[w]
    OBVIOUS
  <2>2. StepAt(s)
    BY <1>3, <2>1, HereStep
  <2>3. \A r \in Slot : r # s => SameAt(r)
    BY <1>3, <2>1, ElsewhereSame
  <2> QED
    BY <2>2, <2>3, LiftStep
<1>4. ASSUME NEW w \in Workers, Push(w) PROVE \A s \in Slot : SameAt(s)
  BY <1>4, SameFrame DEF Push
<1>5. ASSUME NEW w \in Workers, NEW s \in Slot, Insert(w, s)
      PROVE  [Serial!Next]_(Serial!vars)
  <2>1. \A r \in Slot : r # s => SameAt(r)
    BY <1>5, SameFrame DEF Insert
  <2>2. \A v \in Workers : idx[v] = s \/ (idx[v] = s)'
            => pc[v] \notin {"lock", "handle", "panicked"}
               /\ pc'[v] \notin {"lock", "handle", "panicked"}
    BY <1>5 DEF Insert, Untouched
  <2>3. Status(s) = "unborn" /\ Status(s)' = "open"
    BY <1>5, <2>2 DEF Insert, Status
  <2>4. /\ Pending(s) = {} /\ Serving(s) = {}
        /\ Pending(s)' = {} /\ Serving(s)' = {}
    BY <1>5, <2>2 DEF Insert, Untouched, Pending, Serving, Taken
  <2> QED
    BY <2>1, <2>3, <2>4, LiftStep DEF StepAt, OpenAt
<1>6. ASSUME NEW w \in Workers, NEW s \in Slot, Call(w, s) PROVE \A r \in Slot : SameAt(r)
  BY <1>6, SameFrame DEF Call, Dispatch
<1>7. ASSUME UNCHANGED vars PROVE \A s \in Slot : SameAt(s)
  <2> SUFFICES ASSUME NEW s \in Slot PROVE SameAt(s)
    OBVIOUS
  <2>1. Taken(s)' = Taken(s)
    BY <1>7 DEF vars, Taken
  <2>2. Status(s)' = Status(s)
    BY <1>7 DEF vars, Status
  <2> QED
    BY <1>7, <2>1, <2>2 DEF vars, SameAt, Pending, Serving
<1> QED
  BY <1>1, <1>2, <1>3, <1>4, <1>5, <1>6, <1>7, LiftStutter DEF Next

(* For any number of workers, slots and kinds: the events of a connection  *)
(* reach its handler in batches, one at a time, none of them lost or       *)
(* served twice, and none after the connection was closed.                 *)
THEOREM Refinement == Spec => HandlesSerially
<1>1. Init => Serial!Init
  BY DEF Init, GateInit, Serial!Init, Status, Pending, Serving
<1>2. Init => BatchInv
  BY DEF Init, GateInit, BatchInv, At
<1>3. IInv /\ BatchInv /\ [Next]_vars => BatchInv' /\ [Serial!Next]_(Serial!vars)
  BY SerialStep, BatchStep DEF IInv
<1> QED
  BY <1>1, <1>2, <1>3, Invariance, PTL DEF Spec, HandlesSerially, Serial!Spec
=============================================================================
