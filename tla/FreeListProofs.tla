--------------------------- MODULE FreeListProofs ---------------------------
(***************************************************************************)
(* The free list of FreeList keeps every slot and is a stack, for any      *)
(* number of workers and slots, if accepting does not overlap.             *)
(***************************************************************************)
EXTENDS FreeList, SlotListProofs

(* Types, whatever overlaps.                                               *)

LEMMA TypeInit == Init => TypeOK /\ LinksAreSlots
<1> SUFFICES ASSUME Init PROVE TypeOK /\ LinksAreSlots
  OBVIOUS
<1> USE SlotsAssumption DEF Init, ListInit, InitState, Slot, Link
<1>1. state \in [Slot -> Link]
  OBVIOUS
<1>2. next \in Slot /\ nxt \in [Workers -> Link] /\ idx \in [Workers -> Slot]
  OBVIOUS
<1>3. pc \in [Workers -> {"idle", "panicked"} \cup ListLabels]
  OBVIOUS
<1>4. live \in SUBSET Slot /\ closing \in BOOLEAN
  OBVIOUS
<1> QED
  BY <1>1, <1>2, <1>3, <1>4 DEF TypeOK, ListTypeOK, LinksAreSlots

LEMMA TypeStep == TypeOK /\ LinksAreSlots /\ [Next]_vars => (TypeOK /\ LinksAreSlots)'
<1> SUFFICES ASSUME TypeOK, LinksAreSlots, [Next]_vars PROVE (TypeOK /\ LinksAreSlots)'
  OBVIOUS
<1> USE LinkFacts
    DEF TypeOK, ListTypeOK, ListLabels, LinksAreSlots, listVars, At, Goto, Panic, Drop
<1>1. ASSUME NEW w \in Workers, Accept(w) PROVE (TypeOK /\ LinksAreSlots)'
  BY <1>1 DEF Accept
<1>2. ASSUME NEW w \in Workers, Mark(w) PROVE (TypeOK /\ LinksAreSlots)'
  BY <1>2 DEF Mark, MarkInUse
<1>3. ASSUME NEW w \in Workers, Pop(w), UNCHANGED <<live, closing>>
      PROVE  (TypeOK /\ LinksAreSlots)'
  <2>1. CASE LoadHead(w)
    BY <1>3, <2>1 DEF LoadHead
  <2>2. CASE LoadLink(w)
    <3>1. state[idx[w]] \in Link
      OBVIOUS
    <3>2. CASE state[idx[w]] = InUse
      BY <1>3, <2>2, <3>2 DEF LoadLink
    <3>3. CASE state[idx[w]] = End
      BY <1>3, <2>2, <3>3 DEF LoadLink
    <3>4. CASE state[idx[w]] \notin {InUse, End}
      BY <1>3, <2>2, <3>1, <3>4 DEF LoadLink
    <3> QED
      BY <3>2, <3>3, <3>4
  <2>3. CASE TakeHead(w)
    <3>1. CASE next = idx[w]
      BY <1>3, <2>3, <3>1 DEF TakeHead
    <3>2. CASE next # idx[w]
      BY <1>3, <2>3, <3>2 DEF TakeHead
    <3> QED
      BY <3>1, <3>2
  <2> QED
    BY <1>3, <2>1, <2>2, <2>3 DEF Pop
<1>4. ASSUME NEW w \in Workers, Push(w), UNCHANGED <<live, closing>>
      PROVE  (TypeOK /\ LinksAreSlots)'
  <2>1. CASE ReadHead(w)
    BY <1>4, <2>1 DEF ReadHead
  <2>2. CASE StoreLink(w)
    BY <1>4, <2>2 DEF StoreLink
  <2>3. CASE SwingHead(w)
    <3>1. CASE next = nxt[w]
      BY <1>4, <2>3, <3>1 DEF SwingHead
    <3>2. CASE next # nxt[w]
      BY <1>4, <2>3, <3>2 DEF SwingHead
    <3> QED
      BY <3>1, <3>2
  <2> QED
    BY <1>4, <2>1, <2>2, <2>3 DEF Push
<1>5. ASSUME NEW w \in Workers, NEW s \in Slot, Close(w, s) PROVE (TypeOK /\ LinksAreSlots)'
  BY <1>5 DEF Close
<1>6. CASE UNCHANGED vars
  BY <1>6 DEF vars
<1> QED
  BY <1>1, <1>2, <1>3, <1>4, <1>5, <1>6 DEF Next, Step

-----------------------------------------------------------------------------
(* The invariant with its list made visible.                               *)

Good(n, p) ==
  /\ TypeOK /\ LinksAreSlots /\ Apart /\ Phases /\ Locals
  /\ n \in Nat /\ p \in [0 .. n -> Slot]
  /\ IsList(n, p) /\ Partition(n, p) /\ Loaded(n, p)

LEMMA GoodIsIInv == IInv <=> \E n \in Nat : \E p \in [0 .. n -> Slot] : Good(n, p)
<1>1. Locals => LinksAreSlots
  BY DEF Locals, LinksAreSlots, At
<1>2. ASSUME IInv PROVE \E n \in Nat : \E p \in [0 .. n -> Slot] : Good(n, p)
  BY <1>1, <1>2 DEF IInv, Good
<1>3. ASSUME NEW n \in Nat, NEW p \in [0 .. n -> Slot], Good(n, p) PROVE IInv
  <2>1. n \in 0 .. NSlots - 1
    BY <1>3, ListFits DEF Good, IsList
  <2> QED
    BY <1>3, <2>1 DEF Good, IInv
<1> QED
  BY <1>2, <1>3

LEMMA GoodInit == Init => \E n \in Nat : \E p \in [0 .. n -> Slot] : Good(n, p)
<1> SUFFICES ASSUME Init PROVE \E n \in Nat : \E p \in [0 .. n -> Slot] : Good(n, p)
  OBVIOUS
<1> DEFINE n == NSlots - 1
           p == [i \in 0 .. n |-> i]
<1>1. n \in Nat /\ p \in [0 .. n -> Slot]
  BY SlotsAssumption DEF Slot
<1>2. \A w \in Workers : pc[w] = "idle"
  BY DEF Init
<1>3. Apart /\ Phases /\ Locals
  BY <1>2 DEF Init, Apart, Phases, Locals, InHands, Holds, Hands, At
<1>4. IsList(n, p)
  BY SlotsAssumption DEF IsList, Init, ListInit, InitState, Slot, End
<1>5. Partition(n, p)
  BY <1>2 DEF Partition, Init, InHands, Holds, Hands, Slot
<1>6. Loaded(n, p)
  BY <1>2 DEF Loaded, Popping
<1> HIDE DEF n, p
<1> QED
  BY <1>1, <1>3, <1>4, <1>5, <1>6, TypeInit DEF Good

(* A step that moves no slot and rewrites no link.                         *)
LEMMA Still ==
  ASSUME NEW n, NEW p, Good(n, p), UNCHANGED <<state, next, live>>,
         \A v \in Workers, s \in Slot : Holds(v, s)' <=> Holds(v, s)
  PROVE  Apart' /\ IsList(n, p)' /\ Partition(n, p)'
<1>1. IsList(n, p)'
  BY DEF Good, IsList
<1>2. Apart' /\ Partition(n, p)'
  BY DEF Good, Apart, Partition, InHands
<1> QED
  BY <1>1, <1>2

LEMMA AcceptStep ==
  ASSUME ~Overlap, NEW n, NEW p, Good(n, p), Next, NEW w \in Workers, Accept(w)
  PROVE  Good(n, p)'
<1> USE DEF At, Goto, listVars
<1>1. TypeOK /\ (TypeOK /\ LinksAreSlots)'
  BY TypeStep DEF Good
<1>2. pc' = [pc EXCEPT ![w] = "insert"] /\ UNCHANGED <<idx, state, next, nxt, live, closing>>
  BY DEF Accept
<1>3. Apart' /\ IsList(n, p)' /\ Partition(n, p)'
  <2>1. \A v \in Workers, s \in Slot : Holds(v, s)' <=> Holds(v, s)
    BY <1>1, <1>2 DEF Accept, Holds, Hands, TypeOK
  <2> QED
    BY <1>2, <2>1, Still
<1>4. Phases'
  BY <1>1, <1>2 DEF Good, Accept, Phases, Popping, TypeOK
<1>5. Locals'
  BY <1>1, <1>2 DEF Good, Locals, TypeOK
<1>6. Loaded(n, p)'
  BY <1>1, <1>2 DEF Good, Loaded, Popping, TypeOK
<1> QED
  BY <1>1, <1>3, <1>4, <1>5, <1>6 DEF Good

LEMMA LoadHeadStep ==
  ASSUME NEW n, NEW p, Good(n, p), Next, NEW w \in Workers, LoadHead(w),
         UNCHANGED <<live, closing>>
  PROVE  Good(n, p)'
<1> USE DEF At, Goto
<1>1. TypeOK /\ (TypeOK /\ LinksAreSlots)'
  BY TypeStep DEF Good
<1>2. /\ pc[w] = "insert" /\ pc' = [pc EXCEPT ![w] = "link"]
      /\ idx' = [idx EXCEPT ![w] = next]
      /\ UNCHANGED <<state, next, nxt, live, closing>>
  BY DEF LoadHead
<1>3. Apart' /\ IsList(n, p)' /\ Partition(n, p)'
  <2>1. \A v \in Workers, s \in Slot : Holds(v, s)' <=> Holds(v, s)
    BY <1>1, <1>2 DEF Holds, Hands, TypeOK
  <2> QED
    BY <1>2, <2>1, Still
<1>4. Phases'
  BY <1>1, <1>2 DEF Good, Phases, Popping, TypeOK
<1>5. Locals'
  BY <1>1, <1>2 DEF Good, Locals, TypeOK
<1>6. Loaded(n, p)'
  <2>1. p[0] = next /\ 0 \in 0 .. n
    BY DEF Good, IsList
  <2> QED
    BY <1>1, <1>2, <2>1 DEF Good, Loaded, Popping, TypeOK
<1> QED
  BY <1>1, <1>3, <1>4, <1>5, <1>6 DEF Good

LEMMA LoadLinkStep ==
  ASSUME NEW n, NEW p, Good(n, p), Next, NEW w \in Workers, LoadLink(w),
         UNCHANGED <<live, closing>>
  PROVE  Good(n, p)'
<1> USE DEF At, Goto
<1> DEFINE link == state[idx[w]]
<1>1. TypeOK /\ (TypeOK /\ LinksAreSlots)'
  BY TypeStep DEF Good
<1>2. /\ pc[w] = "link" /\ UNCHANGED <<idx, state, next, live, closing>>
      /\ \/ pc' = [pc EXCEPT ![w] = "insert"]
         \/ pc' = [pc EXCEPT ![w] = "panicked"]
         \/ /\ pc' = [pc EXCEPT ![w] = "take"]
            /\ link \notin {InUse, End} /\ nxt' = [nxt EXCEPT ![w] = link]
      /\ \A v \in Workers \ {w} : nxt'[v] = nxt[v]
  <2>0. InUse # End
    BY LinkFacts
  <2>1. CASE link = InUse
    BY <1>1, <2>0, <2>1 DEF LoadLink, TypeOK, ListTypeOK
  <2>2. CASE link = End
    BY <1>1, <2>0, <2>2 DEF LoadLink, Panic, TypeOK, ListTypeOK
  <2>3. CASE link \notin {InUse, End}
    BY <1>1, <2>3 DEF LoadLink, TypeOK, ListTypeOK
  <2> QED
    BY <2>1, <2>2, <2>3
<1>3. Apart' /\ IsList(n, p)' /\ Partition(n, p)'
  <2>1. \A v \in Workers, s \in Slot : Holds(v, s)' <=> Holds(v, s)
    BY <1>1, <1>2 DEF Holds, Hands, TypeOK
  <2> QED
    BY <1>2, <2>1, Still
<1>4. Phases'
  BY <1>1, <1>2 DEF Good, Phases, Popping, TypeOK
<1>5. Locals'
  <2>1. link \in Slot \cup {End}
    BY <1>1, LinkFacts DEF TypeOK
  <2> QED
    BY <1>1, <1>2, <2>1 DEF Good, Locals, TypeOK, ListTypeOK
<1>6. Loaded(n, p)'
  BY <1>1, <1>2 DEF Good, Loaded, Popping, TypeOK, ListTypeOK
<1> QED
  BY <1>1, <1>3, <1>4, <1>5, <1>6 DEF Good

LEMMA TakeHeadFails ==
  ASSUME NEW n, NEW p, Good(n, p), Next, NEW w \in Workers, TakeHead(w), next # idx[w],
         UNCHANGED <<live, closing>>
  PROVE  Good(n, p)'
<1> USE DEF At, Goto
<1>1. TypeOK /\ (TypeOK /\ LinksAreSlots)'
  BY TypeStep DEF Good
<1>2. /\ pc[w] = "take" /\ pc' = [pc EXCEPT ![w] = "link"]
      /\ idx' = [idx EXCEPT ![w] = next]
      /\ \A v \in Workers \ {w} : nxt'[v] = nxt[v]
      /\ UNCHANGED <<state, next, live, closing>>
  BY <1>1 DEF TakeHead, Drop, TypeOK, ListTypeOK
<1>3. Apart' /\ IsList(n, p)' /\ Partition(n, p)'
  <2>1. \A v \in Workers, s \in Slot : Holds(v, s)' <=> Holds(v, s)
    BY <1>1, <1>2 DEF Holds, Hands, TypeOK
  <2> QED
    BY <1>2, <2>1, Still
<1>4. Phases'
  BY <1>1, <1>2 DEF Good, Phases, Popping, TypeOK
<1>5. Locals'
  BY <1>1, <1>2 DEF Good, Locals, TypeOK
<1>6. Loaded(n, p)'
  <2>1. p[0] = next /\ 0 \in 0 .. n
    BY DEF Good, IsList
  <2> QED
    BY <1>1, <1>2, <2>1 DEF Good, Loaded, Popping, TypeOK
<1> QED
  BY <1>1, <1>3, <1>4, <1>5, <1>6 DEF Good

(* The pop: the head goes from the list to the hands of w.                 *)
LEMMA TakeHeadTakes ==
  ASSUME NEW n, NEW p, Good(n, p), Next, NEW w \in Workers, TakeHead(w), next = idx[w],
         UNCHANGED <<live, closing>>
  PROVE  /\ n > 0
         /\ Good(n - 1, [i \in 0 .. n - 1 |-> p[i + 1]])'
<1> USE DEF At, Goto
<1> DEFINE q == [i \in 0 .. n - 1 |-> p[i + 1]]
<1>1. TypeOK /\ (TypeOK /\ LinksAreSlots)'
  BY TypeStep DEF Good
<1>2. /\ pc[w] = "take" /\ pc' = [pc EXCEPT ![w] = "mark"] /\ next' = nxt[w]
      /\ \A v \in Workers \ {w} : nxt'[v] = nxt[v]
      /\ UNCHANGED <<idx, state, live, closing>>
  BY <1>1 DEF TakeHead, Drop, TypeOK, ListTypeOK
<1>3. state[next] = nxt[w] /\ nxt[w] \in Slot \ {InUse} /\ p[0] = next
  BY <1>2 DEF Good, Loaded, Locals, Popping, IsList
<1>4. n > 0 /\ nxt[w] = p[1]
  BY <1>3, LinkFacts DEF Good, IsList
<1>5. /\ n - 1 \in Nat /\ q \in [0 .. n - 1 -> Slot] /\ IsList(n - 1, q)'
      /\ \A s : (\E i \in 0 .. n - 1 : q[i] = s) <=> s # next /\ \E i \in 0 .. n : p[i] = s
  <2>1. n \in Nat /\ p \in [0 .. n -> Slot] /\ IsList(n, p) /\ UNCHANGED state /\ next' = p[1]
    BY <1>2, <1>4 DEF Good
  <2> QED
    BY <1>4, <2>1, NextTail
<1> HIDE DEF q
<1>6. \A v \in Workers, s \in Slot : Holds(v, s)' <=> Holds(v, s) \/ (v = w /\ s = next)
  BY <1>1, <1>2 DEF Holds, Hands, TypeOK
<1>7. next \in Slot /\ next \notin live /\ ~InHands(next)
  <2>1. 0 \in 0 .. n /\ p[0] = next /\ next \in Slot
    BY <1>1, <1>3 DEF Good, TypeOK, ListTypeOK
  <2> QED
    BY <2>1 DEF Good, Partition
<1>8. Apart' /\ Partition(n - 1, q)'
  <2>1. \A s \in Slot : InHands(s)' <=> InHands(s) \/ s = next
    BY <1>6 DEF InHands
  <2>2. Apart'
    BY <1>2, <1>6, <1>7, <2>1 DEF Good, Apart, InHands
  <2>3. Partition(n - 1, q)'
    <3> SUFFICES ASSUME NEW s \in Slot
                 PROVE  (\E i \in 0 .. n - 1 : q[i] = s) <=> ~(s \in live' \/ InHands(s)')
      BY DEF Partition
    <3> QED
      BY <1>2, <1>5, <1>7, <2>1 DEF Good, Partition
  <2> QED
    BY <2>2, <2>3
<1>9. Phases'
  BY <1>1, <1>2 DEF Good, Phases, Popping, TypeOK
<1>10. Locals'
  BY <1>1, <1>2, <1>3 DEF Good, Locals, TypeOK
<1>11. Loaded(n - 1, q)'
  <2> SUFFICES ASSUME NEW v \in Popping'
               PROVE  /\ ~closing
                      /\ v \in Popping /\ UNCHANGED <<pc[v], idx[v], nxt[v], state, closing>>
    BY <1>5 DEF Good, Loaded
  <2>1. v \in Workers /\ v # w /\ v \in Popping /\ w \in Popping
    BY <1>1, <1>2 DEF Popping, TypeOK
  <2>2. ~closing
    BY <2>1 DEF Good, Phases
  <2> QED
    BY <1>1, <1>2, <2>1, <2>2 DEF TypeOK
<1> QED
  BY <1>1, <1>4, <1>5, <1>8, <1>9, <1>10, <1>11 DEF Good, q

(* Whether w rewrites the word of a slot that it holds is no matter to the *)
(* list, nor to the others.                                                *)
LEMMA WriteHeld ==
  ASSUME NEW n \in Nat, NEW p, Good(n, p), NEW w \in Workers, Holds(w, idx[w]),
         \A r \in Slot : r # idx[w] => state'[r] = state[r], UNCHANGED <<idx, next>>
  PROVE  /\ IsList(n, p)' /\ \A i \in 0 .. n : p[i] # idx[w]
         /\ \A i \in 0 .. n : state'[p[i]] = state[p[i]]
         /\ \A v \in Workers \ {w} : pc[v] \in Hands =>
              idx[v] # idx[w] /\ state'[idx[v]] = state[idx[v]]
<1>1. idx[w] \in Slot /\ idx \in [Workers -> Slot] /\ state \in [Slot -> Link]
  BY DEF Good, TypeOK
<1>2. InHands(idx[w])
  BY DEF InHands
<1>3. \A i \in 0 .. n : p[i] \in Slot /\ p[i] # idx[w]
  BY <1>1, <1>2 DEF Good, Partition
<1>4. \A i \in 0 .. n : state'[p[i]] = state[p[i]]
  BY <1>1, <1>3
<1>5. IsList(n, p)'
  BY <1>3, <1>4 DEF Good, IsList
<1>6. \A v \in Workers \ {w} : pc[v] \in Hands => idx[v] # idx[w]
  BY <1>1 DEF Good, Apart, Holds
<1> QED
  BY <1>1, <1>3, <1>4, <1>5, <1>6

LEMMA MarkStep ==
  ASSUME NEW n, NEW p, Good(n, p), Next, NEW w \in Workers, Mark(w)
  PROVE  Good(n, p)'
<1> USE DEF At, Goto
<1> DEFINE s == idx[w]
<1>1. TypeOK /\ (TypeOK /\ LinksAreSlots)'
  BY TypeStep DEF Good
<1>2. pc[w] = "mark" /\ state[s] # InUse /\ s \in Slot
  BY <1>1 DEF Good, Locals, Mark, MarkInUse, TypeOK
<1>3. /\ pc' = [pc EXCEPT ![w] = "idle"] /\ state' = [state EXCEPT ![s] = InUse]
      /\ live' = live \cup {s} /\ UNCHANGED <<idx, next, nxt, closing>>
  BY <1>2 DEF Mark, MarkInUse
<1>4. /\ Holds(w, s) /\ IsList(n, p)'
      /\ \A i \in 0 .. n : p[i] # s /\ state'[p[i]] = state[p[i]]
      /\ \A v \in Workers \ {w} : pc[v] \in Hands => idx[v] # s /\ state'[idx[v]] = state[idx[v]]
  <2>1. Holds(w, s)
    BY <1>2 DEF Holds, Hands
  <2>2. \A r \in Slot : r # s => state'[r] = state[r]
    BY <1>1, <1>3 DEF TypeOK
  <2>3. n \in Nat
    BY DEF Good
  <2> QED
    BY <1>3, <2>1, <2>2, <2>3, WriteHeld
<1>5. \A v \in Workers, r \in Slot : Holds(v, r)' <=> Holds(v, r) /\ v # w
  BY <1>1, <1>3 DEF Holds, Hands, TypeOK
<1>6. Apart' /\ Partition(n, p)'
  <2>1. \A r \in Slot : InHands(r)' <=> InHands(r) /\ r # s
    BY <1>4, <1>5 DEF InHands, Holds
  <2>2. Apart'
    BY <1>3, <1>5, <2>1 DEF Good, Apart
  <2>3. Partition(n, p)'
    <3> SUFFICES ASSUME NEW r \in Slot
                 PROVE  (\E i \in 0 .. n : p[i] = r) <=> ~(r \in live' \/ InHands(r)')
      BY DEF Partition
    <3> QED
      BY <1>3, <1>4, <2>1 DEF Good, Partition
  <2> QED
    BY <2>2, <2>3
<1>7. Phases'
  BY <1>1, <1>2, <1>3 DEF Good, Phases, Popping, TypeOK
<1>8. Locals'
  BY <1>1, <1>2, <1>3, <1>4 DEF Good, Locals, Hands, TypeOK
<1>9. Loaded(n, p)'
  BY <1>1, <1>2, <1>3, <1>4 DEF Good, Loaded, Popping, TypeOK
<1> QED
  BY <1>1, <1>4, <1>6, <1>7, <1>8, <1>9 DEF Good

LEMMA CloseStep ==
  ASSUME ~Overlap, NEW n, NEW p, Good(n, p), Next, NEW w \in Workers, NEW s \in Slot, Close(w, s)
  PROVE  Good(n, p)'
<1> USE DEF At, Goto
<1>1. TypeOK /\ (TypeOK /\ LinksAreSlots)'
  BY TypeStep DEF Good
<1>2. /\ pc[w] = "idle" /\ s \in live /\ (closing \/ Popping = {})
      /\ pc' = [pc EXCEPT ![w] = "push"] /\ idx' = [idx EXCEPT ![w] = s]
      /\ live' = live \ {s} /\ closing' = TRUE /\ UNCHANGED <<state, next, nxt>>
  BY DEF Close, listVars
<1>3. IsList(n, p)'
  BY <1>2 DEF Good, IsList
<1>4. \A v \in Workers, r \in Slot : Holds(v, r)' <=> Holds(v, r) \/ (v = w /\ r = s)
  BY <1>1, <1>2 DEF Holds, Hands, TypeOK
<1>5. Apart' /\ Partition(n, p)'
  <2>1. \A r \in Slot : InHands(r)' <=> InHands(r) \/ r = s
    BY <1>4 DEF InHands
  <2>2. ~InHands(s)
    BY <1>2 DEF Good, Apart
  <2>3. Apart'
    BY <1>2, <1>4, <2>1, <2>2 DEF Good, Apart, InHands
  <2>4. Partition(n, p)'
    <3> SUFFICES ASSUME NEW r \in Slot
                 PROVE  (\E i \in 0 .. n : p[i] = r) <=> ~(r \in live' \/ InHands(r)')
      BY DEF Partition
    <3> QED
      BY <1>2, <2>1 DEF Good, Partition
  <2> QED
    BY <2>3, <2>4
<1>6. Popping' = Popping
  BY <1>1, <1>2 DEF Popping, TypeOK
<1>7. Phases'
  BY <1>2, <1>6 DEF Good, Phases
<1>8. Locals'
  BY <1>1, <1>2 DEF Good, Locals, TypeOK
<1>9. Loaded(n, p)'
  <2> SUFFICES ASSUME NEW v \in Popping
               PROVE  closing /\ UNCHANGED <<pc[v], idx[v], nxt[v], state, closing>>
    BY <1>6 DEF Good, Loaded
  <2>1. v \in Workers /\ v # w
    BY <1>2 DEF Popping
  <2> QED
    BY <1>1, <1>2, <2>1 DEF TypeOK
<1> QED
  BY <1>1, <1>3, <1>5, <1>7, <1>8, <1>9 DEF Good

(* The three steps of a worker that pushes, which keep the slot it holds.  *)
LEMMA ReadHeadStep ==
  ASSUME NEW n, NEW p, Good(n, p), Next, NEW w \in Workers, ReadHead(w),
         UNCHANGED <<live, closing>>
  PROVE  Good(n, p)'
<1> USE DEF At, Goto
<1>1. TypeOK /\ (TypeOK /\ LinksAreSlots)'
  BY TypeStep DEF Good
<1>2. /\ pc[w] = "push" /\ pc' = [pc EXCEPT ![w] = "store"] /\ nxt' = [nxt EXCEPT ![w] = next]
      /\ UNCHANGED <<idx, state, next, live, closing>>
  BY DEF ReadHead
<1>3. Apart' /\ IsList(n, p)' /\ Partition(n, p)'
  <2>1. \A v \in Workers, s \in Slot : Holds(v, s)' <=> Holds(v, s)
    BY <1>1, <1>2 DEF Holds, Hands, TypeOK
  <2> QED
    BY <1>2, <2>1, Still
<1>4. Phases'
  BY <1>1, <1>2 DEF Good, Phases, Popping, TypeOK
<1>5. Locals'
  BY <1>1, <1>2 DEF Good, Locals, TypeOK, ListTypeOK
<1>6. Loaded(n, p)'
  BY <1>1, <1>2 DEF Good, Loaded, Popping, TypeOK, ListTypeOK
<1> QED
  BY <1>1, <1>3, <1>4, <1>5, <1>6 DEF Good

LEMMA StoreLinkStep ==
  ASSUME NEW n, NEW p, Good(n, p), Next, NEW w \in Workers, StoreLink(w),
         UNCHANGED <<live, closing>>
  PROVE  Good(n, p)'
<1> USE DEF At, Goto
<1> DEFINE s == idx[w]
<1>1. TypeOK /\ (TypeOK /\ LinksAreSlots)'
  BY TypeStep DEF Good
<1>2. /\ pc[w] = "store" /\ pc' = [pc EXCEPT ![w] = "swing"]
      /\ state' = [state EXCEPT ![s] = nxt[w]]
      /\ UNCHANGED <<idx, next, nxt, live, closing>>
  BY DEF StoreLink
<1>3. /\ Holds(w, s) /\ IsList(n, p)'
      /\ \A i \in 0 .. n : p[i] # s /\ state'[p[i]] = state[p[i]]
      /\ \A v \in Workers \ {w} : pc[v] \in Hands => idx[v] # s /\ state'[idx[v]] = state[idx[v]]
  <2>1. Holds(w, s)
    BY <1>2 DEF Holds, Hands
  <2>2. \A r \in Slot : r # s => state'[r] = state[r]
    BY <1>1, <1>2 DEF TypeOK
  <2>3. n \in Nat
    BY DEF Good
  <2> QED
    BY <1>2, <2>1, <2>2, <2>3, WriteHeld
<1>4. Apart' /\ Partition(n, p)'
  <2>1. \A v \in Workers, r \in Slot : Holds(v, r)' <=> Holds(v, r)
    BY <1>1, <1>2 DEF Holds, Hands, TypeOK
  <2> QED
    BY <1>2, <2>1 DEF Good, Apart, Partition, InHands
<1>5. Phases'
  BY <1>1, <1>2 DEF Good, Phases, Popping, TypeOK
<1>6. Locals'
  <2>1. nxt[w] \in Slot /\ state'[s] = nxt[w]
    BY <1>1, <1>2 DEF Good, LinksAreSlots, TypeOK
  <2> QED
    BY <1>1, <1>2, <1>3, <2>1 DEF Good, Locals, Hands, TypeOK
<1>7. Loaded(n, p)'
  <2> SUFFICES ASSUME NEW v \in Popping, NEW i \in 0 .. n, p[i] = idx[v]
               PROVE  state'[idx[v]] = state[idx[v]]
    BY <1>1, <1>2 DEF Good, Loaded, Popping, TypeOK
  <2> QED
    BY <1>3
<1> QED
  BY <1>1, <1>3, <1>4, <1>5, <1>6, <1>7 DEF Good

LEMMA SwingHeadFails ==
  ASSUME NEW n, NEW p, Good(n, p), Next, NEW w \in Workers, SwingHead(w), next # nxt[w],
         UNCHANGED <<live, closing>>
  PROVE  Good(n, p)'
<1> USE DEF At, Goto
<1>1. TypeOK /\ (TypeOK /\ LinksAreSlots)'
  BY TypeStep DEF Good
<1>2. /\ pc[w] = "swing" /\ pc' = [pc EXCEPT ![w] = "store"] /\ nxt' = [nxt EXCEPT ![w] = next]
      /\ UNCHANGED <<idx, state, next, live, closing>>
  BY DEF SwingHead
<1>3. Apart' /\ IsList(n, p)' /\ Partition(n, p)'
  <2>1. \A v \in Workers, s \in Slot : Holds(v, s)' <=> Holds(v, s)
    BY <1>1, <1>2 DEF Holds, Hands, TypeOK
  <2> QED
    BY <1>2, <2>1, Still
<1>4. Phases'
  BY <1>1, <1>2 DEF Good, Phases, Popping, TypeOK
<1>5. Locals'
  BY <1>1, <1>2 DEF Good, Locals, TypeOK, ListTypeOK
<1>6. Loaded(n, p)'
  BY <1>1, <1>2 DEF Good, Loaded, Popping, TypeOK, ListTypeOK
<1> QED
  BY <1>1, <1>3, <1>4, <1>5, <1>6 DEF Good

(* The push: the slot goes from the hands of w to the list.                *)
LEMMA SwingHeadPushes ==
  ASSUME NEW n, NEW p, Good(n, p), Next, NEW w \in Workers, SwingHead(w), next = nxt[w],
         UNCHANGED <<live, closing>>, NEW r, r = idx[w]
  PROVE  /\ r \in Slot /\ \A i \in 0 .. n : p[i] # r
         /\ Good(n + 1, [i \in 0 .. n + 1 |-> IF i = 0 THEN r ELSE p[i - 1]])'
<1> USE DEF At, Goto
<1> DEFINE q == [i \in 0 .. n + 1 |-> IF i = 0 THEN r ELSE p[i - 1]]
<1>1. TypeOK /\ (TypeOK /\ LinksAreSlots)'
  BY TypeStep DEF Good
<1>2. /\ pc[w] = "swing" /\ pc' = [pc EXCEPT ![w] = "idle"] /\ next' = r
      /\ \A v \in Workers \ {w} : nxt'[v] = nxt[v]
      /\ UNCHANGED <<idx, state, live, closing>>
  BY <1>1 DEF SwingHead, Drop, TypeOK, ListTypeOK
<1>3. /\ r \in Slot /\ Holds(w, r) /\ InHands(r) /\ state[r] = next
      /\ \A i \in 0 .. n : p[i] # r
  <2>1. r \in Slot /\ Holds(w, r) /\ InHands(r)
    BY <1>1, <1>2 DEF Holds, Hands, InHands, TypeOK
  <2>2. state[r] = next
    BY <1>2 DEF Good, Locals
  <2> QED
    BY <2>1, <2>2 DEF Good, Partition
<1>4. /\ n + 1 \in Nat /\ q \in [0 .. n + 1 -> Slot] /\ IsList(n + 1, q)'
      /\ \A s : (\E i \in 0 .. n + 1 : q[i] = s) <=> s = r \/ \E i \in 0 .. n : p[i] = s
  <2>1. n \in Nat /\ p \in [0 .. n -> Slot] /\ IsList(n, p) /\ UNCHANGED state
    BY <1>2 DEF Good
  <2> QED
    BY <1>2, <1>3, <2>1, NextCons
<1> HIDE DEF q
<1>5. \A v \in Workers, s \in Slot : Holds(v, s)' <=> Holds(v, s) /\ v # w
  BY <1>1, <1>2 DEF Holds, Hands, TypeOK
<1>6. Apart' /\ Partition(n + 1, q)'
  <2>1. \A s \in Slot : InHands(s)' <=> InHands(s) /\ s # r
    BY <1>3, <1>5 DEF Good, Apart, InHands, Holds
  <2>2. Apart'
    BY <1>2, <1>5, <2>1 DEF Good, Apart
  <2>3. Partition(n + 1, q)'
    <3> SUFFICES ASSUME NEW s \in Slot
                 PROVE  (\E i \in 0 .. n + 1 : q[i] = s) <=> ~(s \in live' \/ InHands(s)')
      BY DEF Partition
    <3>1. r \notin live
      BY <1>3 DEF Good, Apart
    <3>2. CASE s = r
      BY <1>2, <1>4, <2>1, <3>1, <3>2
    <3>3. CASE s # r
      BY <1>2, <1>4, <2>1, <3>3 DEF Good, Partition
    <3> QED
      BY <3>2, <3>3
  <2> QED
    BY <2>2, <2>3
<1>7. Phases'
  BY <1>1, <1>2 DEF Good, Phases, Popping, TypeOK
<1>8. Locals'
  BY <1>1, <1>2 DEF Good, Locals, TypeOK
<1>9. closing
  BY <1>2 DEF Good, Phases
<1>10. Loaded(n + 1, q)'
  <2> SUFFICES ASSUME NEW v \in Popping'
               PROVE  /\ pc'[v] # "insert" => \E i \in 0 .. n + 1 : q[i] = idx'[v]
                      /\ pc'[v] = "take" => state'[idx'[v]] = nxt'[v]
    BY <1>2, <1>9 DEF Loaded
  <2>1. v # w /\ v \in Popping /\ pc'[v] = pc[v]
    BY <1>1, <1>2 DEF Popping, TypeOK
  <2>2. pc[v] # "insert" => \E i \in 0 .. n : p[i] = idx[v]
    BY <1>9, <2>1 DEF Good, Loaded
  <2>3. pc[v] = "take" => state[idx[v]] = nxt[v]
    BY <2>1, <2>2 DEF Good, Loaded
  <2> QED
    BY <1>2, <1>4, <2>1, <2>2, <2>3 DEF Popping
<1> QED
  BY <1>1, <1>3, <1>4, <1>6, <1>7, <1>8, <1>10 DEF Good, q

(* What a step does to the list: nothing, a pop or a push.                 *)
Popped(n, p)    == Good(n - 1, [i \in 0 .. n - 1 |-> p[i + 1]])
Pushed(n, p, r) == Good(n + 1, [i \in 0 .. n + 1 |-> IF i = 0 THEN r ELSE p[i - 1]])

LEMMA GoodStep ==
  ASSUME ~Overlap, NEW n, NEW p, Good(n, p), [Next]_vars
  PROVE  \/ Good(n, p)'
         \/ n > 0 /\ Popped(n, p)'
         \/ \E r \in Slot : (\A i \in 0 .. n : p[i] # r) /\ Pushed(n, p, r)'
<1> DEFINE Goal == \/ Good(n, p)'
                   \/ n > 0 /\ Popped(n, p)'
                   \/ \E r \in Slot : (\A i \in 0 .. n : p[i] # r) /\ Pushed(n, p, r)'
<1> SUFFICES Goal
  OBVIOUS
<1>1. ASSUME NEW w \in Workers, Next, Accept(w) PROVE Goal
  BY <1>1, AcceptStep
<1>2. ASSUME NEW w \in Workers, Next, Mark(w) PROVE Goal
  BY <1>2, MarkStep
<1>3. ASSUME NEW w \in Workers, Next, Pop(w), UNCHANGED <<live, closing>> PROVE Goal
  <2>1. CASE LoadHead(w)
    BY <1>3, <2>1, LoadHeadStep
  <2>2. CASE LoadLink(w)
    BY <1>3, <2>2, LoadLinkStep
  <2>3. CASE TakeHead(w) /\ next # idx[w]
    BY <1>3, <2>3, TakeHeadFails
  <2>4. CASE TakeHead(w) /\ next = idx[w]
    BY <1>3, <2>4, TakeHeadTakes DEF Popped
  <2> QED
    BY <1>3, <2>1, <2>2, <2>3, <2>4 DEF Pop
<1>4. ASSUME NEW w \in Workers, Next, Push(w), UNCHANGED <<live, closing>> PROVE Goal
  <2>1. CASE ReadHead(w)
    BY <1>4, <2>1, ReadHeadStep
  <2>2. CASE StoreLink(w)
    BY <1>4, <2>2, StoreLinkStep
  <2>3. CASE SwingHead(w) /\ next # nxt[w]
    BY <1>4, <2>3, SwingHeadFails
  <2>4. CASE SwingHead(w) /\ next = nxt[w]
    <3>1. PICK r : r = idx[w]
      OBVIOUS
    <3>2. r \in Slot /\ (\A i \in 0 .. n : p[i] # r) /\ Pushed(n, p, r)'
      BY <1>4, <2>4, <3>1, SwingHeadPushes DEF Pushed
    <3> QED
      BY <3>2
  <2> QED
    BY <1>4, <2>1, <2>2, <2>3, <2>4 DEF Push
<1>5. ASSUME NEW w \in Workers, NEW s \in Slot, Next, Close(w, s) PROVE Goal
  BY <1>5, CloseStep
<1>6. CASE UNCHANGED vars
  BY <1>6 DEF vars, listVars, Good, TypeOK, ListTypeOK, LinksAreSlots, Apart, Phases, Locals,
     IsList, Partition, Loaded, InHands, Holds, Popping, At
<1> QED
  BY <1>1, <1>2, <1>3, <1>4, <1>5, <1>6 DEF Next, Step

-----------------------------------------------------------------------------
(* The theorems.                                                           *)

(* Every local, link and word of the free list stays in its range, whoever *)
(* pops and pushes at the same time: the list is never indexed out of the  *)
(* table, the CAS of insert never stores the end of the list as the head.  *)
THEOREM TypeCorrect == Spec => []TypeOK
<1>1. TypeOK /\ LinksAreSlots => TypeOK
  OBVIOUS
<1> QED
  BY TypeInit, TypeStep, PTL DEF Spec

(* What a step preserves, with the list hidden again.                      *)
LEMMA InvNext == \A m, q : Good(m, q)' => IInv'
<1>1. \A m, q : Good(m, q) => IInv
  BY GoodIsIInv DEF Good
<1>2. (\A m, q : Good(m, q) => IInv)'
  BY <1>1, PTL
<1> QED
  BY <1>2

LEMMA InvStep == ASSUME ~Overlap PROVE IInv /\ [Next]_vars => IInv'
<1> SUFFICES ASSUME IInv, [Next]_vars PROVE IInv'
  OBVIOUS
<1>0. PICK n \in Nat : \E p \in [0 .. n -> Slot] : Good(n, p)
  BY GoodIsIInv
<1>1. PICK p \in [0 .. n -> Slot] : Good(n, p)
  BY <1>0
<1>2. \A m, q : Good(m, q)' => IInv'
  BY InvNext
<1>3. CASE Good(n, p)'
  BY <1>2, <1>3
<1>4. CASE Popped(n, p)'
  BY <1>2, <1>4 DEF Popped
<1>5. CASE \E r \in Slot : Pushed(n, p, r)'
  BY <1>2, <1>5 DEF Pushed
<1> QED
  BY <1>1, <1>3, <1>4, <1>5, GoodStep

LEMMA Inductive == ASSUME ~Overlap PROVE Spec => []IInv
<1>1. Init => IInv
  BY GoodInit, GoodIsIInv
<1> QED
  BY <1>1, InvStep, PTL DEF Spec

(* If accepting does not overlap, the words of the slots are a list from   *)
(* the head to a slot that links to nothing, the slots that are not on it  *)
(* are in use or in the hands of one worker, and a worker that is about to *)
(* swap the head holds the link of a slot on the list, whatever happened   *)
(* between its loads.                                                      *)
THEOREM ListInvariant == ~Overlap => (Spec => []IInv)
BY Inductive

LEMMA GoodLosesNoSlot ==
  ASSUME NEW n, NEW p, Good(n, p)
  PROVE  NoSlotLost
<1>1. n \in 0 .. NSlots - 1 /\ Walk = Along(n, p)
  BY ListFits, WalkAlong DEF Good, IsList
<1>2. NSlots \in Nat /\ NSlots > n /\ Walk[NSlots] = End
  BY <1>1, SlotsAssumption DEF Along
<1>3. ASSUME NEW s \in Slot PROVE s \in OnList <=> \E i \in 0 .. n : p[i] = s
  <2>1. \A k \in 0 .. NSlots - 1 : Walk[k] = IF k <= n THEN p[k] ELSE End
    BY <1>1, SlotsAssumption DEF Along
  <2>2. \A i \in 0 .. n : i \in 0 .. NSlots - 1 /\ i <= n
    BY <1>1, SlotsAssumption
  <2>3. s # End
    BY LinkFacts
  <2>4. \A k \in 0 .. NSlots - 1 : k <= n => k \in 0 .. n
    BY <1>1, SlotsAssumption
  <2> QED
    BY <2>1, <2>2, <2>3, <2>4 DEF OnList
<1>4. ASSUME NEW s \in Slot PROVE (s \in OnList) # (s \in live \/ InHands(s))
  <2>1. (\E i \in 0 .. n : p[i] = s) <=> ~(s \in live \/ InHands(s))
    BY DEF Good, Partition
  <2> QED
    BY <1>3, <2>1
<1> QED
  BY <1>2, <1>4 DEF Good, Apart, NoSlotLost

(* If accepting does not overlap, no slot is lost and none is in two       *)
(* places, for any number of workers that insert or remove: the CAS loops  *)
(* need no lock, although a link is read from a word that says two things. *)
THEOREM NoSlotIsLost == ~Overlap => (Spec => []NoSlotLost)
<1> SUFFICES ASSUME ~Overlap PROVE Spec => []NoSlotLost
  OBVIOUS
<1>1. IInv => NoSlotLost
  BY GoodIsIInv, GoodLosesNoSlot
<1> QED
  BY <1>1, Inductive, PTL

(* Without overlap the comment of insert is right: a worker that marks the *)
(* slot it has taken finds no connection in it.                            *)
THEOREM SlotIsTakenOnce == ~Overlap => (Spec => OneConnectionPerSlot)
<1> SUFFICES ASSUME ~Overlap PROVE Spec => OneConnectionPerSlot
  OBVIOUS
<1> DEFINE TakesFree == \A w \in Workers : At(w, "mark") /\ At(w, "idle")' => idx[w] \notin live
<1>1. IInv /\ [Next]_vars => [TakesFree]_vars
  BY DEF IInv, TypeOK, Apart, InHands, Holds, Hands, At
<1>2. [][TakesFree]_vars => OneConnectionPerSlot
  BY DEF OneConnectionPerSlot
<1> QED
  BY <1>1, <1>2, Inductive, PTL DEF Spec

-----------------------------------------------------------------------------
(* The stack.                                                              *)

LEMMA StackInit == Init => Stack!Init
BY StackStarts DEF Init

LEMMA StackStep == ASSUME ~Overlap PROVE IInv /\ [Next]_vars => [Stack!Next]_Contents
<1> SUFFICES ASSUME IInv, [Next]_vars PROVE [Stack!Next]_Contents
  OBVIOUS
<1>0. PICK n \in Nat : \E p \in [0 .. n -> Slot] : Good(n, p)
  BY GoodIsIInv
<1>1. PICK p \in [0 .. n -> Slot] : Good(n, p)
  BY <1>0
<1>2. Listed(n, p)
  BY <1>1 DEF Good, Listed
<1>3. CASE Good(n, p)'
  <2>1. Listed(n, p)'
    BY <1>3 DEF Good, Listed, Slot
  <2> QED
    BY <1>2, <2>1, StackStays
<1>4. CASE n > 0 /\ Popped(n, p)'
  <2> DEFINE q == [i \in 0 .. n - 1 |-> p[i + 1]]
  <2>1. Listed(n - 1, q)'
    BY <1>4 DEF Popped, Good, Listed, Slot
  <2> QED
    BY <1>2, <1>4, <2>1, StackTakes
<1>5. ASSUME NEW r \in Slot, \A i \in 0 .. n : p[i] # r, Pushed(n, p, r)'
      PROVE  Stack!Next
  <2> DEFINE q == [i \in 0 .. n + 1 |-> IF i = 0 THEN r ELSE p[i - 1]]
  <2>1. Listed(n + 1, q)'
    BY <1>5 DEF Pushed, Good, Listed, Slot
  <2>2. ~On(n, p, r)
    BY <1>5 DEF On
  <2> QED
    BY <1>2, <2>1, <2>2, StackGives
<1> QED
  BY <1>1, <1>3, <1>4, <1>5, GoodStep

(* If accepting does not overlap, the list is a stack: insert takes the    *)
(* slot that was on top, in the one step of its successful CAS, remove     *)
(* puts its slot on top in the one step of its own, nothing else changes   *)
(* the list, and the slot at the bottom is never handed out.               *)
THEOREM Refinement == ~Overlap => (Spec => IsStack)
<1> SUFFICES ASSUME ~Overlap PROVE Spec => IsStack
  OBVIOUS
<1> QED
  BY StackInit, StackStep, Inductive, PTL DEF Spec, IsStack, Stack!Spec
=============================================================================
