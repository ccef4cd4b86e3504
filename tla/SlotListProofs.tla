--------------------------- MODULE SlotListProofs ---------------------------
(***************************************************************************)
(* What the proofs about FreeList and SharedServer need of SlotList: the   *)
(* recursive Walk visits a list that is given as a function, a list fits   *)
(* the table, and what a pop and a push leave of it.                       *)
(***************************************************************************)
EXTENDS SlotList, Sequences, FunctionTheorems, FiniteSetTheorems, WellFoundedInduction,
        NaturalsInduction, TLAPS

LEMMA LinkFacts ==
  Link = Slot \cup {End} /\ End \notin Slot /\ InUse \in Slot /\ 0 \in Slot
BY SlotsAssumption DEF Link, Slot, End, InUse

(* The CAS of a worker in insert and remove stores a slot.                 *)
LinksAreSlots ==
  \A w \in Workers : pc[w] \in {"take", "store"} => nxt[w] \in Slot

(* Induction over the naturals, for a property given as a set.             *)
LEMMA SetInduction ==
  ASSUME NEW S, 0 \in S, \A n \in Nat : n \in S => n + 1 \in S
  PROVE  Nat \subseteq S
<1> SUFFICES ASSUME Nat \ S # {} PROVE FALSE
  OBVIOUS
<1> DEFINE Less == {ss \in Nat \X Nat : ss[1] < ss[2]}
<1>1. IsWellFoundedOn(Less, Nat)
  BY NatLessThanWellFounded DEF OpToRel
<1>2. PICK m \in Nat \ S : \A k \in Nat \ S : <<k, m>> \notin Less
  <2> HIDE DEF Less
  <2> QED
    BY <1>1, WFMin, Zenon
<1>3. m - 1 \in Nat \ S /\ <<m - 1, m>> \in Less
  <2>1. m # 0 /\ m - 1 \in Nat
    OBVIOUS
  <2> QED
    BY <2>1
<1> QED
  BY <1>2, <1>3

(* The slots that a walk visits along a list, and the end after them.      *)
Along(n, p) == [k \in Nat |-> IF k <= n THEN p[k] ELSE End]

LEMMA WalkAlong ==
  ASSUME NEW n \in Nat, NEW p \in [0 .. n -> Slot], IsList(n, p)
  PROVE  Walk = Along(n, p)
<1> DEFINE Follows(f) == f = [k \in Nat |-> IF k = 0 THEN next ELSE After(f[k - 1])]
           path == Along(n, p)
<1>1. Follows(path)
  <2>1. ASSUME NEW k \in Nat PROVE path[k] = IF k = 0 THEN next ELSE After(path[k - 1])
    BY DEF Along, IsList, After, Slot, End
  <2> QED
    BY <2>1 DEF Along
<1>2. Follows(Walk)
  <2>1. Walk = CHOOSE f : Follows(f)
    BY DEF Walk
  <2> QED
    BY <1>1, <2>1, Zenon
<1> DEFINE Same == {k \in Nat : Walk[k] = path[k]}
<1>3. 0 \in Same
  BY <1>1, <1>2
<1>4. ASSUME NEW k \in Same PROVE k + 1 \in Same
  BY <1>1, <1>2
<1>5. Nat \subseteq Same
  BY <1>3, <1>4, SetInduction
<1> QED
  BY <1>1, <1>2, <1>5

(* A list without a slot twice is not longer than the table.               *)
LEMMA ListFits ==
  ASSUME NEW n \in Nat, NEW p \in [0 .. n -> Slot],
         \A i, j \in 0 .. n : p[i] = p[j] => i = j
  PROVE  n \in 0 .. NSlots - 1
<1>1. p \in Injection(0 .. n, Slot)
  BY Fun_IsInj
<1>2. IsFiniteSet(Slot) /\ Cardinality(Slot) = NSlots
  BY FS_Interval, SlotsAssumption DEF Slot
<1>3. Cardinality(0 .. n) = n + 1
  BY FS_Interval
<1>4. n + 1 <= NSlots
  BY <1>1, <1>2, <1>3, FS_Injection
<1> QED
  BY <1>4, SlotsAssumption

-----------------------------------------------------------------------------
(* Pops and pushes.                                                        *)

(* A list, of a head and of words that link: IsList of the two variables.  *)
Linked(head, link, n, p) ==
  /\ p[0] = head /\ link[p[n]] = End
  /\ \A i \in 0 .. n - 1 : link[p[i]] = p[i + 1]
  /\ \A i, j \in 0 .. n : p[i] = p[j] => i = j

(* The head is popped: what follows it is the list.                        *)
LEMMA ListTail ==
  ASSUME NEW n \in Nat, NEW p \in [0 .. n -> Slot], NEW head, NEW link,
         Linked(head, link, n, p), n > 0, NEW q, q = [i \in 0 .. n - 1 |-> p[i + 1]]
  PROVE  /\ n - 1 \in Nat /\ q \in [0 .. n - 1 -> Slot] /\ Linked(p[1], link, n - 1, q)
         /\ \A s : On(n - 1, q, s) <=> s # head /\ On(n, p, s)
<1>1. n - 1 \in Nat /\ q \in [0 .. n - 1 -> Slot]
  OBVIOUS
<1>2. Linked(p[1], link, n - 1, q)
  <2>1. q[0] = p[1] /\ link[q[n - 1]] = End
    BY DEF Linked
  <2>2. \A i \in 0 .. n - 2 : link[q[i]] = q[i + 1]
    BY DEF Linked
  <2>3. \A i, j \in 0 .. n - 1 : q[i] = q[j] => i = j
    <3> SUFFICES ASSUME NEW i \in 0 .. n - 1, NEW j \in 0 .. n - 1, p[i + 1] = p[j + 1]
                 PROVE  i = j
      OBVIOUS
    <3>1. i + 1 \in 0 .. n /\ j + 1 \in 0 .. n
      OBVIOUS
    <3> QED
      BY <3>1 DEF Linked
  <2> QED
    BY <2>1, <2>2, <2>3 DEF Linked
<1>3. ASSUME NEW s PROVE On(n - 1, q, s) <=> s # head /\ On(n, p, s)
  <2>1. ASSUME NEW i \in 0 .. n - 1, q[i] = s PROVE s # head /\ \E j \in 0 .. n : p[j] = s
    <3>1. i + 1 \in 0 .. n /\ 0 \in 0 .. n /\ p[i + 1] = s /\ i + 1 # 0
      BY <2>1
    <3> QED
      BY <3>1 DEF Linked
  <2>2. ASSUME NEW j \in 0 .. n, p[j] = s, s # head PROVE \E i \in 0 .. n - 1 : q[i] = s
    <3>1. j - 1 \in 0 .. n - 1 /\ q[j - 1] = s
      BY <2>2 DEF Linked
    <3> QED
      BY <3>1
  <2> QED
    BY <2>1, <2>2 DEF On
<1> QED
  BY <1>1, <1>2, <1>3

(* A slot that is not on the list is pushed.                               *)
LEMMA ListCons ==
  ASSUME NEW n \in Nat, NEW p \in [0 .. n -> Slot], NEW head, NEW link,
         Linked(head, link, n, p), NEW r \in Slot, \A i \in 0 .. n : p[i] # r, link[r] = head,
         NEW q, q[0] = r, \A i \in 1 .. n + 1 : q[i] = p[i - 1]
  PROVE  Linked(r, link, n + 1, q)
<1>1. q[0] = r /\ link[q[n + 1]] = End
  <2>1. q[n + 1] = p[n]
    OBVIOUS
  <2> QED
    BY <2>1 DEF Linked
<1>2. ASSUME NEW i \in 0 .. n + 1 - 1 PROVE link[q[i]] = q[i + 1]
  <2>1. CASE i = 0
    BY <2>1 DEF Linked
  <2>2. CASE i # 0
    BY <2>2 DEF Linked
  <2> QED
    BY <2>1, <2>2
<1>3. ASSUME NEW i \in 0 .. n + 1, NEW j \in 0 .. n + 1, q[i] = q[j] PROVE i = j
  <2>1. CASE i # 0 /\ j # 0
    <3>1. i - 1 \in 0 .. n /\ j - 1 \in 0 .. n /\ p[i - 1] = p[j - 1]
      BY <1>3, <2>1
    <3> QED
      BY <3>1 DEF Linked
  <2>2. CASE i = 0 \/ j = 0
    BY <1>3, <2>2
  <2> QED
    BY <2>1, <2>2
<1> QED
  BY <1>1, <1>2, <1>3 DEF Linked

LEMMA OnCons ==
  ASSUME NEW n \in Nat, NEW p, NEW r, NEW q, q[0] = r, \A i \in 1 .. n + 1 : q[i] = p[i - 1],
         NEW s
  PROVE  On(n + 1, q, s) <=> s = r \/ On(n, p, s)
<1>1. ASSUME NEW i \in 0 .. n + 1, q[i] = s PROVE s = r \/ \E j \in 0 .. n : p[j] = s
  <2>1. CASE i = 0
    BY <1>1, <2>1
  <2>2. CASE i # 0
    <3>1. i - 1 \in 0 .. n /\ p[i - 1] = s
      BY <1>1, <2>2
    <3> QED
      BY <3>1
  <2> QED
    BY <2>1, <2>2
<1>2. ASSUME NEW j \in 0 .. n, p[j] = s PROVE \E i \in 0 .. n + 1 : q[i] = s
  <2>1. j + 1 \in 0 .. n + 1 /\ q[j + 1] = s
    BY <1>2
  <2> QED
    BY <2>1
<1>3. q[0] = r /\ 0 \in 0 .. n + 1
  OBVIOUS
<1> QED
  BY <1>1, <1>2, <1>3 DEF On

(* The same of the list in the variables, before and after a step.         *)
LEMMA NextTail ==
  ASSUME NEW n \in Nat, NEW p \in [0 .. n -> Slot], IsList(n, p), n > 0,
         UNCHANGED state, next' = p[1]
  PROVE  LET q == [i \in 0 .. n - 1 |-> p[i + 1]] IN
         /\ n - 1 \in Nat /\ q \in [0 .. n - 1 -> Slot] /\ IsList(n - 1, q)'
         /\ \A s : (\E i \in 0 .. n - 1 : q[i] = s) <=> s # next /\ \E i \in 0 .. n : p[i] = s
<1> DEFINE q == [i \in 0 .. n - 1 |-> p[i + 1]]
<1>1. Linked(next, state, n, p) /\ q = [i \in 0 .. n - 1 |-> p[i + 1]]
  BY DEF IsList, Linked
<1> HIDE DEF q
<1>2. n - 1 \in Nat /\ q \in [0 .. n - 1 -> Slot] /\ Linked(p[1], state, n - 1, q)
  BY <1>1, ListTail
<1>3. \A s : On(n - 1, q, s) <=> s # next /\ On(n, p, s)
  BY <1>1, ListTail
<1> QED
  BY <1>2, <1>3 DEF On, IsList, Linked, q

LEMMA NextCons ==
  ASSUME NEW n \in Nat, NEW p \in [0 .. n -> Slot], IsList(n, p), NEW r \in Slot,
         \A i \in 0 .. n : p[i] # r, state[r] = next, UNCHANGED state, next' = r
  PROVE  LET q == [i \in 0 .. n + 1 |-> IF i = 0 THEN r ELSE p[i - 1]] IN
         /\ n + 1 \in Nat /\ q \in [0 .. n + 1 -> Slot] /\ IsList(n + 1, q)'
         /\ \A s : (\E i \in 0 .. n + 1 : q[i] = s) <=> s = r \/ \E i \in 0 .. n : p[i] = s
<1> DEFINE q == [i \in 0 .. n + 1 |-> IF i = 0 THEN r ELSE p[i - 1]]
<1>1. Linked(next, state, n, p)
  BY DEF IsList, Linked
<1>0. /\ n + 1 \in Nat /\ q \in [0 .. n + 1 -> Slot]
      /\ q[0] = r /\ \A i \in 1 .. n + 1 : q[i] = p[i - 1]
  OBVIOUS
<1> HIDE DEF q
<1>2. Linked(r, state, n + 1, q)
  BY <1>0, <1>1, ListCons
<1>3. ASSUME NEW s PROVE On(n + 1, q, s) <=> s = r \/ On(n, p, s)
  BY <1>0, OnCons
<1> QED
  BY <1>0, <1>2, <1>3 DEF On, IsList, Linked, q

-----------------------------------------------------------------------------
(* The stack of SlotStack: what the steps of a server do to it, by what    *)
(* they do to the list.                                                    *)

Listed(n, p) == n \in Nat /\ p \in [0 .. n -> Slot] /\ IsList(n, p)

LEMMA ContentsAre ==
  \A n, p : Listed(n, p) => Contents = [k \in 1 .. n + 1 |-> p[k - 1]]
<1> SUFFICES ASSUME NEW n, NEW p, Listed(n, p)
             PROVE  Contents = [k \in 1 .. n + 1 |-> p[k - 1]]
  OBVIOUS
<1>1. n \in 0 .. NSlots - 1 /\ Walk = Along(n, p) /\ n \in Nat /\ p \in [0 .. n -> Slot]
  BY ListFits, WalkAlong DEF Listed, IsList
<1>2. \A k \in Nat : Walk[k] # End <=> k <= n
  BY <1>1, LinkFacts DEF Along
<1>3. {m \in 0 .. NSlots - 1 : \A k \in 0 .. m : Walk[k] # End} = 0 .. n
  BY <1>1, <1>2, SlotsAssumption
<1>4. ListLength = n + 1
  <2>1. Cardinality(0 .. n) = n + 1
    BY <1>1, FS_Interval
  <2> QED
    BY <1>3, <2>1, Zenon DEF ListLength
<1>5. \A k \in 1 .. n + 1 : Walk[k - 1] = p[k - 1]
  BY <1>1 DEF Along
<1> QED
  BY <1>4, <1>5 DEF Contents

LEMMA ContentsNext ==
  \A n, p : Listed(n, p)' => Contents' = [k \in 1 .. n + 1 |-> p[k - 1]]
<1>1. (\A n, p : Listed(n, p) => Contents = [k \in 1 .. n + 1 |-> p[k - 1]])'
  BY ContentsAre, PTL
<1> QED
  BY <1>1

(* Server::new: the stack is full, slot 0 on top.                          *)
LEMMA StackStarts ==
  ASSUME state = InitState, ListInit
  PROVE  Stack!Init
<1> DEFINE n == NSlots - 1
           p == [i \in 0 .. n |-> i]
<1>1. Listed(n, p)
  BY SlotsAssumption DEF Listed, IsList, ListInit, InitState, Slot, End
<1>2. n + 1 = NSlots /\ \A k \in 1 .. n + 1 : p[k - 1] = k - 1
  BY SlotsAssumption
<1> HIDE DEF n, p
<1>3. Contents = [k \in 1 .. n + 1 |-> p[k - 1]]
  BY <1>1, ContentsAre
<1> QED
  BY <1>2, <1>3 DEF Stack!Init

(* The list stays, loses its head, or gets a slot that was not on it.      *)
LEMMA StackStays ==
  ASSUME NEW n, NEW p, Listed(n, p), Listed(n, p)'
  PROVE  UNCHANGED Contents
<1>1. Contents = [k \in 1 .. n + 1 |-> p[k - 1]]
  BY ContentsAre
<1>2. Contents' = [k \in 1 .. n + 1 |-> p[k - 1]]
  BY ContentsNext
<1> QED
  BY <1>1, <1>2

LEMMA StackTakes ==
  ASSUME NEW n, NEW p, Listed(n, p), n > 0,
         Listed(n - 1, [i \in 0 .. n - 1 |-> p[i + 1]])'
  PROVE  Stack!Next
<1> DEFINE q == [i \in 0 .. n - 1 |-> p[i + 1]]
<1>1. n \in Nat /\ Contents = [k \in 1 .. n + 1 |-> p[k - 1]]
  BY ContentsAre DEF Listed
<1>2. Contents' = [k \in 1 .. n - 1 + 1 |-> q[k - 1]]
  BY ContentsNext
<1>3. Contents' = [k \in 1 .. n |-> p[k]]
  BY <1>1, <1>2
<1>4. Len(Contents) > 1 /\ Contents' = Tail(Contents)
  BY <1>1, <1>3
<1> QED
  BY <1>4 DEF Stack!Next, Stack!Take

LEMMA StackGives ==
  ASSUME NEW n, NEW p, Listed(n, p), NEW r \in Slot, ~On(n, p, r),
         Listed(n + 1, [i \in 0 .. n + 1 |-> IF i = 0 THEN r ELSE p[i - 1]])'
  PROVE  Stack!Next
<1> DEFINE q == [i \in 0 .. n + 1 |-> IF i = 0 THEN r ELSE p[i - 1]]
<1>1. n \in Nat /\ Contents = [k \in 1 .. n + 1 |-> p[k - 1]]
  BY ContentsAre DEF Listed
<1>2. Contents' = [k \in 1 .. n + 1 + 1 |-> q[k - 1]]
  BY ContentsNext
<1>3. Contents' = <<r>> \o Contents
  BY <1>1, <1>2
<1>4. r \notin {Contents[i] : i \in DOMAIN Contents}
  BY <1>1 DEF On
<1> QED
  BY <1>3, <1>4 DEF Stack!Next, Stack!Give, Stack!ToSet, Slot
=============================================================================
