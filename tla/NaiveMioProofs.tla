--------------------------- MODULE NaiveMioProofs ---------------------------
(***************************************************************************)
(* IInv is an inductive invariant of NaiveMio for any number of clients,   *)
(* any size of the slab and any amount of input, and what follows from it. *)
(***************************************************************************)
EXTENDS NaiveMio, TLAPS

LEMMA TokenFacts == LISTENER \notin Token /\ Nobody \notin Clients
BY NaiveAssumption DEF LISTENER, Token

(* The two halves of EveryConnectionIsWatched, client by client and token  *)
(* by token.                                                               *)
InSlab(c) ==
  link[c] = "open" => \E t \in Token : slab[t] = c /\ \A u \in Token \ {t} : slab[u] # c

Watched(t) ==
  IF slab[t] = Nobody
    THEN armed[t] = "nothing" /\ \A e \in batch : e[1] # t
    ELSE \/ /\ armed[t] # "nothing" /\ armed[t] = Interest(state[t])
            /\ \A e \in batch : e[1] # t
         \/ /\ armed[t] = "nothing" /\ <<t, slab[t]>> \in batch
            /\ \A e \in batch : e[1] = t => e = <<t, slab[t]>>

LEMMA WatchedEquivalence ==
  EveryConnectionIsWatched <=>
    (~down => (\A c \in Clients : InSlab(c)) /\ (\A t \in Token : Watched(t)))
<1>1. ASSUME NEW t \in Token
      PROVE  Watched(t) <=>
               IF slab[t] = Nobody
                 THEN armed[t] = "nothing" /\ ~\E e \in batch : e[1] = t
                 ELSE LET own == {e \in batch : e[1] = t} IN
                      \/ own = {} /\ armed[t] # "nothing" /\ armed[t] = Interest(state[t])
                      \/ own = {<<t, slab[t]>>} /\ armed[t] = "nothing"
  <2> DEFINE own == {e \in batch : e[1] = t}
  <2>1. own = {} <=> \A e \in batch : e[1] # t
    OBVIOUS
  <2>2. own = {<<t, slab[t]>>} <=>
          <<t, slab[t]>> \in batch /\ \A e \in batch : e[1] = t => e = <<t, slab[t]>>
    OBVIOUS
  <2> QED
    BY <2>1, <2>2 DEF Watched
<1> QED
  BY <1>1 DEF EveryConnectionIsWatched, InSlab

LEMMA WatchedNext ==
  (~down => (\A c \in Clients : InSlab(c)) /\ (\A t \in Token : Watched(t)))'
    => EveryConnectionIsWatched'
BY WatchedEquivalence, PTL

LEMMA InitInv == Init => IInv
<1> SUFFICES ASSUME Init PROVE IInv
  OBVIOUS
<1> USE NaiveAssumption DEF Init
<1>1. TypeOK
  <2>1. 0 \in 0 .. MaxSent /\ 0 \in 0 .. Whole
    BY DEF Whole
  <2>2. \A c \in Clients : taken[c] <= sent[c] /\ got[c] <= written[c]
    <3>1. \A c \in Clients : taken[c] = 0 /\ sent[c] = 0 /\ got[c] = 0 /\ written[c] = 0
      BY Zenon
    <3>2. 0 <= 0
      OBVIOUS
    <3> QED
      BY <3>1, <3>2, Zenon
  <2>3. /\ backlog \in Seq(Clients) /\ slab \in [Token -> Clients \cup {Nobody}]
        /\ batch \subseteq (Token \X Clients) \cup {<<LISTENER, Nobody>>}
    OBVIOUS
  <2> QED
    BY <2>1, <2>2, <2>3 DEF TypeOK
<1>2. Queue /\ Entries /\ Responding
  BY DEF Queue, Entries, Responding
<1>3. EveryConnectionIsWatched
  BY WatchedEquivalence DEF InSlab, Watched
<1> QED
  BY <1>1, <1>2, <1>3 DEF IInv

(* A token that has an event is that of an open connection, and has no     *)
(* other event; nobody else's is under it or it under another.             *)
LEMMA EventFacts ==
  ASSUME IInv, NEW t \in Token, Event(t)
  PROVE  /\ ~down /\ slab[t] \in Clients /\ link[slab[t]] = "open"
         /\ \A u \in Token : slab[u] = slab[t] => u = t
<1>1. ~down /\ Watched(t)
  BY WatchedEquivalence DEF IInv, Event
<1>2. slab[t] # Nobody
  BY <1>1 DEF Event, Watched
<1>3. slab[t] \in Clients /\ link[slab[t]] = "open"
  BY <1>2 DEF IInv, TypeOK, Entries
<1>4. InSlab(slab[t])
  BY <1>1, <1>3, WatchedEquivalence DEF IInv
<1> QED
  BY <1>1, <1>3, <1>4 DEF InSlab

-----------------------------------------------------------------------------
(* The steps of clients and the poll.                                      *)

LEMMA ConnectStep == ASSUME IInv, NEW c \in Clients, Connect(c) PROVE IInv'
<1> USE DEF IInv
<1>1. /\ link[c] \in {"away", "dropped"} /\ link' = [link EXCEPT ![c] = "queued"]
      /\ backlog' = Append(backlog, c)
      /\ peer' = [peer EXCEPT ![c] = "open"] /\ sent' = [sent EXCEPT ![c] = 0]
      /\ got' = [got EXCEPT ![c] = 0] /\ taken' = [taken EXCEPT ![c] = 0]
      /\ written' = [written EXCEPT ![c] = 0]
      /\ UNCHANGED <<slab, state, armed, batch, down>>
  BY DEF Connect
<1>2. TypeOK'
  <2>1. 0 \in 0 .. MaxSent /\ 0 \in 0 .. Whole
    BY NaiveAssumption DEF Whole
  <2> QED
    BY <1>1, <2>1 DEF TypeOK
<1>3. \A d \in Clients \ {c} : link'[d] = link[d] /\ peer'[d] = peer[d] /\ taken'[d] = taken[d]
  BY <1>1 DEF TypeOK
<1>4. link'[c] = "queued"
  BY <1>1 DEF TypeOK
<1>5. \A t \in Token : slab[t] # Nobody => slab[t] \in Clients \ {c}
  BY <1>1 DEF Entries, TypeOK
<1>6. Queue'
  <2>1. /\ Len(backlog) \in Nat /\ Len(backlog') = Len(backlog) + 1
        /\ backlog'[Len(backlog) + 1] = c
        /\ \A i \in 1 .. Len(backlog) : backlog'[i] = backlog[i] /\ backlog[i] \in Clients
    BY <1>1 DEF TypeOK
  <2>2. \A i \in 1 .. Len(backlog) : link[backlog[i]] = "queued" /\ backlog[i] # c
    BY <1>1 DEF Queue
  <2>3. \A i \in 1 .. Len(backlog) + 1 : i \in 1 .. Len(backlog) \/ i = Len(backlog) + 1
    BY <2>1
  <2>4. backlog' # << >>
    BY <2>1
  <2> QED
    BY <1>3, <1>4, <2>1, <2>2, <2>3, <2>4 DEF Queue
<1>7. Entries' /\ Responding'
  BY <1>1, <1>3, <1>5 DEF Entries, Responding
<1>8. EveryConnectionIsWatched'
  BY <1>1, <1>3, <1>4, WatchedEquivalence DEF EveryConnectionIsWatched
<1> QED
  BY <1>2, <1>6, <1>7, <1>8

LEMMA ClientStep ==
  ASSUME IInv, NEW c \in Clients, Send(c) \/ Receive(c) \/ End(c)
  PROVE  IInv'
<1> USE DEF IInv
<1>1. /\ UNCHANGED <<link, taken, written, backlog, slab, state, armed, batch, down>>
      /\ \A d \in Clients : peer[d] = "finished" => peer'[d] = "finished"
  BY DEF Send, Receive, End, TypeOK
<1>2. TypeOK'
  <2>1. CASE Send(c)
    <3>1. sent[c] + 1 \in 0 .. MaxSent /\ taken[c] <= sent[c] + 1
      BY <2>1, NaiveAssumption DEF Send, TypeOK
    <3> QED
      BY <1>1, <2>1, <3>1 DEF Send, TypeOK
  <2>2. CASE Receive(c)
    <3>1. got[c] + 1 \in Nat /\ got[c] + 1 <= written[c]
      BY <2>2 DEF Receive, TypeOK
    <3> QED
      BY <1>1, <2>2, <3>1 DEF Receive, TypeOK
  <2>3. CASE End(c)
    BY <1>1, <2>3 DEF End, TypeOK
  <2> QED
    BY <2>1, <2>2, <2>3
<1>3. Queue' /\ Entries' /\ EveryConnectionIsWatched'
  BY <1>1 DEF Queue, Entries, EveryConnectionIsWatched
<1>4. Responding'
  BY <1>1 DEF Responding, TypeOK
<1> QED
  BY <1>2, <1>3, <1>4

(* What the poll reports was watched by its registration, and is now by    *)
(* its event.                                                              *)
LEMMA PollStep == ASSUME IInv, Poll PROVE IInv'
<1> USE DEF IInv
<1>1. /\ UNCHANGED <<peer, sent, got, link, taken, written, backlog, slab, state, down>>
      /\ ~down /\ batch = {}
  BY DEF Poll, client
<1>2. PICK T \in SUBSET {t \in Token : armed[t] # "nothing"} :
        /\ batch' = {<<t, slab[t]>> : t \in T}
                      \cup (IF backlog = << >> THEN {} ELSE {<<LISTENER, Nobody>>})
        /\ armed' = [t \in Token |-> IF t \in T THEN "nothing" ELSE armed[t]]
  BY DEF Poll
<1>3. \A t \in T : t \in Token /\ slab[t] \in Clients
  <2> SUFFICES ASSUME NEW t \in T PROVE t \in Token /\ slab[t] \in Clients
    OBVIOUS
  <2>1. t \in Token /\ armed[t] # "nothing" /\ Watched(t)
    BY <1>1, <1>2, WatchedEquivalence
  <2> QED
    BY <2>1 DEF Watched, TypeOK
<1>4. \A e \in batch' : \/ e = <<LISTENER, Nobody>> /\ backlog # << >>
                        \/ \E t \in T : e = <<t, slab[t]>>
  BY <1>2
<1>5. TypeOK'
  <2>1. batch' \subseteq (Token \X Clients) \cup {<<LISTENER, Nobody>>}
    BY <1>3, <1>4
  <2>2. armed' \in [Token -> {"nothing", "readable", "writable"}]
    BY <1>2 DEF TypeOK
  <2> QED
    BY <1>1, <2>1, <2>2 DEF TypeOK
<1>6. Queue' /\ Entries' /\ Responding'
  <2>1. <<LISTENER, Nobody>> \in batch' => backlog # << >>
    BY <1>3, <1>4, TokenFacts
  <2> QED
    BY <1>1, <2>1 DEF Queue, Entries, Responding
<1>7. ASSUME NEW t \in Token PROVE Watched(t)'
  <2>1. Watched(t)
    BY <1>1, WatchedEquivalence
  <2>2. CASE t \in T
    <3>1. <<t, slab[t]>> \in batch' /\ armed'[t] = "nothing" /\ slab[t] # Nobody
      BY <1>2, <1>3, <2>2, TokenFacts
    <3>2. \A e \in batch' : e[1] = t => e = <<t, slab[t]>>
      BY <1>4, TokenFacts
    <3> QED
      BY <1>1, <3>1, <3>2 DEF Watched
  <2>3. CASE t \notin T
    <3>1. armed'[t] = armed[t]
      BY <1>2, <2>3
    <3>2. \A e \in batch' : e[1] # t
      BY <1>4, <2>3, TokenFacts
    <3> QED
      BY <1>1, <2>1, <3>1, <3>2 DEF Watched
  <2> QED
    BY <2>2, <2>3
<1>8. \A c \in Clients : InSlab(c)'
  BY <1>1, WatchedEquivalence DEF InSlab
<1> QED
  BY <1>5, <1>6, <1>7, <1>8, WatchedNext

-----------------------------------------------------------------------------
(* The listener's event.                                                   *)

LEMMA AcceptStep == ASSUME IInv, Accept PROVE IInv'
<1> USE DEF IInv
<1> DEFINE c == Head(backlog)
<1>1. /\ ~down /\ batch' = batch \ {<<LISTENER, Nobody>>} /\ backlog' = Tail(backlog)
      /\ backlog # << >>
      /\ UNCHANGED <<peer, sent, got, taken, written>>
  BY DEF Accept, client, Queue
<1>2. /\ Len(backlog) \in Nat \ {0} /\ c = backlog[1] /\ c \in Clients
      /\ Len(backlog') = Len(backlog) - 1 /\ backlog' \in Seq(Clients)
      /\ \A i \in 1 .. Len(backlog) - 1 : backlog'[i] = backlog[i + 1]
  BY <1>1 DEF TypeOK
<1>3. \A i \in 1 .. Len(backlog) - 1 : i + 1 \in 1 .. Len(backlog) /\ i + 1 # 1
  BY <1>2
<1>4. /\ link[c] = "queued"
      /\ \A i \in 1 .. Len(backlog') : backlog'[i] # c /\ backlog'[i] \in Clients
  <2>1. 1 \in 1 .. Len(backlog)
    BY <1>2
  <2>2. link[c] = "queued"
    BY <1>2, <2>1 DEF Queue
  <2>3. ASSUME NEW i \in 1 .. Len(backlog) - 1
        PROVE  backlog'[i] # c /\ backlog'[i] \in Clients
    <3>1. backlog[i + 1] # backlog[1]
      BY <1>3, <2>1 DEF Queue
    <3>2. backlog[i + 1] \in Clients
      BY <1>3 DEF TypeOK
    <3> QED
      BY <1>2, <3>1, <3>2
  <2> QED
    BY <1>2, <2>2, <2>3
<1>5. \A i, j \in 1 .. Len(backlog') :
        link[backlog'[i]] = "queued" /\ (backlog'[i] = backlog'[j] => i = j)
  <2> SUFFICES ASSUME NEW i \in 1 .. Len(backlog) - 1, NEW j \in 1 .. Len(backlog) - 1
               PROVE  link[backlog'[i]] = "queued" /\ (backlog'[i] = backlog'[j] => i = j)
    BY <1>2
  <2>1. link[backlog[i + 1]] = "queued" /\ (backlog[i + 1] = backlog[j + 1] => i + 1 = j + 1)
    BY <1>3 DEF Queue
  <2>2. i + 1 = j + 1 => i = j
    BY <1>2
  <2> QED
    BY <1>2, <2>1, <2>2
<1>6. \A u \in Token : slab[u] # c
  BY <1>2, <1>4, TokenFacts DEF Entries
<1> HIDE DEF c
<1>7. <<LISTENER, Nobody>> \notin batch'
  BY <1>1
<1>8. ASSUME NEW t \in Vacant,
             slab' = [slab EXCEPT ![t] = c], state' = [state EXCEPT ![t] = "request"],
             armed' = [armed EXCEPT ![t] = "readable"], link' = [link EXCEPT ![c] = "open"],
             UNCHANGED down
      PROVE  IInv'
  <2>1. t \in Token /\ slab[t] = Nobody
    BY <1>8 DEF Vacant
  <2>2. TypeOK'
    BY <1>1, <1>2, <1>8, <2>1 DEF TypeOK
  <2>3. \A d \in Clients : link'[d] = IF d = c THEN "open" ELSE link[d]
    BY <1>8 DEF TypeOK
  <2>4. \A u \in Token : /\ slab'[u] = IF u = t THEN c ELSE slab[u]
                         /\ state'[u] = IF u = t THEN "request" ELSE state[u]
                         /\ armed'[u] = IF u = t THEN "readable" ELSE armed[u]
    BY <1>8 DEF TypeOK
  <2>5. Queue'
    BY <1>4, <1>5, <1>7, <2>3 DEF Queue
  <2>6. Entries'
    <3> SUFFICES ASSUME NEW u \in Token, slab'[u] # Nobody PROVE link'[slab'[u]] = "open"
      BY DEF Entries
    <3>1. CASE u = t
      BY <1>2, <2>3, <2>4, <3>1
    <3>2. CASE u # t
      <4>1. slab'[u] = slab[u] /\ slab[u] \in Clients /\ link[slab[u]] = "open"
        BY <2>4, <3>2 DEF Entries, TypeOK
      <4> QED
        BY <2>3, <4>1
    <3> QED
      BY <3>1, <3>2
  <2>7. Responding'
    BY <1>1, <2>4 DEF Responding
  <2>8. ASSUME NEW d \in Clients PROVE InSlab(d)'
    <3>1. InSlab(d)
      BY <1>1, WatchedEquivalence
    <3>2. CASE d = c
      BY <1>6, <2>1, <2>4, <3>2 DEF InSlab
    <3>3. CASE d # c
      BY <2>1, <2>3, <2>4, <3>1, <3>3, TokenFacts DEF InSlab
    <3> QED
      BY <3>2, <3>3
  <2>9. ASSUME NEW u \in Token PROVE Watched(u)'
    <3>1. Watched(u)
      BY <1>1, WatchedEquivalence
    <3>2. CASE u = t
      <4>1. \A e \in batch' : e[1] # t
        BY <1>1, <2>1, <3>1, <3>2 DEF Watched
      <4> QED
        BY <1>2, <2>1, <2>4, <3>2, <4>1, TokenFacts DEF Watched, Interest
    <3>3. CASE u # t
      <4>1. slab'[u] = slab[u] /\ state'[u] = state[u] /\ armed'[u] = armed[u]
        BY <2>4, <3>3
      <4>2. <<u, slab[u]>> \in batch => <<u, slab[u]>> \in batch'
        BY <1>1, TokenFacts
      <4> QED
        BY <1>1, <3>1, <4>1, <4>2 DEF Watched
    <3> QED
      BY <3>2, <3>3
  <2> QED
    BY <2>2, <2>5, <2>6, <2>7, <2>8, <2>9, WatchedNext
<1>9. ASSUME down' = TRUE, UNCHANGED <<slab, state, armed, link>> PROVE IInv'
  <2>1. TypeOK'
    BY <1>1, <1>2, <1>9 DEF TypeOK
  <2>2. Queue' /\ Entries' /\ Responding'
    BY <1>1, <1>5, <1>7, <1>9 DEF Queue, Entries, Responding
  <2> QED
    BY <1>9, <2>1, <2>2 DEF EveryConnectionIsWatched
<1> QED
  BY <1>8, <1>9 DEF Accept, c

-----------------------------------------------------------------------------
(* The event of a connection.                                              *)

(* A reading or writing of the connection of t, after which it is in state *)
(* st, for a reason if that is Response.                                   *)
LEMMA GoOnStep ==
  ASSUME IInv, NEW t \in Token, NEW st \in {"request", "response", "closed"},
         Event(t), Handled(t), GoOn(t, st), UNCHANGED <<client, backlog, down>>,
         taken' \in [Clients -> Nat], written' \in [Clients -> 0 .. Whole],
         \A c \in Clients : taken'[c] <= sent[c] /\ got[c] <= written'[c],
         \A c \in Clients \ {slab[t]} : taken'[c] = taken[c],
         st = "response" =>
           (slab[t] \in Askers /\ taken'[slab[t]] = Whole) \/ peer[slab[t]] = "finished"
  PROVE  IInv'
<1> USE DEF IInv, client
<1> DEFINE c == slab[t]
<1>1. /\ ~down /\ c \in Clients /\ link[c] = "open"
      /\ \A u \in Token : slab[u] = c => u = t
  BY EventFacts
<1>2. UNCHANGED <<peer, sent, got, backlog, down>> /\ batch' = {e \in batch : e[1] # t}
  BY DEF Handled
<1>3. \A u \in Token : /\ state'[u] = IF u = t THEN st ELSE state[u]
                       /\ armed'[u] = IF u = t THEN Interest(st) ELSE armed[u]
  BY DEF GoOn, TypeOK
<1>4. \A u \in Token :
        slab'[u] = IF u = t /\ st = "closed" THEN Nobody ELSE slab[u]
  BY DEF GoOn, TypeOK
<1>5. \A d \in Clients :
        link'[d] = IF d = c /\ st = "closed" THEN "dropped" ELSE link[d]
  BY DEF GoOn, TypeOK
<1>6. TypeOK'
  <2>1. Interest(st) \in {"nothing", "readable", "writable"}
    BY DEF Interest
  <2>2. /\ state' \in [Token -> {"request", "response", "closed"}]
        /\ armed' \in [Token -> {"nothing", "readable", "writable"}]
        /\ slab' \in [Token -> Clients \cup {Nobody}]
        /\ link' \in [Clients -> {"away", "queued", "open", "dropped"}]
    BY <2>1 DEF GoOn, TypeOK
  <2> QED
    BY <1>2, <2>2 DEF TypeOK
<1> HIDE DEF c
<1>7. Queue'
  <2>1. \A i \in 1 .. Len(backlog) : backlog[i] \in Clients /\ link[backlog[i]] = "queued"
    <3>1. backlog \in Seq(Clients)
      BY DEF TypeOK
    <3>2. \A i \in 1 .. Len(backlog) : backlog[i] \in Clients
      BY <3>1
    <3> QED
      BY <3>2 DEF Queue
  <2>2. \A i \in 1 .. Len(backlog) : backlog[i] \in Clients \ {c}
    BY <1>1, <2>1
  <2> QED
    BY <1>2, <1>5, <2>2 DEF Queue
<1>8. Entries'
  BY <1>1, <1>4, <1>5 DEF Entries, TypeOK, c
<1>9. Responding'
  <2> SUFFICES ASSUME NEW u \in Token, slab'[u] # Nobody, state'[u] = "response"
               PROVE  \/ slab'[u] \in Askers /\ taken'[slab'[u]] = Whole
                      \/ peer[slab'[u]] = "finished"
    BY <1>2 DEF Responding
  <2>1. CASE u = t
    BY <1>3, <1>4, <2>1 DEF c
  <2>2. CASE u # t
    <3>1. slab'[u] = slab[u] /\ state[u] = "response"
      BY <1>3, <1>4, <2>2
    <3>2. slab[u] \in Clients /\ slab[u] # c
      BY <1>1, <2>2, <3>1 DEF TypeOK
    <3>3. taken'[slab[u]] = taken[slab[u]]
      BY <3>2 DEF c
    <3> QED
      BY <3>1, <3>3 DEF Responding
  <2> QED
    BY <2>1, <2>2
<1>10. ASSUME NEW d \in Clients PROVE InSlab(d)'
  <2>1. InSlab(d)
    BY <1>1, WatchedEquivalence
  <2> QED
    BY <1>1, <1>4, <1>5, <2>1, TokenFacts DEF InSlab, c
<1>11. ASSUME NEW u \in Token PROVE Watched(u)'
  <2>1. Watched(u)
    BY <1>1, WatchedEquivalence
  <2>2. CASE u = t
    <3>1. \A e \in batch' : e[1] # t
      BY <1>2
    <3> QED
      BY <1>1, <1>3, <1>4, <2>2, <3>1, TokenFacts DEF Watched, Interest, c
  <2>3. CASE u # t
    <3>1. slab'[u] = slab[u] /\ state'[u] = state[u] /\ armed'[u] = armed[u]
      BY <1>3, <1>4, <2>3
    <3>2. <<u, slab[u]>> \in batch => <<u, slab[u]>> \in batch'
      BY <1>2, <2>3
    <3> QED
      BY <1>2, <2>1, <3>1, <3>2 DEF Watched
  <2> QED
    BY <2>2, <2>3
<1> QED
  BY <1>6, <1>7, <1>8, <1>9, <1>10, <1>11, WatchedNext

(* The process dies in the handler of t: nothing is promised any more.     *)
LEMMA DiesStep ==
  ASSUME IInv, NEW t \in Token, Event(t), Handled(t), Dies(t),
         UNCHANGED <<client, backlog, written>>,
         taken' \in [Clients -> Nat], \A c \in Clients : taken'[c] <= sent[c],
         \A u \in Token : state[u] = "response" /\ slab[u] # Nobody => taken'[slab[u]] = taken[slab[u]]
  PROVE  IInv'
<1> USE DEF IInv, client
<1>1. /\ UNCHANGED <<peer, sent, got, backlog, written, state, armed, slab, link>>
      /\ batch' \subseteq batch /\ down' = TRUE
  BY DEF Handled, Dies
<1>2. TypeOK'
  BY <1>1 DEF TypeOK
<1>3. Queue' /\ Entries' /\ Responding'
  BY <1>1 DEF Queue, Entries, Responding
<1> QED
  BY <1>1, <1>2, <1>3 DEF EveryConnectionIsWatched

LEMMA SpuriousStep ==
  ASSUME IInv, NEW t \in Token, ReadSpurious(t) \/ ReadEof(t) \/ WriteSpurious(t)
  PROVE  IInv'
<1>1. /\ Event(t) /\ Handled(t) /\ UNCHANGED <<client, taken, written, backlog, down>>
      /\ \/ GoOn(t, "request")
         \/ GoOn(t, "response") /\ (peer[slab[t]] = "finished" \/ state[t] = "response")
  BY DEF ReadSpurious, ReadEof, WriteSpurious
<1>2. slab[t] \in Clients
  BY <1>1, EventFacts
<1>3. state[t] = "response" =>
        (slab[t] \in Askers /\ taken[slab[t]] = Whole) \/ peer[slab[t]] = "finished"
  BY <1>2, TokenFacts DEF IInv, Responding
<1>4. /\ taken' \in [Clients -> Nat] /\ written' \in [Clients -> 0 .. Whole]
      /\ \A c \in Clients : taken'[c] <= sent[c] /\ got[c] <= written'[c]
  BY <1>1 DEF IInv, TypeOK
<1> QED
  BY <1>1, <1>3, <1>4, GoOnStep

LEMMA ReadSomeStep == ASSUME IInv, NEW t \in Token, ReadSome(t) PROVE IInv'
<1> DEFINE c == slab[t]
<1>1. /\ Event(t) /\ Handled(t) /\ UNCHANGED <<client, written, backlog>>
      /\ state[t] = "request"
  BY DEF ReadSome
<1>2. PICK n \in 1 .. sent[c] - taken[c] :
        /\ taken' = [taken EXCEPT ![c] = @ + n]
        /\ \/ Dies(t)
           \/ /\ GoOn(t, IF Parse(c, taken[c] + n) = "request" THEN "response" ELSE "request")
              /\ UNCHANGED down
  BY DEF ReadSome
<1>3. c \in Clients /\ \A u \in Token : slab[u] = c => u = t
  BY <1>1, EventFacts
<1>4. taken[c] + n \in Nat /\ taken[c] + n <= sent[c]
  <2>1. taken[c] \in Nat /\ sent[c] \in Nat
    BY <1>3 DEF IInv, TypeOK
  <2> QED
    BY <1>2, <2>1
<1>5. /\ taken' \in [Clients -> Nat] /\ taken'[c] = taken[c] + n
      /\ \A d \in Clients \ {c} : taken'[d] = taken[d]
  BY <1>2, <1>3, <1>4 DEF IInv, TypeOK
<1>6. /\ written' \in [Clients -> 0 .. Whole]
      /\ \A d \in Clients : taken'[d] <= sent[d] /\ got[d] <= written'[d]
  BY <1>1, <1>4, <1>5 DEF IInv, TypeOK
<1>7. CASE Dies(t)
  <2>1. \A u \in Token : state[u] = "response" /\ slab[u] # Nobody => taken'[slab[u]] = taken[slab[u]]
    BY <1>1, <1>3, <1>5 DEF IInv, TypeOK
  <2> QED
    BY <1>1, <1>5, <1>6, <1>7, <2>1, DiesStep
<1>8. CASE GoOn(t, "request") /\ UNCHANGED down
  BY <1>1, <1>5, <1>6, <1>8, GoOnStep
<1>9. CASE GoOn(t, "response") /\ Parse(c, taken[c] + n) = "request" /\ UNCHANGED down
  <2>1. c \in Askers /\ taken'[c] = Whole
    BY <1>4, <1>5, <1>9 DEF Parse, Whole
  <2> QED
    BY <1>1, <1>5, <1>6, <1>9, <2>1, GoOnStep
<1> QED
  BY <1>2, <1>7, <1>8, <1>9

LEMMA WriteSomeStep == ASSUME IInv, NEW t \in Token, WriteSome(t) PROVE IInv'
<1> DEFINE c == slab[t]
<1>1. /\ Event(t) /\ Handled(t) /\ UNCHANGED <<client, taken, backlog, down>>
      /\ state[t] = "response"
      /\ GoOn(t, "closed") \/ GoOn(t, "response")
  BY DEF WriteSome
<1>2. PICK n \in 1 .. Whole - written[c] : written' = [written EXCEPT ![c] = @ + n]
  BY DEF WriteSome
<1>3. c \in Clients
  BY <1>1, EventFacts
<1>4. written[c] + n \in 0 .. Whole /\ written[c] <= written[c] + n
  <2>1. written[c] \in 0 .. Whole /\ n \in 1 .. Whole - written[c]
    BY <1>3 DEF IInv, TypeOK
  <2> HIDE DEF c
  <2> QED
    BY <2>1 DEF Whole
<1>5. /\ written' \in [Clients -> 0 .. Whole] /\ taken' \in [Clients -> Nat]
      /\ \A d \in Clients : taken'[d] <= sent[d] /\ got[d] <= written'[d]
  <2>1. written' \in [Clients -> 0 .. Whole]
    BY <1>2, <1>4 DEF IInv, TypeOK
  <2>2. got[c] <= written'[c]
    <3>1. got[c] \in Nat /\ written[c] \in Nat /\ got[c] <= written[c]
      BY <1>3 DEF IInv, TypeOK
    <3>2. written'[c] = written[c] + n /\ n \in Nat
      BY <1>2, <1>3 DEF IInv, TypeOK
    <3> QED
      BY <3>1, <3>2
  <2> QED
    BY <1>1, <1>2, <2>1, <2>2 DEF IInv, TypeOK
<1>6. (c \in Askers /\ taken[c] = Whole) \/ peer[c] = "finished"
  BY <1>1, <1>3, TokenFacts DEF IInv, Responding
<1> QED
  BY <1>1, <1>5, <1>6, GoOnStep

LEMMA SocketFailsStep == ASSUME IInv, NEW t \in Token, SocketFails(t) PROVE IInv'
<1>1. /\ Event(t) /\ Handled(t) /\ Dies(t) /\ UNCHANGED <<client, taken, written, backlog>>
  BY DEF SocketFails
<1> QED
  BY <1>1, DiesStep DEF IInv, TypeOK

-----------------------------------------------------------------------------
(* The theorems.                                                           *)

LEMMA InvStep == IInv /\ [Next]_vars => IInv'
<1> SUFFICES ASSUME IInv, [Next]_vars PROVE IInv'
  OBVIOUS
<1>1. ASSUME NEW t \in Token, Ready(t) PROVE IInv'
  BY <1>1, SpuriousStep, ReadSomeStep, WriteSomeStep, SocketFailsStep DEF Ready
<1>2. CASE UNCHANGED vars
  <2>1. TypeOK' /\ Queue'
    BY <1>2 DEF vars, client, IInv, TypeOK, Queue
  <2>2. Entries' /\ Responding' /\ EveryConnectionIsWatched'
    BY <1>2 DEF vars, client, IInv, Entries, Responding, EveryConnectionIsWatched
  <2> QED
    BY <2>1, <2>2 DEF IInv
<1> QED
  BY <1>1, <1>2, PollStep, AcceptStep, ConnectStep, ClientStep DEF Next, Server

(* Nobody is queued or in the slab twice, a connection responds for a      *)
(* reason, and every connection is watched.                                *)
THEOREM Invariance == Spec => []IInv
BY InitInv, InvStep, PTL DEF Spec

(* Every token, count and registration stays in its range.                 *)
THEOREM TypeCorrect == Spec => []TypeOK
<1>1. IInv => TypeOK
  BY DEF IInv
<1> QED
  BY <1>1, Invariance, PTL

(* A one-shot registration is never lost: while the process is up, every   *)
(* accepted connection has the one its state needs, or exactly one event,  *)
(* which finds it under its token.                                         *)
THEOREM ConnectionsAreWatched == Spec => []EveryConnectionIsWatched
<1>1. IInv => EveryConnectionIsWatched
  BY DEF IInv
<1> QED
  BY <1>1, Invariance, PTL

(* A connection is dropped with its response written to the last piece,    *)
(* and for one whole request or the client's end of stream.                *)
THEOREM DroppedOnlyWhenAnswered == Spec => DroppedWhenAnswered
<1> DEFINE Step ==
      \A c \in Clients : link[c] = "open" /\ link'[c] = "dropped" =>
        /\ written'[c] = Whole
        /\ (c \in Askers /\ taken[c] = Whole) \/ peer[c] = "finished"
<1>1. IInv /\ [Next]_vars => [Step]_vars
  <2> SUFFICES ASSUME IInv, Next, NEW c \in Clients, link[c] = "open", link'[c] = "dropped"
               PROVE  /\ written'[c] = Whole
                      /\ (c \in Askers /\ taken[c] = Whole) \/ peer[c] = "finished"
    OBVIOUS
  <2>1. \A t \in Token, st \in {"request", "response", "closed"} :
          GoOn(t, st) => c = slab[t] /\ st = "closed"
    BY DEF GoOn, IInv, TypeOK
  <2>2. ~Poll /\ ~Accept
    BY DEF Poll, Accept, IInv, TypeOK
  <2>3. ASSUME NEW t \in Token, Ready(t) PROVE WriteSome(t) /\ GoOn(t, "closed")
    <3>1. ~Dies(t)
      BY DEF Dies
    <3>2. \A n \in Nat : ~GoOn(t, IF Parse(slab[t], n) = "request" THEN "response" ELSE "request")
      BY <2>1
    <3>3. ~ReadSpurious(t) /\ ~ReadEof(t) /\ ~WriteSpurious(t) /\ ~SocketFails(t)
      BY <2>1, <3>1 DEF ReadSpurious, ReadEof, WriteSpurious, SocketFails
    <3>4. ~ReadSome(t)
      BY <2>1, <3>1 DEF ReadSome
    <3>5. WriteSome(t) => GoOn(t, "closed")
      BY <2>1 DEF WriteSome
    <3> QED
      BY <2>3, <3>3, <3>4, <3>5 DEF Ready
  <2>4. \A d \in Clients : ~(Connect(d) \/ Send(d) \/ Receive(d) \/ End(d))
    BY DEF Connect, Send, Receive, End, IInv, TypeOK
  <2>5. PICK t \in Token : WriteSome(t) /\ GoOn(t, "closed")
    BY <2>2, <2>3, <2>4 DEF Next, Server
  <2>6. c = slab[t] /\ state[t] = "response"
    BY <2>1, <2>5 DEF WriteSome
  <2>7. written'[c] = Whole
    <3>1. ~GoOn(t, "response")
      BY <2>1
    <3> QED
      BY <2>5, <2>6, <3>1 DEF WriteSome
  <2>8. (c \in Askers /\ taken[c] = Whole) \/ peer[c] = "finished"
    BY <2>6, TokenFacts DEF IInv, Responding
  <2> QED
    BY <2>7, <2>8
<1>2. [][Step]_vars => DroppedWhenAnswered
  BY DEF DroppedWhenAnswered
<1> QED
  BY <1>1, <1>2, Invariance, PTL DEF Spec
=============================================================================
