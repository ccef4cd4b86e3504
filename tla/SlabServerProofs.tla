-------------------------- MODULE SlabServerProofs --------------------------
(***************************************************************************)
(* IInv is an inductive invariant of SlabServer for any number of clients, *)
(* any size of the slab and any amount of input, and what follows from it. *)
(***************************************************************************)
EXTENDS SlabServer, TLAPS

LEMMA TokenFacts == LISTENER \notin Token /\ Nobody \notin Clients
BY SlabAssumption DEF LISTENER, Token

(* A connection's event is not the listener's.                             *)
LEMMA EventFacts == \A t \in Token, c \in Clients, k \in BOOLEAN : <<t, c, k>> # ListenerEvent
BY TokenFacts DEF ListenerEvent

LEMMA InitInv == Init => IInv
<1> SUFFICES ASSUME Init PROVE IInv
  OBVIOUS
<1> USE SlabAssumption DEF Init
<1>1. TypeOK
  BY DEF TypeOK
<1>2. Queue /\ Trying /\ Parsing /\ OneEventEach
  BY DEF Queue, Trying, Parsing, OneEventEach
<1>3. TokensMatch
  BY TokenFacts DEF TokensMatch
<1>4. NoLostWakeup
  BY DEF NoLostWakeup
<1> QED
  BY <1>1, <1>2, <1>3, <1>4 DEF IInv

-----------------------------------------------------------------------------
(* The steps of clients, the poll and the accept loop.                     *)

LEMMA ConnectStep == ASSUME IInv, NEW c \in Clients, Connect(c) PROVE IInv'
<1> USE DEF client, conn
<1>1. /\ link[c] = "away" /\ link' = [link EXCEPT ![c] = "queued"]
      /\ backlog' = Append(backlog, c)
      /\ UNCHANGED <<sent, ended, conn, unread, left, edge, slab, batch, pc, cur, back>>
  BY DEF Connect
<1> USE DEF IInv
<1>2. TypeOK'
  BY <1>1 DEF TypeOK
<1>3. \A d \in Clients : (link'[d] = "open" <=> link[d] = "open") /\ (link[d] = "queued" => link'[d] = "queued")
  BY <1>1 DEF TypeOK
<1>4. Queue'
  <2>1. backlog \in Seq(Clients)
    BY DEF TypeOK
  <2>2. /\ Len(backlog') = Len(backlog) + 1 /\ backlog'[Len(backlog) + 1] = c
        /\ \A i \in 1 .. Len(backlog) : backlog'[i] = backlog[i] /\ backlog[i] \in Clients
    BY <1>1, <2>1
  <2>3. \A i \in 1 .. Len(backlog) : link[backlog[i]] = "queued" /\ backlog[i] # c
    BY <1>1 DEF Queue
  <2>4. link'[c] = "queued"
    BY <1>1 DEF TypeOK
  <2>5. Len(backlog) \in Nat
    BY <2>1
  <2>6. \A i \in 1 .. Len(backlog) + 1 : i \in 1 .. Len(backlog) \/ i = Len(backlog) + 1
    BY <2>5
  <2> QED
    BY <1>3, <2>2, <2>3, <2>4, <2>6 DEF Queue
<1>5. Trying' /\ Parsing' /\ OneEventEach' /\ TokensMatch'
  BY <1>1, <1>3 DEF Trying, Parsing, HasNews, OneEventEach, TokensMatch, Current
<1>6. NoLostWakeup'
  BY <1>1, <1>3 DEF NoLostWakeup, HasNews, Woken, InCall, Current
<1> QED
  BY <1>2, <1>4, <1>5, <1>6

LEMMA SendStep == ASSUME IInv, NEW c \in Clients, Send(c) \/ End(c) PROVE IInv'
<1> USE DEF IInv, conn
<1>1. /\ UNCHANGED <<conn, link, backlog, slab, batch, pc, cur, back>>
      /\ edge' = [edge EXCEPT ![c] = (link[c] = "open")]
      /\ left' = [left EXCEPT ![c] = FALSE]
  BY DEF Send, End, Raise
<1>2. TypeOK'
  <2>1. CASE Send(c)
    <3>1. sent[c] + 1 \in 0 .. MaxSent /\ unread[c] + 1 \in 0 .. MaxSent /\ unread[c] <= sent[c]
      BY <2>1, SlabAssumption DEF Send, TypeOK
    <3> QED
      BY <1>1, <2>1, <3>1, SlabAssumption DEF Send, TypeOK
  <2>2. CASE End(c)
    BY <1>1, <2>2 DEF End, TypeOK
  <2> QED
    BY <2>1, <2>2
<1>3. Queue' /\ Trying' /\ OneEventEach' /\ TokensMatch'
  BY <1>1 DEF Queue, Trying, OneEventEach, TokensMatch, Current
<1>4. link[c] = "open" => edge'[c]
  BY <1>1 DEF TypeOK
<1>5. \A d \in Clients \ {c} :
        /\ edge'[d] = edge[d] /\ left'[d] = left[d]
        /\ unread'[d] = unread[d] /\ ended'[d] = ended[d]
  BY <1>1 DEF Send, End, TypeOK
<1>6. Parsing'
  <2> SUFFICES ASSUME pc = "parse"
               PROVE  readable[slab[cur]] /\ (HasNews(slab[cur])' => edge'[slab[cur]] \/ left'[slab[cur]])
    BY <1>1 DEF Parsing, HasNews, Current
  <2>1. slab[cur] \in Clients /\ link[slab[cur]] = "open"
    BY TokenFacts DEF TypeOK, Trying, TokensMatch, Current
  <2>2. CASE slab[cur] = c
    BY <1>4, <2>1, <2>2 DEF Parsing, Current
  <2>3. CASE slab[cur] # c
    BY <1>1, <1>5, <2>1, <2>3 DEF Parsing, HasNews, Current
  <2> QED
    BY <2>2, <2>3
<1>7. NoLostWakeup'
  <2> SUFFICES ASSUME NEW d \in Clients, link[d] = "open", HasNews(d)', ~readClosed[d], ~edge'[d]
               PROVE  \/ \E t \in Token : <<t, d, TRUE>> \in batch
                      \/ readable[d] /\ (InCall(d) \/ (partial[d] /\ left'[d]))
    BY <1>1 DEF NoLostWakeup, Woken, InCall, Current
  <2>1. d # c
    BY <1>4
  <2> QED
    BY <1>5, <2>1 DEF NoLostWakeup, HasNews, Woken
<1> QED
  BY <1>2, <1>3, <1>6, <1>7

LEMMA PollStep == ASSUME IInv, Poll PROVE IInv'
<1> USE DEF IInv
<1>1. /\ UNCHANGED <<sent, ended, conn, left, link, unread, backlog, slab, pc, cur, back>>
      /\ pc = "loop" /\ batch = {}
  BY DEF Poll, client
<1>2. PICK T \in SUBSET {t \in Token : slab[t] # Nobody} :
        /\ batch' = {<<t, slab[t], HasNews(slab[t])>> : t \in T}
                      \cup (IF backlog = << >> THEN {} ELSE {ListenerEvent})
        /\ edge' = [c \in Clients |-> edge[c] /\ ~\E t \in T : slab[t] = c]
  BY DEF Poll
<1>3. \A t \in T : t \in Token /\ slab[t] \in Clients
  BY <1>2 DEF TypeOK
<1>4. \A e \in batch' : e = ListenerEvent \/ \E t \in T : e = <<t, slab[t], HasNews(slab[t])>>
  BY <1>2
<1>5. TypeOK'
  <2>1. \A c \in Clients : HasNews(c) \in BOOLEAN
    BY DEF HasNews, TypeOK
  <2>2. batch' \in SUBSET ((Token \X Clients \X BOOLEAN) \cup {ListenerEvent})
    BY <1>3, <1>4, <2>1
  <2>3. edge' \in [Clients -> BOOLEAN]
    BY <1>2
  <2> QED
    BY <1>1, <2>2, <2>3 DEF TypeOK, conn
<1>6. Queue' /\ Trying' /\ Parsing'
  BY <1>1 DEF Queue, Trying, Parsing
<1>7. OneEventEach' /\ TokensMatch'
  <2>1. \A e \in batch' \ {ListenerEvent} : slab[e[1]] = e[2]
    BY <1>4
  <2>2. \A t \in T : t # LISTENER
    BY <1>3, TokenFacts
  <2>3. \A e, f \in batch' : e[1] = f[1] => e = f
    <3>1. ListenerEvent[1] = LISTENER /\ \A t \in T : <<t, slab[t], HasNews(slab[t])>>[1] = t
      BY DEF ListenerEvent
    <3> QED
      BY <1>4, <2>2, <3>1
  <2> QED
    BY <1>1, <2>1, <2>3 DEF TokensMatch, OneEventEach
<1>8. NoLostWakeup'
  <2> SUFFICES ASSUME NEW c \in Clients, link[c] = "open", HasNews(c), ~readClosed[c], ~edge'[c],
                      ~(readable[c] /\ partial[c] /\ left[c])
               PROVE  \E t \in Token : <<t, c, TRUE>> \in batch'
    BY <1>1 DEF NoLostWakeup, HasNews, Woken, InCall, Current, conn
  <2>1. edge[c]
    BY <1>1 DEF NoLostWakeup, Woken, InCall
  <2>2. PICK t \in T : slab[t] = c
    BY <1>2, <2>1
  <2>3. <<t, c, HasNews(c)>> \in batch' /\ t \in Token
    BY <1>2, <1>3, <2>2
  <2>4. HasNews(c) = TRUE
    BY DEF HasNews, TypeOK
  <2> QED
    BY <2>3, <2>4
<1> QED
  BY <1>5, <1>6, <1>7, <1>8

LEMMA ListenerStep == ASSUME IInv, ListenerReady \/ AcceptDone \/ AcceptFails PROVE IInv'
<1> USE DEF IInv, client, conn
<1>1. /\ UNCHANGED <<sent, ended, conn, left, link, unread, edge, backlog, slab, cur, back>>
      /\ pc \in {"loop", "accept"} /\ pc' \in {"loop", "accept"}
      /\ batch' \in SUBSET batch /\ \A e \in batch : e # ListenerEvent => e \in batch'
  BY DEF ListenerReady, AcceptDone, AcceptFails, LeaveAccept
<1>2. TypeOK' /\ Queue' /\ Trying' /\ Parsing' /\ OneEventEach' /\ TokensMatch'
  BY <1>1 DEF TypeOK, Queue, Trying, Parsing, OneEventEach, TokensMatch
<1>3. NoLostWakeup'
  BY <1>1, EventFacts DEF NoLostWakeup, HasNews, Woken, InCall
<1> QED
  BY <1>2, <1>3

(* The thread dies: its connections are gone, and so is who was queued.    *)
LEMMA PanicStep == ASSUME IInv, Panic PROVE IInv'
<1> USE DEF IInv, client, conn
<1>1. /\ pc' = "panicked" /\ backlog' = << >> /\ batch' = {}
      /\ link' = [c \in Clients |-> IF link[c] = "away" THEN "away" ELSE "gone"]
      /\ slab' = [t \in Token |-> Nobody]
      /\ UNCHANGED <<sent, ended, conn, left, unread, edge, cur, back>>
  BY DEF Panic
<1>2. TypeOK'
  BY <1>1 DEF TypeOK
<1>3. Queue' /\ Trying' /\ Parsing' /\ OneEventEach'
  BY <1>1 DEF Queue, Trying, Parsing, OneEventEach
<1>4. TokensMatch' /\ NoLostWakeup'
  BY <1>1, TokenFacts DEF TokensMatch, NoLostWakeup
<1> QED
  BY <1>2, <1>3, <1>4

LEMMA ReadyStep == ASSUME IInv, NEW t \in Token, ConnectionReady(t), slab[t] # Nobody PROVE IInv'
<1> USE DEF IInv, client
<1>1. PICK e \in batch \ {ListenerEvent} :
        /\ e[1] = t /\ readable' = [readable EXCEPT ![slab[t]] = @ \/ e[3]]
        /\ batch' = batch \ {e}
        /\ UNCHANGED <<sent, ended, readClosed, partial, left, link, unread, edge, backlog, slab>>
        /\ pc = "loop" /\ pc' = "read" /\ cur' = t /\ back' = "loop"
  BY DEF ConnectionReady, Try
<1>2. PICK c \in Clients : c = slab[t] /\ \A u \in Token : slab[u] = c => u = t
  BY DEF TypeOK, TokensMatch
<1>3. e[3] \in BOOLEAN
  BY <1>1 DEF TypeOK
<1>4. \A d \in Clients : readable'[d] = IF d = c THEN readable[c] \/ e[3] ELSE readable[d]
  BY <1>1, <1>2 DEF TypeOK
<1>5. TypeOK'
  <2>1. readable' \in [Clients -> BOOLEAN]
    BY <1>1, <1>2, <1>3 DEF TypeOK
  <2> QED
    BY <1>1, <2>1 DEF TypeOK
<1>6. Queue' /\ Trying' /\ Parsing'
  BY <1>1 DEF Queue, Trying, Parsing, OneEventEach, Current
<1>7. OneEventEach' /\ TokensMatch'
  BY <1>1 DEF OneEventEach, TokensMatch
<1>8. NoLostWakeup'
  <2> SUFFICES ASSUME NEW d \in Clients, link[d] = "open", HasNews(d), ~readClosed[d], ~edge[d]
               PROVE  \/ \E u \in Token : <<u, d, TRUE>> \in batch'
                      \/ readable'[d] /\ (d = c \/ (partial[d] /\ left[d]))
    BY <1>1, <1>2 DEF NoLostWakeup, HasNews, Woken, InCall, Current
  <2>1. (\E u \in Token : <<u, d, TRUE>> \in batch) \/ (readable[d] /\ partial[d] /\ left[d])
    BY <1>1 DEF NoLostWakeup, Woken, InCall
  <2>2. CASE readable[d] /\ partial[d] /\ left[d]
    BY <1>4, <2>2
  <2>3. CASE \E u \in Token : <<u, d, TRUE>> \in batch
    <3>1. PICK u \in Token : <<u, d, TRUE>> \in batch
      BY <2>3
    <3>2. CASE u # t
      <4>1. <<u, d, TRUE>>[1] = u
        OBVIOUS
      <4>2. <<u, d, TRUE>> \in batch'
        BY <1>1, <3>1, <3>2, <4>1
      <4> QED
        BY <4>2
    <3>3. CASE u = t
      <4>1. d = c
        <5>1. <<t, d, TRUE>> \in batch \ {ListenerEvent}
          BY <3>1, <3>3, EventFacts
        <5> QED
          BY <1>2, <5>1 DEF TokensMatch
      <4>2. e = <<u, d, TRUE>>
        BY <1>1, <3>1, <3>3 DEF OneEventEach
      <4> QED
        BY <1>4, <4>1, <4>2
    <3> QED
      BY <3>2, <3>3
  <2> QED
    BY <2>1, <2>2, <2>3
<1> QED
  BY <1>5, <1>6, <1>7, <1>8

LEMMA AcceptStep == ASSUME IInv, Accept PROVE IInv'
<1> USE DEF IInv, client
<1>1. PICK c \in Clients, t \in Token :
        /\ c = Head(backlog) /\ slab[t] = Nobody /\ slab' = [slab EXCEPT ![t] = c]
        /\ pc = "accept" /\ pc' = "read" /\ cur' = t /\ back' = "accept"
  <2>1. Head(backlog) \in Clients
    BY DEF Accept, TypeOK
  <2> QED
    BY <2>1 DEF Accept, Vacant, Try
<1>2. /\ backlog # << >> /\ backlog' = Tail(backlog)
      /\ link' = [link EXCEPT ![c] = "open"] /\ edge' = [edge EXCEPT ![c] = TRUE]
      /\ readable' = [readable EXCEPT ![c] = TRUE]
      /\ UNCHANGED <<sent, ended, readClosed, partial, left, unread, batch>>
  BY <1>1 DEF Accept
<1>3. /\ backlog \in Seq(Clients) /\ Len(backlog) \in Nat \ {0} /\ c = backlog[1]
      /\ Len(backlog') = Len(backlog) - 1 /\ backlog' \in Seq(Clients)
      /\ \A i \in 1 .. Len(backlog) - 1 : backlog'[i] = backlog[i + 1]
  BY <1>1, <1>2 DEF TypeOK
<1>4. \A i \in 1 .. Len(backlog) - 1 : i + 1 \in 1 .. Len(backlog)
  BY <1>3
<1>5. link[c] = "queued" /\ \A i \in 1 .. Len(backlog) - 1 : backlog'[i] # c
  <2>1. 1 \in 1 .. Len(backlog) /\ \A i \in 1 .. Len(backlog) - 1 : i + 1 # 1
    BY <1>3
  <2> QED
    BY <1>3, <1>4, <2>1 DEF Queue
<1>6. \A u \in Token : slab[u] # c
  BY <1>5 DEF TokensMatch
<1>7. TypeOK'
  BY <1>1, <1>2, <1>3 DEF TypeOK
<1>8. Queue'
  <2> SUFFICES ASSUME NEW i \in 1 .. Len(backlog) - 1, NEW j \in 1 .. Len(backlog) - 1
               PROVE  link'[backlog'[i]] = "queued" /\ (backlog'[i] = backlog'[j] => i = j)
    BY <1>3 DEF Queue
  <2>1. i + 1 \in 1 .. Len(backlog) /\ j + 1 \in 1 .. Len(backlog)
    BY <1>4
  <2>2. link[backlog[i + 1]] = "queued" /\ (backlog[i + 1] = backlog[j + 1] => i + 1 = j + 1)
    BY <2>1 DEF Queue
  <2>3. backlog'[i] # c /\ backlog'[i] \in Clients
    BY <1>3, <1>5, <2>1
  <2>4. link'[backlog'[i]] = link[backlog'[i]]
    BY <1>2, <2>3 DEF TypeOK
  <2>5. backlog'[i] = backlog[i + 1] /\ backlog'[j] = backlog[j + 1]
    BY <1>3
  <2>6. i + 1 = j + 1 => i = j
    BY <1>3
  <2> QED
    BY <2>2, <2>4, <2>5, <2>6
<1>9. \A e \in batch \ {ListenerEvent} : e[1] # t
  <2> SUFFICES ASSUME NEW e \in batch \ {ListenerEvent} PROVE e[1] # t
    OBVIOUS
  <2>1. slab[e[1]] = e[2] /\ e[2] \in Clients
    BY DEF TokensMatch, TypeOK
  <2> QED
    BY <1>1, <2>1, TokenFacts
<1>10. Trying' /\ Parsing' /\ OneEventEach'
  BY <1>1, <1>2, <1>9, TokenFacts DEF Trying, Parsing, OneEventEach, Current, TypeOK
<1>11. \A u \in Token : slab'[u] = IF u = t THEN c ELSE slab[u]
  BY <1>1 DEF TypeOK
<1>12. TokensMatch'
  <2>1. ASSUME NEW d \in Clients PROVE link'[d] = "open" <=> \E u \in Token : slab'[u] = d
    <3>1. CASE d = c
      BY <1>2, <1>11, <3>1 DEF TypeOK
    <3>2. CASE d # c
      <4>1. link'[d] = link[d]
        BY <1>2, <3>2 DEF TypeOK
      <4>2. \A u \in Token : slab'[u] = d <=> slab[u] = d
        BY <1>1, <1>11, <3>2, TokenFacts
      <4> QED
        BY <4>1, <4>2 DEF TokensMatch
    <3> QED
      BY <3>1, <3>2
  <2>2. \A u, v \in Token : slab'[u] = slab'[v] /\ slab'[u] # Nobody => u = v
    BY <1>6, <1>11 DEF TokensMatch
  <2>3. ASSUME NEW e \in batch \ {ListenerEvent} PROVE slab'[e[1]] = e[2]
    <3>1. e[1] \in Token /\ e[1] # t /\ slab[e[1]] = e[2]
      BY <1>9 DEF TokensMatch, TypeOK
    <3> QED
      BY <1>11, <3>1
  <2> QED
    BY <1>2, <2>1, <2>2, <2>3 DEF TokensMatch
<1>13. NoLostWakeup'
  <2> SUFFICES ASSUME NEW d \in Clients, link'[d] = "open", HasNews(d)', ~readClosed[d], ~edge'[d]
               PROVE  \/ \E u \in Token : <<u, d, TRUE>> \in batch
                      \/ readable'[d] /\ partial[d] /\ left[d]
    BY <1>2 DEF NoLostWakeup, Woken
  <2>1. d # c /\ link[d] = "open" /\ ~edge[d] /\ readable'[d] = readable[d] /\ HasNews(d)
    BY <1>2 DEF TypeOK, HasNews
  <2> QED
    BY <1>1, <2>1 DEF NoLostWakeup, Woken, InCall
<1> QED
  BY <1>7, <1>8, <1>10, <1>12, <1>13

-----------------------------------------------------------------------------
(* try_connection.                                                         *)

LEMMA CurrentFacts ==
  ASSUME IInv, pc \in {"read", "parse"}
  PROVE  /\ cur \in Token /\ slab[cur] \in Clients /\ link[slab[cur]] = "open"
         /\ \A u \in Token : slab[u] = slab[cur] => u = cur
         /\ \A e \in batch \ {ListenerEvent} : e[1] # cur
<1>1. cur \in Token /\ slab[cur] \in Clients
  BY DEF IInv, TypeOK, Trying, Current
<1> QED
  BY <1>1, TokenFacts DEF IInv, Trying, TokensMatch

(* The steps of Connection::ready change nothing but what they know of the *)
(* connection itself, which is in the call before and after.               *)
CallFrame(c) ==
  /\ c = slab[cur] /\ UNCHANGED <<sent, ended, link, edge, backlog, slab, batch, cur, back>>
  /\ pc \in {"read", "parse"} /\ pc' \in {"read", "parse"}
  /\ \A d \in Clients \ {c} :
       /\ unread'[d] = unread[d] /\ left'[d] = left[d] /\ readClosed'[d] = readClosed[d]
       /\ readable'[d] = readable[d] /\ partial'[d] = partial[d]

LEMMA CallStep ==
  ASSUME IInv, NEW c \in Clients, CallFrame(c), TypeOK', Parsing',
         HasNews(c)' /\ ~readClosed'[c] => readable'[c] \/ (HasNews(c) /\ ~readClosed[c] /\ ~readable[c])
  PROVE  IInv'
<1> USE DEF IInv, CallFrame
<1>1. Queue' /\ Trying' /\ OneEventEach' /\ TokensMatch'
  BY DEF Queue, Trying, OneEventEach, TokensMatch, Current
<1>2. NoLostWakeup'
  <2> SUFFICES ASSUME NEW d \in Clients, link[d] = "open", HasNews(d)', ~readClosed'[d], ~Woken(d)
               PROVE  readable'[d] /\ (d = c \/ (partial'[d] /\ left'[d]))
    BY DEF NoLostWakeup, Woken, InCall, Current
  <2>1. CASE d = c
    BY <2>1 DEF NoLostWakeup
  <2>2. CASE d # c
    BY <2>2 DEF NoLostWakeup, HasNews, InCall, Current
  <2> QED
    BY <2>1, <2>2
<1> QED
  BY <1>1, <1>2

LEMMA ReadStep == ASSUME IInv, Read PROVE IInv'
<1> USE DEF IInv, client, conn
<1>1. PICK c \in Clients : c = slab[cur]
  BY CurrentFacts DEF Read
<1>2. PICK n \in 1 .. unread[c] :
        /\ unread' = [unread EXCEPT ![c] = @ - n]
        /\ left' = [left EXCEPT ![c] = n < unread[c] \/ ended[c]]
  BY <1>1 DEF Read, Current
<1>3. /\ UNCHANGED <<sent, ended, conn, link, edge, backlog, slab, batch, cur, back>>
      /\ pc = "read" /\ pc' = "parse" /\ readable[c] /\ ~readClosed[c]
  BY <1>1 DEF Read, Reads, Current
<1>4. unread[c] \in 0 .. MaxSent /\ unread[c] <= sent[c] /\ sent[c] \in 0 .. MaxSent
  BY DEF TypeOK
<1>5. unread[c] - n \in 0 .. MaxSent /\ unread[c] - n <= sent[c] /\ unread'[c] = unread[c] - n
  BY <1>2, <1>4, SlabAssumption DEF TypeOK
<1>6. TypeOK'
  <2>1. unread' \in [Clients -> 0 .. MaxSent] /\ left' \in [Clients -> BOOLEAN]
    BY <1>2, <1>5 DEF TypeOK
  <2>2. \A d \in Clients : unread'[d] <= sent[d]
    BY <1>2, <1>5 DEF TypeOK
  <2> QED
    BY <1>1, <1>3, <2>1, <2>2 DEF TypeOK
<1>7. Parsing'
  <2>1. left'[c] <=> n < unread[c] \/ ended[c]
    BY <1>2 DEF TypeOK
  <2>2. unread'[c] > 0 => n < unread[c]
    BY <1>4, <1>5
  <2> QED
    BY <1>1, <1>3, <2>1, <2>2 DEF Parsing, HasNews, Current
<1>8. CallFrame(c)
  BY <1>1, <1>2, <1>3 DEF CallFrame, TypeOK
<1> QED
  BY <1>3, <1>6, <1>7, <1>8, CallStep

LEMMA FlagStep == ASSUME IInv, ReadBlocks \/ ReadEnd \/ StopReading \/ ReadOn PROVE IInv'
<1> USE DEF IInv, client, conn
<1>1. PICK c \in Clients : c = slab[cur]
  BY CurrentFacts DEF ReadBlocks, ReadEnd, StopReading, ReadOn
<1>2. CASE ReadBlocks
  <2>1. /\ UNCHANGED <<sent, ended, readClosed, partial, link, unread, left, edge, backlog,
                      slab, batch, pc, cur, back>>
        /\ readable' = [readable EXCEPT ![c] = FALSE] /\ pc = "read" /\ ~HasNews(c)
    BY <1>1, <1>2 DEF ReadBlocks, Current
  <2>2. TypeOK' /\ Parsing' /\ ~HasNews(c)'
    BY <2>1 DEF TypeOK, Parsing, HasNews
  <2>3. CallFrame(c)
    BY <1>1, <2>1 DEF CallFrame, TypeOK
  <2> QED
    BY <2>2, <2>3, CallStep
<1>3. CASE ReadEnd \/ StopReading
  <2>1. /\ UNCHANGED <<sent, ended, readable, partial, link, unread, left, edge, backlog,
                      slab, batch, pc, cur, back>>
        /\ readClosed' = [readClosed EXCEPT ![c] = TRUE] /\ pc \in {"read", "parse"}
    BY <1>1, <1>3 DEF ReadEnd, StopReading, Current
  <2>2. TypeOK' /\ readClosed'[c]
    BY <2>1 DEF TypeOK
  <2>3. Parsing'
    BY <2>1 DEF Parsing, HasNews, Current
  <2>4. CallFrame(c)
    BY <1>1, <2>1 DEF CallFrame, TypeOK
  <2> QED
    BY <2>2, <2>3, <2>4, CallStep
<1>4. CASE ReadOn
  <2>1. /\ UNCHANGED <<sent, ended, readClosed, readable, link, unread, left, edge, backlog,
                      slab, batch, cur, back>>
        /\ partial' = [partial EXCEPT ![c] = FALSE] /\ pc = "parse" /\ pc' = "read"
    BY <1>1, <1>4 DEF ReadOn, Current
  <2>2. partial' \in [Clients -> BOOLEAN]
    BY <2>1 DEF TypeOK
  <2>3. TypeOK' /\ Parsing' /\ readable'[c]
    BY <1>1, <2>1, <2>2 DEF TypeOK, Parsing, Current
  <2>4. CallFrame(c)
    BY <1>1, <2>1 DEF CallFrame, TypeOK
  <2> QED
    BY <2>3, <2>4, CallStep
<1> QED
  BY <1>2, <1>3, <1>4

(* ready returns and the connection stays: at its end, with the bit of     *)
(* readable off or nothing more to be read; or within a request.           *)
LEMMA KeepStep == ASSUME IInv, Keep \/ NeedMore PROVE IInv'
<1> USE DEF IInv, client, conn
<1>1. PICK c \in Clients : c = slab[cur] /\ \A e \in batch \ {ListenerEvent} : e[1] # cur
  BY CurrentFacts DEF Keep, NeedMore
<1>2. /\ UNCHANGED <<sent, ended, readClosed, readable, left, link, unread, edge, backlog, slab, batch>>
      /\ pc' = back /\ cur' = LISTENER /\ back' = "loop"
      /\ \/ pc = "parse" /\ partial' = [partial EXCEPT ![c] = TRUE]
         \/ pc = "read" /\ (~readable[c] \/ readClosed[c]) /\ UNCHANGED partial
  BY <1>1 DEF Keep, NeedMore, Reads, Return, Current
<1>3. TypeOK' /\ Queue' /\ OneEventEach' /\ TokensMatch'
  <2>1. partial' \in [Clients -> BOOLEAN]
    BY <1>2 DEF TypeOK
  <2>2. TypeOK'
    BY <1>2, <2>1 DEF TypeOK
  <2> QED
    BY <1>2, <2>2 DEF Queue, OneEventEach, TokensMatch
<1>4. back \in {"loop", "accept"}
  BY DEF TypeOK
<1>5. Trying' /\ Parsing'
  BY <1>2, <1>4 DEF Trying, Parsing
<1>6. NoLostWakeup'
  <2> SUFFICES ASSUME NEW d \in Clients, link[d] = "open", HasNews(d), ~readClosed[d], ~Woken(d)
               PROVE  readable[d] /\ partial'[d] /\ left[d]
    BY <1>2 DEF NoLostWakeup, HasNews, Woken
  <2>1. readable[d] /\ (InCall(d) \/ (partial[d] /\ left[d]))
    BY DEF NoLostWakeup
  <2>2. CASE d = c
    <3>1. pc = "parse" /\ partial'[c]
      BY <1>2, <2>1, <2>2 DEF TypeOK
    <3>2. left[c]
      BY <1>1, <2>2, <3>1 DEF Parsing, Woken, Current
    <3> QED
      BY <2>1, <2>2, <3>1, <3>2
  <2>3. CASE d # c
    BY <1>1, <1>2, <2>1, <2>3 DEF InCall, Current, TypeOK
  <2> QED
    BY <2>2, <2>3
<1> QED
  BY <1>3, <1>5, <1>6

LEMMA RemoveStep == ASSUME IInv, Remove PROVE IInv'
<1> USE DEF IInv, client, conn
<1>1. pc \in {"read", "parse"}
  BY DEF Remove
<1>2. PICK c \in Clients : c = slab[cur]
  BY <1>1, CurrentFacts
<1>3. /\ cur \in Token /\ link[c] = "open" /\ \A u \in Token : slab[u] = c => u = cur
      /\ \A e \in batch \ {ListenerEvent} : e[1] # cur
  BY <1>1, <1>2, CurrentFacts
<1>4. /\ slab' = [slab EXCEPT ![cur] = Nobody] /\ link' = [link EXCEPT ![c] = "gone"]
      /\ edge' = [edge EXCEPT ![c] = FALSE]
      /\ pc' = back /\ cur' = LISTENER /\ back' = "loop"
      /\ UNCHANGED <<sent, ended, conn, left, unread, backlog, batch>>
  BY <1>2 DEF Remove, Return, Current
<1>5. TypeOK'
  BY <1>4 DEF TypeOK
<1>6. \A d \in Clients \ {c} : link'[d] = link[d] /\ edge'[d] = edge[d]
  BY <1>4 DEF TypeOK
<1>7. \A u \in Token \ {cur} : slab'[u] = slab[u]
  BY <1>4 DEF TypeOK
<1>8. slab'[cur] = Nobody /\ link'[c] = "gone"
  BY <1>3, <1>4 DEF TypeOK
<1>9. Queue'
  <2>1. \A i \in 1 .. Len(backlog) : backlog[i] \in Clients \ {c}
    BY <1>3 DEF TypeOK, Queue
  <2> QED
    BY <1>4, <1>6, <2>1 DEF Queue
<1>10. Trying' /\ Parsing' /\ OneEventEach'
  BY <1>4 DEF Trying, Parsing, OneEventEach, TypeOK
<1>11. TokensMatch'
  <2>1. ASSUME NEW d \in Clients PROVE link'[d] = "open" <=> \E u \in Token : slab'[u] = d
    <3>1. CASE d = c
      BY <1>3, <1>7, <1>8, <3>1, TokenFacts
    <3>2. CASE d # c
      <4>1. \A u \in Token : slab'[u] = d <=> slab[u] = d
        BY <1>2, <1>7, <1>8, <3>2, TokenFacts
      <4> QED
        BY <1>6, <3>2, <4>1 DEF TokensMatch
    <3> QED
      BY <3>1, <3>2
  <2>2. \A u, v \in Token : slab'[u] = slab'[v] /\ slab'[u] # Nobody => u = v
    BY <1>7, <1>8 DEF TokensMatch
  <2>3. ASSUME NEW e \in batch \ {ListenerEvent} PROVE slab'[e[1]] = e[2]
    <3>1. e[1] \in Token \ {cur} /\ slab[e[1]] = e[2]
      BY <1>3 DEF TokensMatch, TypeOK
    <3> QED
      BY <1>7, <3>1
  <2> QED
    BY <1>4, <2>1, <2>2, <2>3 DEF TokensMatch
<1>12. NoLostWakeup'
  <2> SUFFICES ASSUME NEW d \in Clients, link'[d] = "open", HasNews(d), ~readClosed[d], ~edge'[d]
               PROVE  \/ \E u \in Token : <<u, d, TRUE>> \in batch
                      \/ readable[d] /\ partial[d] /\ left[d]
    BY <1>4 DEF NoLostWakeup, HasNews, Woken
  <2>1. d # c /\ link[d] = "open" /\ ~edge[d]
    BY <1>6, <1>8
  <2> QED
    BY <1>2, <2>1 DEF NoLostWakeup, Woken, InCall, Current
<1> QED
  BY <1>5, <1>9, <1>10, <1>11, <1>12

-----------------------------------------------------------------------------
(* The theorems.                                                           *)

LEMMA InvStep == IInv /\ [Next]_vars => IInv'
<1> SUFFICES ASSUME IInv, [Next]_vars PROVE IInv'
  OBVIOUS
<1>1. ASSUME NEW t \in Token, ConnectionReady(t) PROVE IInv'
  BY <1>1, ReadyStep, PanicStep DEF ConnectionReady
<1>2. ASSUME AcceptFull \/ HandlerPanics PROVE IInv'
  BY <1>2, PanicStep DEF AcceptFull, HandlerPanics
<1>3. ASSUME Loop PROVE IInv'
  BY <1>1, <1>2, <1>3, PollStep, ListenerStep, AcceptStep, ReadStep, FlagStep,
     KeepStep, RemoveStep DEF Loop
<1>4. CASE UNCHANGED vars
  <2> USE <1>4 DEF vars, client, conn, IInv, Current
  <2>1. TypeOK' /\ Queue' /\ Trying' /\ Parsing'
    BY DEF TypeOK, Queue, Trying, Parsing, HasNews
  <2>2. OneEventEach' /\ TokensMatch' /\ NoLostWakeup'
    BY DEF OneEventEach, TokensMatch, NoLostWakeup, HasNews, Woken, InCall
  <2> QED
    BY <2>1, <2>2
<1> QED
  BY <1>3, <1>4, ConnectStep, SendStep DEF Next

(* Nobody is queued twice, the token of the connection that is tried is    *)
(* taken and has no second event in the batch, and the three invariants    *)
(* below, whatever is accepted and removed in the middle of a batch.       *)
THEOREM Invariance == Spec => []IInv
BY InitInv, InvStep, PTL DEF Spec

(* Every token, queue and count stays in its range.                        *)
THEOREM TypeCorrect == Spec => []TypeOK
<1>1. IInv => TypeOK
  BY DEF IInv
<1> QED
  BY <1>1, Invariance, PTL

(* An event is handled for the connection it was raised for, although      *)
(* tokens are used again: Server::ready never tries a vacant entry, or the *)
(* connection of a client that came later.                                 *)
THEOREM TokensAlwaysMatch == Spec => []TokensMatch
<1>1. IInv => TokensMatch
  BY DEF IInv
<1> QED
  BY <1>1, Invariance, PTL

(* The edge-triggered registrations lose no wake-up: input, or the end of  *)
(* the stream, in the socket of a connection that reads has an edge, an    *)
(* event or a read on its way, unless ready has returned within a request  *)
(* and before the last read of it.                                         *)
THEOREM NoWakeupIsLost == Spec => []NoLostWakeup
<1>1. IInv => NoLostWakeup
  BY DEF IInv
<1> QED
  BY <1>1, Invariance, PTL
=============================================================================
