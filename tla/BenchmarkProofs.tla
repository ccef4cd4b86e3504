-------------------------- MODULE BenchmarkProofs ---------------------------
(***************************************************************************)
(* The two micro-benchmarks.                                               *)
(*                                                                         *)
(* Conservation of Throughput holds for any number of clients, any bound   *)
(* on what is sent and any size of the sockets.  It is not inductive: a    *)
(* read or a write forgets the count of the one before it, which must have *)
(* been added (HandIsEmpty), and the server writes to a client             *)
(* (PeerIsClient).                                                         *)
(*                                                                         *)
(* The machines of NestedTransition have no parameters: the states are     *)
(* told from the number of calls.                                          *)
(***************************************************************************)
EXTENDS Throughput, NestedTransition, TLAPS

HandIsEmpty == \A p \in Programs : pc[p] \notin {"add", "gone"} => hand[p] = 0

PeerIsClient == pc[Server] \in {"write", "add"} => peer \in Clients

IInv == TypeOK /\ HandIsEmpty /\ PeerIsClient /\ Conservation

-----------------------------------------------------------------------------

LEMMA InitInv == Init => IInv
<1> USE ThroughputAssumption DEF Programs
<1> SUFFICES ASSUME Init PROVE IInv
  OBVIOUS
<1>1. TypeOK
  BY DEF Init, TypeOK, Labels
<1>2. HandIsEmpty /\ PeerIsClient
  BY DEF Init, HandIsEmpty, PeerIsClient
<1>3. Conservation
  BY DEF Init, Conservation, Counted, Clients
<1> QED
  BY <1>1, <1>2, <1>3 DEF IInv

(* The counts of a program and their sum are numbers.                      *)
LEMMA CountsAreNumbers ==
  ASSUME TypeOK, NEW p \in Programs
  PROVE  hand[p] \in Nat /\ amt[p] \in Nat /\ reported[p] \in Nat /\ Counted(p) \in Nat
<1>1. hand[p] \in Nat /\ amt[p] \in Nat /\ reported[p] \in Nat
  BY DEF TypeOK
<1> QED
  BY <1>1 DEF Counted

(* What is in hand is moved to AMT.                                        *)
LEMMA AddInv == ASSUME NEW p \in Programs, IInv, Add(p) PROVE IInv'
<1> USE ThroughputAssumption DEF Programs, IInv
<1>1. TypeOK'
  <2>1. amt[p] + hand[p] \in Nat /\ 0 \in Nat
    BY CountsAreNumbers
  <2>2. pc' \in [Programs -> Labels]
    BY DEF TypeOK, Labels, Add, Goto
  <2>3. amt' \in [Programs -> Nat] /\ hand' \in [Programs -> Nat]
    BY <2>1 DEF TypeOK, Add
  <2> QED
    BY <2>2, <2>3 DEF TypeOK, Add, network, history
<1>2. HandIsEmpty' /\ PeerIsClient'
  BY DEF TypeOK, HandIsEmpty, PeerIsClient, Add, At, Goto, network, history
<1>3. Conservation'
  <2>1. Counted(p)' = Counted(p)
    <3>1. /\ amt'[p] = amt[p] + hand[p] /\ hand'[p] = 0
          /\ reported' = reported
      BY DEF TypeOK, Add
    <3> QED
      BY <3>1, CountsAreNumbers DEF Counted
  <2>2. \A q \in Programs \ {p} : Counted(q)' = Counted(q)
    BY DEF TypeOK, Add, Counted
  <2> QED
    BY <2>1, <2>2 DEF Conservation, Clients, Add, network, history
<1> QED
  BY <1>1, <1>2, <1>3

(* What is in AMT is moved to what has been printed.                       *)
LEMMA ReportInv == ASSUME NEW p \in Programs, IInv, Report(p) PROVE IInv'
<1> USE ThroughputAssumption DEF Programs, IInv
<1>1. TypeOK'
  <2>1. reported[p] + amt[p] \in Nat /\ 0 \in Nat
    BY CountsAreNumbers
  <2> QED
    BY <2>1 DEF TypeOK, Report, network, history
<1>2. HandIsEmpty' /\ PeerIsClient'
  BY DEF HandIsEmpty, PeerIsClient, Report
<1>3. Conservation'
  <2>1. Counted(p)' = Counted(p)
    <3>1. /\ reported'[p] = reported[p] + amt[p] /\ amt'[p] = 0
          /\ hand' = hand
      BY DEF TypeOK, Report
    <3> QED
      BY <3>1, CountsAreNumbers DEF Counted
  <2>2. \A q \in Programs \ {p} : Counted(q)' = Counted(q)
    BY DEF TypeOK, Report, Counted
  <2> QED
    BY <2>1, <2>2 DEF Conservation, Clients, Report, network, history
<1> QED
  BY <1>1, <1>2, <1>3

LEMMA AcceptInv == IInv /\ Accept => IInv'
<1> SUFFICES ASSUME IInv, Accept PROVE IInv'
  OBVIOUS
<1> USE ThroughputAssumption DEF Programs, IInv
<1>1. Head(queue) \in Clients /\ Tail(queue) \in Seq(Clients)
  BY DEF TypeOK, Accept
<1>2. TypeOK'
  BY <1>1 DEF TypeOK, Labels, Accept, Goto, counters, history
<1>3. HandIsEmpty' /\ PeerIsClient'
  BY <1>1 DEF TypeOK, HandIsEmpty, PeerIsClient, Accept, At, Goto, counters
<1>4. Conservation'
  BY DEF Conservation, Counted, Accept, counters, history
<1> QED
  BY <1>2, <1>3, <1>4

(* A write puts the same number in hand, in the socket (or among what is   *)
(* lost) and in what has been sent.                                        *)
LEMMA WriteInv == IInv /\ Write => IInv'
<1> SUFFICES ASSUME IInv, Write PROVE IInv'
  OBVIOUS
<1> USE ThroughputAssumption DEF Programs, IInv
<1>1. /\ peer \in Clients /\ peer # Server /\ hand[Server] = 0
      /\ \A c \in Clients : c # Server
  BY DEF TypeOK, PeerIsClient, HandIsEmpty, Write, At, Clients
<1>2. PICK n \in 1 .. SockCap - socket[peer] :
        /\ sent' = [p \in Programs |->
                      IF p \in {Server, peer} THEN sent[p] + n ELSE sent[p]]
        /\ hand' = [hand EXCEPT ![Server] = n]
        /\ \/ /\ dropped' = [dropped EXCEPT ![peer] = @ + n]
              /\ socket' = socket
           \/ /\ socket' = [socket EXCEPT ![peer] = @ + n]
              /\ dropped' = dropped
  BY DEF Write
<1>3. /\ n \in Nat /\ socket[peer] \in Nat /\ dropped[peer] \in Nat
      /\ sent[Server] \in Nat /\ sent[peer] \in Nat
      /\ socket[peer] + n \in 0 .. SockCap
      /\ dropped[peer] + n \in Nat
      /\ sent[Server] + n \in Nat /\ sent[peer] + n \in Nat
  <2>1. /\ socket[peer] \in 0 .. SockCap /\ dropped[peer] \in Nat
        /\ sent[Server] \in Nat /\ sent[peer] \in Nat
    BY <1>1 DEF TypeOK
  <2> QED
    BY <2>1
<1>4. TypeOK'
  <2>1. sent' \in [Programs -> Nat] /\ hand' \in [Programs -> Nat]
    <3>1. hand' \in [Programs -> Nat]
      BY <1>2, <1>3 DEF TypeOK
    <3>2. \A p \in Programs : sent[p] \in Nat /\ sent[p] + n \in Nat
      <4>1. \A p \in Programs : sent[p] \in Nat
        BY DEF TypeOK
      <4>2. \A m \in Nat : m + n \in Nat
        BY <1>3
      <4> QED
        BY <4>1, <4>2
    <3>3. sent' \in [Programs -> Nat]
      BY <1>2, <3>2
    <3> QED
      BY <3>1, <3>3
  <2>2. socket' \in [Clients -> 0 .. SockCap] /\ dropped' \in [Clients -> Nat]
    <3>1. socket \in [Clients -> 0 .. SockCap] /\ dropped \in [Clients -> Nat]
      BY DEF TypeOK
    <3>2. [socket EXCEPT ![peer] = socket[peer] + n] \in [Clients -> 0 .. SockCap]
      BY <1>1, <1>3, <3>1
    <3>3. [dropped EXCEPT ![peer] = dropped[peer] + n] \in [Clients -> Nat]
      BY <1>1, <1>3, <3>1
    <3> QED
      BY <1>2, <3>1, <3>2, <3>3
  <2> QED
    BY <1>1, <2>1, <2>2 DEF TypeOK, Labels, Write, Goto
<1>5. HandIsEmpty' /\ PeerIsClient'
  BY <1>1, <1>2 DEF TypeOK, HandIsEmpty, PeerIsClient, Write, At, Goto
<1>6. Conservation'
  <2>1. Counted(Server)' = Counted(Server) + n
    <3>1. hand'[Server] = n /\ amt' = amt /\ reported' = reported
      BY <1>2 DEF TypeOK, Write
    <3> QED
      BY <1>1, <1>3, <3>1, CountsAreNumbers DEF Counted
  <2>2. sent'[Server] = sent[Server] + n /\ sent'[peer] = sent[peer] + n
    BY <1>1, <1>2 DEF TypeOK
  <2>3. \A c \in Clients : Counted(c)' = Counted(c)
    BY <1>1, <1>2 DEF TypeOK, Counted, Write
  <2>4. \A c \in Clients \ {peer} :
          sent'[c] = sent[c] /\ socket'[c] = socket[c] /\ dropped'[c] = dropped[c]
    BY <1>1, <1>2 DEF TypeOK
  <2>5. \/ socket'[peer] = socket[peer] + n /\ dropped'[peer] = dropped[peer]
        \/ dropped'[peer] = dropped[peer] + n /\ socket'[peer] = socket[peer]
    BY <1>1, <1>2 DEF TypeOK
  <2>6. Counted(peer) + socket'[peer] + dropped'[peer] = sent'[peer]
    <3>1. /\ Counted(peer) + socket[peer] + dropped[peer] = sent[peer]
          /\ Counted(peer) \in Nat
      BY <1>1, CountsAreNumbers DEF Conservation
    <3> QED
      BY <1>3, <2>2, <2>5, <3>1
  <2> QED
    BY <1>1, <2>1, <2>2, <2>3, <2>4, <2>6 DEF Conservation
<1> QED
  BY <1>4, <1>5, <1>6

LEMMA WriteFailsInv == IInv /\ WriteFails => IInv'
<1> SUFFICES ASSUME IInv, WriteFails PROVE IInv'
  OBVIOUS
<1> USE ThroughputAssumption DEF Programs, IInv
<1>1. TypeOK'
  BY DEF TypeOK, Labels, WriteFails, Goto, counters, network, history
<1>2. HandIsEmpty' /\ PeerIsClient'
  BY DEF TypeOK, HandIsEmpty, PeerIsClient, WriteFails, At, Goto, counters
<1>3. Conservation'
  BY DEF Conservation, Counted, WriteFails, counters, network, history
<1> QED
  BY <1>1, <1>2, <1>3

-----------------------------------------------------------------------------

LEMMA ConnectInv == ASSUME NEW c \in Clients, IInv, Connect(c) PROVE IInv'
<1> USE ThroughputAssumption DEF Programs, IInv
<1>0. Append(queue, c) \in Seq(Clients)
  BY DEF TypeOK
<1>1. TypeOK'
  BY <1>0 DEF TypeOK, Labels, Connect, Goto, counters, history
<1>2. HandIsEmpty' /\ PeerIsClient'
  BY DEF TypeOK, HandIsEmpty, PeerIsClient, Connect, At, Goto, counters
<1>3. Conservation'
  BY DEF Conservation, Counted, Connect, counters, history
<1> QED
  BY <1>1, <1>2, <1>3

(* A read moves what it returns from the socket into the client's hand.    *)
LEMMA ReadInv == ASSUME NEW c \in Clients, IInv, Read(c) PROVE IInv'
<1> USE ThroughputAssumption DEF Programs, IInv
<1>1. hand[c] = 0 /\ c # Server
  BY DEF HandIsEmpty, Read, At
<1>2. PICK n \in 1 .. socket[c] :
        /\ socket' = [socket EXCEPT ![c] = @ - n]
        /\ hand' = [hand EXCEPT ![c] = n]
  BY DEF Read
<1>3. n \in Nat /\ socket[c] \in Nat /\ socket[c] - n \in 0 .. SockCap
  <2>1. socket[c] \in 0 .. SockCap
    BY DEF TypeOK
  <2> QED
    BY <2>1
<1>4. TypeOK'
  BY <1>2, <1>3 DEF TypeOK, Labels, Read, Goto, history
<1>5. HandIsEmpty' /\ PeerIsClient'
  BY <1>1, <1>2 DEF TypeOK, HandIsEmpty, PeerIsClient, Read, At, Goto
<1>6. Conservation'
  <2>1. Counted(Server)' = Counted(Server)
    BY <1>1, <1>2 DEF TypeOK, Counted, Read
  <2>2. \A d \in Clients \ {c} :
          Counted(d)' = Counted(d) /\ socket'[d] = socket[d]
    BY <1>1, <1>2 DEF TypeOK, Counted, Read
  <2>3. /\ Counted(c) \in Nat /\ Counted(c)' = Counted(c) + n
        /\ socket'[c] = socket[c] - n
    <3>1. /\ hand'[c] = n /\ amt' = amt /\ reported' = reported
          /\ socket'[c] = socket[c] - n
      BY <1>2 DEF TypeOK, Read
    <3> QED
      BY <1>1, <1>3, <3>1, CountsAreNumbers DEF Counted
  <2>4. Counted(c)' + socket'[c] + dropped[c] = Counted(c) + socket[c] + dropped[c]
    BY <1>3, <2>3 DEF TypeOK
  <2> QED
    BY <2>1, <2>2, <2>4 DEF Conservation, Read, history
<1> QED
  BY <1>4, <1>5, <1>6

(* What a client leaves in its socket is lost.                             *)
LEMMA LeaveInv == ASSUME NEW c \in Clients, IInv, Leave(c) PROVE IInv'
<1> USE ThroughputAssumption DEF Programs, IInv
<1>1. c # Server
  OBVIOUS
<1>0. socket[c] \in Nat /\ dropped[c] + socket[c] \in Nat /\ 0 \in 0 .. SockCap
  <2>1. socket[c] \in 0 .. SockCap /\ dropped[c] \in Nat
    BY DEF TypeOK
  <2> QED
    BY <2>1
<1>2. TypeOK'
  BY <1>0 DEF TypeOK, Labels, Leave, Goto, counters
<1>3. HandIsEmpty' /\ PeerIsClient'
  BY <1>1 DEF TypeOK, HandIsEmpty, PeerIsClient, Leave, Goto, counters
<1>4. Conservation'
  <2>1. \A p \in Programs : Counted(p)' = Counted(p)
    BY DEF Counted, Leave, counters
  <2>2. \A d \in Clients \ {c} :
          socket'[d] = socket[d] /\ dropped'[d] = dropped[d]
    BY DEF TypeOK, Leave
  <2>3. socket'[c] = 0 /\ dropped'[c] = dropped[c] + socket[c]
    BY DEF TypeOK, Leave
  <2>4. Counted(c) \in Nat /\ dropped[c] \in Nat
    BY CountsAreNumbers DEF TypeOK
  <2>5. Counted(c) + socket'[c] + dropped'[c] = Counted(c) + socket[c] + dropped[c]
    BY <1>0, <2>3, <2>4
  <2> QED
    BY <2>1, <2>2, <2>5 DEF Conservation, Leave
<1> QED
  BY <1>2, <1>3, <1>4

(* The steps of mio-raw that read nothing.                                 *)
LEMMA RawInv ==
  ASSUME NEW c \in Clients, IInv, RawReadsEnd(c) \/ RawReadFails(c) \/ RawPoll(c)
  PROVE  IInv'
<1> USE ThroughputAssumption DEF Programs, IInv
<1>1. c # Server
  OBVIOUS
<1>2. TypeOK'
  BY DEF TypeOK, Labels, RawReadsEnd, RawReadFails, RawPoll, Goto,
         counters, network, history
<1>3. HandIsEmpty' /\ PeerIsClient'
  BY <1>1 DEF TypeOK, HandIsEmpty, PeerIsClient, RawReadsEnd, RawReadFails,
              RawPoll, At, Goto, counters
<1>4. Conservation'
  BY DEF Conservation, Counted, RawReadsEnd, RawReadFails, RawPoll,
         counters, network, history
<1> QED
  BY <1>2, <1>3, <1>4

(* The network and the end of the server move no data.                     *)
LEMMA ResetInv == ASSUME NEW c \in Clients, IInv, Reset(c) PROVE IInv'
BY DEF IInv, TypeOK, HandIsEmpty, PeerIsClient, Conservation, Counted,
       Reset, counters, history

LEMMA StopInv == IInv /\ Stop => IInv'
<1> SUFFICES ASSUME IInv, Stop PROVE IInv'
  OBVIOUS
<1> USE ThroughputAssumption DEF Programs, IInv
<1>1. TypeOK'
  BY DEF TypeOK, Labels, Stop, Goto, counters, history
<1>2. HandIsEmpty' /\ PeerIsClient'
  BY DEF TypeOK, HandIsEmpty, PeerIsClient, Stop, Goto, counters
<1>3. Conservation'
  BY DEF Conservation, Counted, Stop, counters, history
<1> QED
  BY <1>1, <1>2, <1>3

-----------------------------------------------------------------------------

(* Every step of every program keeps its counts.                           *)
THEOREM Invariance == Spec => []IInv
<1>1. IInv /\ [Next]_vars => IInv'
  <2> SUFFICES ASSUME IInv, [Next]_vars PROVE IInv'
    OBVIOUS
  <2>1. CASE UNCHANGED vars
    BY <2>1 DEF vars, counters, network, history, IInv, TypeOK, HandIsEmpty,
                PeerIsClient, Conservation, Counted
  <2>2. CASE ServerStep
    BY <2>2, AcceptInv, WriteInv, WriteFailsInv, AddInv DEF ServerStep, Programs
  <2>3. CASE \E c \in Clients : ClientStep(c)
    BY <2>3, ReadInv, AddInv, LeaveInv, RawInv DEF ClientStep, StdEnds, Programs
  <2>4. CASE \E c \in Clients : Connect(c) \/ Kill(c) \/ Reset(c)
    BY <2>4, ConnectInv, LeaveInv, ResetInv DEF Kill
  <2> QED
    BY <2>1, <2>2, <2>3, <2>4, StopInv, ReportInv DEF Next
<1> QED
  BY InitInv, <1>1, PTL DEF Spec

(* No program counts a byte twice or loses one.                            *)
THEOREM NothingIsLost == Spec => []Conservation
<1>1. IInv => Conservation
  BY DEF IInv
<1> QED
  BY Invariance, <1>1, PTL

-----------------------------------------------------------------------------
(* The edges of mio-raw.  NoLostWakeup needs that nothing happens to the   *)
(* connection of a client that has not connected, when there is no poll    *)
(* that an edge could be for: the server and its queue know only of those  *)
(* that have.                                                              *)

Started ==
  /\ peer \in Clients => pc[peer] # "start"
  /\ \A i \in 1 .. Len(queue) : pc[queue[i]] # "start"

Fresh == \A c \in Clients : pc[c] = "start" => socket[c] = 0 /\ stream[c] = "open"

EdgesComeIn == Started /\ Fresh /\ NoLostWakeup

LEMMA InitEdges == Init => EdgesComeIn
<1> SUFFICES ASSUME Init PROVE EdgesComeIn
  OBVIOUS
<1> USE ThroughputAssumption DEF Programs
<1>1. Started
  <2>1. peer \notin Clients
    BY DEF Init
  <2>2. 1 .. Len(queue) = {}
    BY DEF Init
  <2> QED
    BY <2>1, <2>2 DEF Started
<1>2. Fresh
  BY DEF Init, Fresh
<1>3. NoLostWakeup
  BY DEF Init, NoLostWakeup, At, Clients
<1> QED
  BY <1>1, <1>2, <1>3 DEF EdgesComeIn

LEMMA QueueFacts ==
  ASSUME TypeOK
  PROVE  /\ queue \in Seq(Clients) /\ DOMAIN queue = 1 .. Len(queue)
         /\ \A i \in 1 .. Len(queue) : queue[i] \in Clients
BY DEF TypeOK

LEMMA AppendFacts ==
  ASSUME NEW S, NEW q \in Seq(S), NEW e \in S
  PROVE  \A i \in 1 .. Len(Append(q, e)) :
           \/ Append(q, e)[i] = e
           \/ i \in 1 .. Len(q) /\ Append(q, e)[i] = q[i]
OBVIOUS

LEMMA TailFacts ==
  ASSUME NEW S, NEW q \in Seq(S), q # <<>>
  PROVE  /\ Head(q) = q[1] /\ 1 \in 1 .. Len(q)
         /\ \A i \in 1 .. Len(Tail(q)) : i + 1 \in 1 .. Len(q) /\ Tail(q)[i] = q[i + 1]
OBVIOUS

LEMMA StartedStays ==
  ASSUME TypeOK, Started, peer' = peer \/ peer' = Nobody, queue' = queue,
         \A c \in Clients : pc[c] # "start" => pc'[c] # "start"
  PROVE  Started'
<1>1. Nobody \notin Clients
  BY ThroughputAssumption DEF Programs
<1> QED
  BY <1>1, QueueFacts DEF Started

(* The steps that leave the network and who has started as they were.      *)
LEMMA CountingEdges ==
  ASSUME NEW p \in Programs, IInv, EdgesComeIn, Add(p) \/ Report(p)
  PROVE  EdgesComeIn'
<1> USE ThroughputAssumption DEF IInv, TypeOK, EdgesComeIn, Programs
<1>1. UNCHANGED <<peer, queue, socket, stream, edge>>
  BY DEF Add, Report, network
<1>2. \A q \in Programs :
        pc'[q] = pc[q] \/ (pc[q] = "add" /\ pc'[q] \in {"write", "read"})
  BY DEF Add, Report, At, Goto
<1>3. Started'
  <2>1. \A d \in Clients : pc[d] # "start" => pc'[d] # "start"
    BY <1>2
  <2> QED
    BY <1>1, <2>1, StartedStays
<1>4. Fresh' /\ NoLostWakeup'
  BY <1>1, <1>2 DEF Fresh, NoLostWakeup, At, HasData, HasEnd, Clients
<1> QED
  BY <1>3, <1>4

LEMMA ServerEdges ==
  ASSUME IInv, EdgesComeIn, Accept \/ Write \/ WriteFails
  PROVE  EdgesComeIn'
<1> USE ThroughputAssumption DEF IInv, TypeOK, EdgesComeIn, Programs
<1>1. stream' = stream /\ \A c \in Clients : pc'[c] = pc[c]
  BY DEF Accept, Write, WriteFails, Goto, network
<1>2. CASE Accept
  <2>1. /\ peer' = Head(queue) /\ queue' = Tail(queue) /\ queue # <<>>
        /\ socket' = socket /\ edge' = edge
    BY <1>2 DEF Accept
  <2>2. /\ Head(queue) = queue[1] /\ 1 \in 1 .. Len(queue)
        /\ \A i \in 1 .. Len(Tail(queue)) :
             i + 1 \in 1 .. Len(queue) /\ Tail(queue)[i] = queue[i + 1]
    BY <2>1, QueueFacts, TailFacts
  <2>3. \A i \in 1 .. Len(queue) : queue[i] \in Clients
    BY QueueFacts
  <2>4. Started'
    <3>1. \A i \in 1 .. Len(queue) : pc'[queue[i]] # "start"
      BY <1>1, <2>3 DEF Started
    <3> QED
      BY <2>1, <2>2, <3>1 DEF Started
  <2>5. Fresh' /\ NoLostWakeup'
    BY <1>1, <2>1 DEF Fresh, NoLostWakeup, At, HasData, HasEnd, Clients
  <2> QED
    BY <2>4, <2>5
<1>3. CASE Write
  <2>1. peer \in Clients /\ peer' = peer /\ queue' = queue
    BY <1>3 DEF Write, At, PeerIsClient
  <2>2. /\ edge' = [edge EXCEPT ![peer] = TRUE]
        /\ \A c \in Clients \ {peer} : socket'[c] = socket[c]
    BY <1>3 DEF Write
  <2>3. Started'
    BY <1>1, <2>1, StartedStays
  <2>4. Fresh'
    BY <1>1, <2>1, <2>2 DEF Fresh, Started
  <2>5. NoLostWakeup'
    BY <1>1, <2>1, <2>2 DEF NoLostWakeup, At, HasData, HasEnd, Clients
  <2> QED
    BY <2>3, <2>4, <2>5
<1>4. CASE WriteFails
  <2>1. peer' = Nobody /\ UNCHANGED <<queue, socket, edge>>
    BY <1>4 DEF WriteFails, network
  <2>3. Started'
    BY <1>1, <2>1, StartedStays
  <2>4. Fresh' /\ NoLostWakeup'
    BY <1>1, <2>1 DEF Fresh, NoLostWakeup, At, HasData, HasEnd, Clients
  <2> QED
    BY <2>3, <2>4
<1> QED
  BY <1>2, <1>3, <1>4

(* A client that connects has nothing to read yet.                         *)
LEMMA ConnectEdges ==
  ASSUME NEW c \in Clients, IInv, EdgesComeIn, Connect(c)
  PROVE  EdgesComeIn'
<1> USE ThroughputAssumption DEF IInv, TypeOK, EdgesComeIn, Programs
<1>1. /\ pc[c] = "start" /\ pc'[c] \in {"read", "poll"}
      /\ \A d \in Clients \ {c} : pc'[d] = pc[d]
      /\ queue' = Append(queue, c) /\ UNCHANGED <<peer, socket, stream, edge>>
  BY DEF Connect, At, Goto
<1>2. \A i \in 1 .. Len(queue') :
        queue'[i] = c \/ (i \in 1 .. Len(queue) /\ queue'[i] = queue[i] /\ queue[i] \in Clients)
  <2>1. \A i \in 1 .. Len(Append(queue, c)) :
          Append(queue, c)[i] = c \/ (i \in 1 .. Len(queue) /\ Append(queue, c)[i] = queue[i])
    <3>1. queue \in Seq(Clients)
      BY QueueFacts
    <3> HIDE DEF TypeOK, IInv, EdgesComeIn, Programs
    <3> QED
      BY <3>1, AppendFacts
  <2> QED
    BY <1>1, <2>1, QueueFacts
<1>3. Started'
  <2>1. c # Server /\ peer' = peer
    BY <1>1
  <2>2. \A d \in Clients : pc[d] # "start" => pc'[d] # "start"
    BY <1>1
  <2>3. pc'[c] # "start"
    BY <1>1
  <2> QED
    BY <1>2, <2>1, <2>2, <2>3 DEF Started
<1>4. Fresh'
  BY <1>1 DEF Fresh
<1>5. NoLostWakeup'
  <2>1. ~(HasData(c) \/ HasEnd(c))'
    <3>1. socket[c] = 0 /\ stream[c] = "open"
      BY <1>1 DEF Fresh
    <3> QED
      BY <1>1, <3>1 DEF HasData, HasEnd
  <2>2. \A d \in Raw \ {c} : At(d, "poll")' /\ (HasData(d) \/ HasEnd(d))' => edge'[d]
    BY <1>1 DEF NoLostWakeup, At, HasData, HasEnd, Clients
  <2> QED
    BY <2>1, <2>2 DEF NoLostWakeup
<1> QED
  BY <1>3, <1>4, <1>5

(* A client that is running reads, polls or goes; no one else is touched.  *)
LEMMA ClientEdges ==
  ASSUME NEW c \in Clients, IInv, EdgesComeIn, pc[c] # "start",
         Read(c) \/ Leave(c) \/ RawReadsEnd(c) \/ RawReadFails(c) \/ RawPoll(c)
  PROVE  EdgesComeIn'
<1> USE ThroughputAssumption DEF IInv, TypeOK, EdgesComeIn, Programs
<1>1. /\ UNCHANGED <<peer, queue, stream>>
      /\ pc'[c] \in {"add", "gone", "poll", "read"}
      /\ \A d \in Clients \ {c} : pc'[d] = pc[d] /\ socket'[d] = socket[d] /\ edge'[d] = edge[d]
  BY DEF Read, Leave, RawReadsEnd, RawReadFails, RawPoll, Goto, network
<1>2. Started'
  BY <1>1, StartedStays
<1>3. Fresh'
  BY <1>1 DEF Fresh
<1>4. NoLostWakeup'
  <2>1. ~At(c, "poll")' \/ RawReadFails(c)
    BY <1>1 DEF Read, Leave, RawReadsEnd, RawPoll, At, Goto
  <2>2. RawReadFails(c) => ~(HasData(c) \/ HasEnd(c))'
    BY DEF RawReadFails, HasData, HasEnd, network
  <2>3. \A d \in Raw \ {c} : At(d, "poll")' /\ (HasData(d) \/ HasEnd(d))' => edge'[d]
    BY <1>1 DEF NoLostWakeup, At, HasData, HasEnd, Clients
  <2> QED
    BY <2>1, <2>2, <2>3 DEF NoLostWakeup
<1> QED
  BY <1>2, <1>3, <1>4

(* A connection that is cut or ended has been in the server's hands.       *)
LEMMA CutEdges ==
  ASSUME IInv, EdgesComeIn, Stop \/ \E c \in Clients : Reset(c)
  PROVE  EdgesComeIn'
<1> USE ThroughputAssumption DEF IInv, TypeOK, EdgesComeIn, Programs
<1>1. CASE Stop
  <2>1. /\ peer' = peer /\ queue' = <<>> /\ socket' = socket
        /\ \A c \in Clients : pc'[c] = pc[c]
    BY <1>1 DEF Stop, Goto
  <2>2. \A c \in Clients : edge'[c] = (edge[c] \/ stream'[c] # stream[c])
    BY <1>1 DEF Stop
  <2>3. \A c \in Clients :
          stream'[c] = stream[c] \/ c = peer \/ \E i \in 1 .. Len(queue) : queue[i] = c
    BY <1>1, QueueFacts DEF Stop
  <2>4. Started'
    <3>1. 1 .. Len(queue') = {}
      BY <2>1
    <3> QED
      BY <2>1, <3>1 DEF Started
  <2>5. Fresh'
    <3>1. \A c \in Clients : pc[c] = "start" => stream'[c] = stream[c]
      BY <2>3 DEF Started
    <3> QED
      BY <2>1, <3>1 DEF Fresh
  <2>6. NoLostWakeup'
    BY <2>1, <2>2 DEF NoLostWakeup, At, HasData, HasEnd, Clients
  <2> QED
    BY <2>4, <2>5, <2>6
<1>2. ASSUME NEW c \in Clients, Reset(c) PROVE EdgesComeIn'
  <2>1. /\ pc[c] = "gone" /\ UNCHANGED <<pc, peer, queue, socket, edge>>
        /\ \A d \in Clients \ {c} : stream'[d] = stream[d]
    BY <1>2 DEF Reset, At
  <2> QED
    BY <2>1 DEF Started, Fresh, NoLostWakeup, At, HasData, HasEnd, Clients
<1> QED
  BY <1>1, <1>2

(* No input and no end of the stream waits for mio-raw without an edge.    *)
THEOREM NoWakeupIsLost == Spec => []NoLostWakeup
<1>1. IInv /\ EdgesComeIn /\ [Next]_vars => EdgesComeIn'
  <2> SUFFICES ASSUME IInv, EdgesComeIn, [Next]_vars PROVE EdgesComeIn'
    OBVIOUS
  <2>1. CASE UNCHANGED vars
    BY <2>1 DEF vars, network, EdgesComeIn, Started, Fresh, NoLostWakeup, At, HasData, HasEnd
  <2>2. CASE ServerStep \/ Stop
    BY <2>2, ServerEdges, CountingEdges, CutEdges DEF ServerStep, Programs
  <2>3. CASE \E c \in Clients : ClientStep(c)
    <3>1. PICK c \in Clients : ClientStep(c)
      BY <2>3
    <3>2. pc[c] # "start"
      BY <3>1 DEF ClientStep, Read, Add, StdEnds, RawReadsEnd, RawReadFails, RawPoll, At
    <3> QED
      BY <3>1, <3>2, ClientEdges, CountingEdges DEF ClientStep, StdEnds, Programs
  <2>4. CASE \E c \in Clients : Connect(c) \/ Kill(c) \/ Reset(c)
    BY <2>4, ConnectEdges, ClientEdges, CutEdges DEF Kill, Runs
  <2> QED
    BY <2>1, <2>2, <2>3, <2>4, CountingEdges DEF Next
<1>2. EdgesComeIn => NoLostWakeup
  BY DEF EdgesComeIn
<1> QED
  BY InitEdges, Invariance, <1>1, <1>2, PTL DEF Spec

-----------------------------------------------------------------------------
(* NestedTransition.                                                       *)

(* A call finishes the innermost level that has not moved, and no other.   *)
LEMMA CallFinishesOneLevel ==
  ASSUME NEW k \in 0 .. Depth, nested = Shape(k)
  PROVE  /\ k < Depth => /\ ~IsDone(1)
                         /\ [i \in Level |-> IF Called(i) /\ IsDone(i + 1)
                               THEN "State2" ELSE nested[i]] = Shape(k + 1)
         /\ k = Depth => /\ IsDone(1)
                         /\ [i \in Level |-> IF Called(i) /\ IsDone(i + 1)
                               THEN "State2" ELSE nested[i]] = Shape(Depth)
<1>1. \A i \in Level : nested[i] = "State2" <=> i > Depth - k
  BY DEF Shape, Level, Depth
<1>2. \A i \in Level : IsDone(i + 1) <=> i + 1 > Depth - k
  BY <1>1 DEF IsDone, Level, Depth
<1>3. \A i \in Level : nested[i] = "State1" <=> i <= Depth - k
  BY DEF Shape, Level, Depth
<1>4. \A i \in Level : i <= Depth - k => Called(i)
  BY <1>3 DEF Called, Level, Depth
<1>5. IsDone(1) <=> 1 > Depth - k
  BY <1>1 DEF IsDone, Level, Depth
<1>6. \A i \in Level :
        (IF Called(i) /\ IsDone(i + 1) THEN "State2" ELSE nested[i])
          = IF i <= Depth - (k + 1) THEN "State1" ELSE "State2"
  <2>1. SUFFICES ASSUME NEW i \in Level
        PROVE (IF Called(i) /\ IsDone(i + 1) THEN "State2" ELSE nested[i])
                = IF i <= Depth - (k + 1) THEN "State1" ELSE "State2"
    OBVIOUS
  <2>2. CASE i <= Depth - (k + 1)
    BY <1>2, <1>3, <2>2 DEF Level, Depth
  <2>3. CASE i = Depth - k
    BY <1>2, <1>4, <2>3 DEF Level, Depth
  <2>4. CASE i > Depth - k
    BY <1>1, <2>4 DEF Level, Depth
  <2> QED
    BY <2>2, <2>3, <2>4 DEF Level, Depth
<1>7. k = Depth => \A i \in Level :
        (IF Called(i) /\ IsDone(i + 1) THEN "State2" ELSE nested[i])
          = IF i <= Depth - Depth THEN "State1" ELSE "State2"
  BY <1>6 DEF Level, Depth
<1> QED
  BY <1>5, <1>6, <1>7 DEF Shape, Depth

(* After every number of calls the machines are where the counts say.      *)
THEOREM CountsTellStates == LoopsSpec => [](NestedFinishesInwardOut /\ FlatCounts)
<1> DEFINE Inv == NestedFinishesInwardOut /\ FlatCounts
<1>1. LoopsInit => Inv
  <2> SUFFICES ASSUME LoopsInit PROVE Inv
    OBVIOUS
  <2>1. nested = Shape(0)
    BY DEF LoopsInit, Shape, Level, Depth
  <2>2. nestedCalls = 0 /\ nestedCalls \in 0 .. Depth /\ Shape(nestedCalls) = Shape(0)
    BY DEF LoopsInit, Depth
  <2>3. flatCalls \in 0 .. 15 /\ flat = flatCalls + 1
    BY DEF LoopsInit
  <2>4. nestedDone = FALSE /\ flatDone = FALSE
    BY DEF LoopsInit
  <2> QED
    BY <2>1, <2>2, <2>3, <2>4, Zenon DEF NestedFinishesInwardOut, FlatCounts
<1>2. Inv /\ [LoopsNext]_loopVars => Inv'
  <2> SUFFICES ASSUME Inv, [LoopsNext]_loopVars PROVE Inv'
    OBVIOUS
  <2>1. CASE CallNested
    <3> DEFINE k == nestedCalls
    <3>1. k \in 0 .. Depth /\ nested = Shape(k) /\ ~nestedDone
      BY <2>1 DEF CallNested, NestedFinishesInwardOut
    <3>2. NestedFinishesInwardOut'
      <4>1. CASE k < Depth
        <5>1. nested' = Shape(k + 1) /\ nestedDone' = FALSE /\ nestedCalls' = k + 1
          BY <2>1, <3>1, <4>1, CallFinishesOneLevel DEF CallNested
        <5>2. nestedCalls' \in 0 .. Depth
          BY <3>1, <4>1, <5>1 DEF Depth
        <5>3. nested' = Shape(nestedCalls')
          BY <5>1
        <5> QED
          BY <5>1, <5>2, <5>3, Zenon DEF NestedFinishesInwardOut, Shape
      <4>2. CASE k = Depth
        <5>1. nested' = Shape(Depth) /\ nestedDone' = TRUE /\ nestedCalls' = k + 1
          BY <2>1, <3>1, <4>2, CallFinishesOneLevel DEF CallNested
        <5> QED
          BY <4>2, <5>1, Zenon DEF NestedFinishesInwardOut, Shape
      <4> QED
        BY <3>1, <4>1, <4>2 DEF Depth
    <3>3. FlatCounts'
      BY <2>1 DEF CallNested, FlatCounts, flatVars
    <3> QED
      BY <3>2, <3>3
  <2>2. CASE CallFlat
    <3>1. flatCalls \in 0 .. 15 /\ flat = flatCalls + 1
      BY <2>2 DEF CallFlat, FlatCounts
    <3>2. FlatCounts'
      <4>1. CASE flat = 16
        <5>1. flatDone' = TRUE /\ flat' = 16 /\ flatCalls' = 16
          BY <2>2, <3>1, <4>1 DEF CallFlat
        <5> QED
          BY <5>1, Zenon DEF FlatCounts
      <4>2. CASE flat # 16
        <5>1. flatDone' = FALSE
          BY <2>2, <4>2, Zenon DEF CallFlat
        <5>2. flat' = flat + 1 /\ flatCalls' = flatCalls + 1
          BY <2>2, <4>2, Zenon DEF CallFlat
        <5>3. flatCalls' \in 0 .. 15 /\ flat' = flatCalls' + 1
          BY <3>1, <4>2, <5>2
        <5> QED
          BY <5>1, <5>3, Zenon DEF FlatCounts
      <4> QED
        BY <4>1, <4>2
    <3>3. NestedFinishesInwardOut'
      BY <2>2 DEF CallFlat, NestedFinishesInwardOut, nestedVars, Shape
    <3> QED
      BY <3>2, <3>3
  <2>3. CASE UNCHANGED loopVars
    BY <2>3 DEF loopVars, nestedVars, flatVars, NestedFinishesInwardOut, FlatCounts,
                Shape
  <2> QED
    BY <2>1, <2>2, <2>3 DEF LoopsNext
<1> QED
  BY <1>1, <1>2, PTL DEF LoopsSpec

(* The nested machine takes seventeen calls, the flat one sixteen.         *)
THEOREM NestedIsLonger == LoopsSpec => []NestedTakesOneCallMore
<1>1. NestedFinishesInwardOut /\ FlatCounts => NestedTakesOneCallMore
  BY DEF NestedFinishesInwardOut, FlatCounts, NestedTakesOneCallMore, Depth
<1> QED
  BY CountsTellStates, <1>1, PTL
=============================================================================
