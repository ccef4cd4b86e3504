----------------------------- MODULE Throughput -----------------------------
(***************************************************************************)
(* The programs of tcp-throughput: the server, which writes to one client  *)
(* at a time for as long as the client is there, and its clients, std      *)
(* (blocking reads) and mio-raw (edge-triggered poll).  Every program      *)
(* counts the bytes it has moved in AMT, which a second thread of it, the  *)
(* reporter, swaps for 0 and prints once a second.                         *)
(*                                                                         *)
(* Bytes are counted in pieces.  A client connects while the server is up, *)
(* and once; it may be killed at any step, as may the server.              *)
(***************************************************************************)
EXTENDS Naturals, Sequences

CONSTANTS
  Std,         (* the processes of tcp-throughput/std                      *)
  Raw,         (* the processes of tcp-throughput/mio-raw                  *)
  Server,      (* the process of tcp-throughput/server                     *)
  Nobody,
  MaxSent,     (* bound: what the server writes                            *)
  SockCap      (* what the sockets between server and client hold          *)

Clients  == Std \cup Raw
Programs == Clients \cup {Server}

ASSUME ThroughputAssumption ==
  /\ Std \cap Raw = {} /\ Server \notin Clients /\ Nobody \notin Programs
  /\ MaxSent \in Nat /\ SockCap \in Nat \ {0}

VARIABLES
  pc,          (* pc[p]: what the main thread of p does next               *)
  hand,        (* hand[p]: the n of its last read or write, not yet added  *)
  amt,         (* amt[p]: its AMT                                          *)
  reported,    (* reported[p]: the sum of what its reporter has printed    *)
  queue,       (* the connections that wait for accept                     *)
  peer,        (* the server's c, or Nobody                                *)
  socket,      (* socket[c]: what has been written to c and not read       *)
  stream,      (* stream[c]: "open", "end" after the last byte, or "reset" *)
  edge,        (* edge[c]: an edge that c's poll has not reported          *)
  sent,        (* history: what the writes to c have returned, and for the *)
               (* Server what all of them have                             *)
  dropped      (* history: what was lost with the client c                 *)

counters == <<hand, amt, reported>>
network  == <<queue, socket, stream, edge>>
history  == <<sent, dropped>>
vars     == <<pc, counters, peer, network, history>>

Init ==
  /\ pc       = [p \in Programs |-> IF p = Server THEN "accept" ELSE "start"]
  /\ hand     = [p \in Programs |-> 0]
  /\ amt      = [p \in Programs |-> 0]
  /\ reported = [p \in Programs |-> 0]
  /\ queue    = <<>>
  /\ peer     = Nobody
  /\ socket   = [c \in Clients |-> 0]
  /\ stream   = [c \in Clients |-> "open"]
  /\ edge     = [c \in Clients |-> FALSE]
  /\ sent     = [p \in Programs |-> 0]
  /\ dropped  = [c \in Clients |-> 0]

At(p, label)   == pc[p] = label
Goto(p, label) == pc' = [pc EXCEPT ![p] = label]
Runs(p)        == pc[p] \notin {"start", "gone"}

Labels == {"start", "accept", "write", "add", "read", "poll", "gone"}

-----------------------------------------------------------------------------
(* Every program: the counter and its reporter.                            *)

(* Mutant of Add: mio-raw reads once for an event.  Mutant of Report: a    *)
(* load instead of swap.                                                   *)
AddThenPoll(p) ==
  /\ At(p, "add")
  /\ amt'  = [amt EXCEPT ![p] = @ + hand[p]]
  /\ hand' = [hand EXCEPT ![p] = 0]
  /\ Goto(p, CASE p = Server -> "write" [] p \in Raw -> "poll"
                 [] OTHER -> "read")
  /\ UNCHANGED <<reported, peer, network, history>>

ReportLoad(p) ==
  /\ Runs(p) /\ amt[p] > 0 /\ reported[p] < MaxSent
  /\ reported' = [reported EXCEPT ![p] = @ + amt[p]]
  /\ UNCHANGED <<pc, hand, amt, peer, network, history>>

(* AMT.fetch_add(n)                                                        *)
Add(p) ==
  /\ At(p, "add")
  /\ amt'  = [amt EXCEPT ![p] = @ + hand[p]]
  /\ hand' = [hand EXCEPT ![p] = 0]
  /\ Goto(p, IF p = Server THEN "write" ELSE "read")
  /\ UNCHANGED <<reported, peer, network, history>>

(* println!("{}", AMT.swap(0))                                             *)
Report(p) ==
  /\ Runs(p) /\ amt[p] > 0
  /\ reported' = [reported EXCEPT ![p] = @ + amt[p]]
  /\ amt'      = [amt EXCEPT ![p] = 0]
  /\ UNCHANGED <<pc, hand, peer, network, history>>

-----------------------------------------------------------------------------
(* The server.                                                             *)

Accept ==
  /\ At(Server, "accept") /\ queue # <<>>
  /\ peer'  = Head(queue)
  /\ queue' = Tail(queue)
  /\ Goto(Server, "write")
  /\ UNCHANGED <<counters, socket, stream, edge, history>>

(* c.write(&b): as much as the socket takes; when it is full, the call     *)
(* waits.  What is written after the client has gone is lost.              *)
Write ==
  LET c == peer IN
  /\ At(Server, "write") /\ stream[c] = "open"
  /\ \E n \in 1 .. SockCap - socket[c] :
       /\ sent[Server] + n <= MaxSent
       /\ sent' = [p \in Programs |->
                     IF p \in {Server, c} THEN sent[p] + n ELSE sent[p]]
       /\ hand' = [hand EXCEPT ![Server] = n]
       /\ IF At(c, "gone")
            THEN dropped' = [dropped EXCEPT ![c] = @ + n] /\ UNCHANGED socket
            ELSE socket' = [socket EXCEPT ![c] = @ + n] /\ UNCHANGED dropped
  /\ edge' = [edge EXCEPT ![c] = TRUE]
  /\ Goto(Server, "add")
  /\ UNCHANGED <<amt, reported, peer, queue, stream>>

(* Mutant of WriteFails: an error does not end the loop.                   *)
WriteFailsRetry ==
  /\ At(Server, "write") /\ stream[peer] = "reset"
  /\ UNCHANGED vars

(* An error: "connection is gone, listening for another".                  *)
WriteFails ==
  /\ At(Server, "write") /\ stream[peer] = "reset"
  /\ peer' = Nobody
  /\ Goto(Server, "accept")
  /\ UNCHANGED <<counters, network, history>>

-----------------------------------------------------------------------------
(* The clients.                                                            *)

(* What read returns: data, the end of the stream, or an error.            *)
HasData(c) == socket[c] > 0 /\ stream[c] # "reset"
HasEnd(c)  == socket[c] = 0 /\ stream[c] = "end"

Connect(c) ==
  /\ At(c, "start") /\ Runs(Server)
  /\ queue' = Append(queue, c)
  /\ Goto(c, IF c \in Std THEN "read" ELSE "poll")
  /\ UNCHANGED <<counters, peer, socket, stream, edge, history>>

(* read yields n > 0 bytes.                                                *)
Read(c) ==
  /\ At(c, "read") /\ HasData(c)
  /\ \E n \in 1 .. socket[c] :
       /\ socket' = [socket EXCEPT ![c] = @ - n]
       /\ hand'   = [hand EXCEPT ![c] = n]
  /\ Goto(c, "add")
  /\ UNCHANGED <<amt, reported, peer, queue, stream, edge, history>>

(* The client's process is over; the peer of its connection, if it has     *)
(* one, does not know yet.                                                 *)
Leave(c) ==
  /\ Goto(c, "gone")
  /\ dropped' = [dropped EXCEPT ![c] = @ + socket[c]]
  /\ socket'  = [socket EXCEPT ![c] = 0]
  /\ UNCHANGED <<counters, peer, queue, stream, edge, sent>>

(* Mutant of StdEnds: Ok(0) is Ok(n), as in mio-raw.                       *)
StdEndsReset(c) ==
  /\ c \in Std /\ At(c, "read")
  /\ stream[c] = "reset"
  /\ Leave(c)

(* std: 0 => break, and an error does not survive the unwrap.              *)
StdEnds(c) ==
  /\ c \in Std /\ At(c, "read")
  /\ HasEnd(c) \/ stream[c] = "reset"
  /\ Leave(c)

(* mio-raw: Ok(0) is Ok(n), and the loop goes on.                          *)
RawReadsEnd(c) ==
  /\ c \in Raw /\ At(c, "read") /\ HasEnd(c)
  /\ Goto(c, "add")
  /\ UNCHANGED <<counters, peer, network, history>>

(* mio-raw: WouldBlock and every other error end the inner loop.           *)
RawReadFails(c) ==
  /\ c \in Raw /\ At(c, "read")
  /\ stream[c] = "reset" \/ (socket[c] = 0 /\ stream[c] = "open")
  /\ Goto(c, "poll")
  /\ UNCHANGED <<counters, peer, network, history>>

RawPoll(c) ==
  /\ c \in Raw /\ At(c, "poll") /\ edge[c]
  /\ edge' = [edge EXCEPT ![c] = FALSE]
  /\ Goto(c, "read")
  /\ UNCHANGED <<counters, peer, queue, socket, stream, history>>

-----------------------------------------------------------------------------
(* Faults and the network.                                                 *)

Kill(c) == c \in Clients /\ Runs(c) /\ Leave(c)

(* The host of a client that has gone answers with a reset.                *)
Reset(c) ==
  /\ At(c, "gone") /\ stream[c] = "open"
  /\ stream' = [stream EXCEPT ![c] = "reset"]
  /\ UNCHANGED <<pc, counters, peer, queue, socket, edge, history>>

(* The server is stopped, or accept fails.  The client it serves reads the *)
(* rest and the end of the stream, those in the queue are reset.           *)
Stop ==
  /\ Runs(Server)
  /\ Goto(Server, "gone")
  /\ stream' = [c \in Clients |->
       IF stream[c] # "open" THEN stream[c]
       ELSE IF c = peer THEN "end"
       ELSE IF \E i \in DOMAIN queue : queue[i] = c THEN "reset" ELSE "open"]
  /\ edge'  = [c \in Clients |-> edge[c] \/ stream'[c] # stream[c]]
  /\ queue' = <<>>
  /\ UNCHANGED <<counters, peer, socket, history>>

ServerStep == Accept \/ Write \/ WriteFails \/ Add(Server)

ClientStep(c) ==
  \/ Read(c) \/ Add(c) \/ StdEnds(c)
  \/ RawReadsEnd(c) \/ RawReadFails(c) \/ RawPoll(c)

Next ==
  \/ ServerStep \/ Stop
  \/ \E p \in Programs : Report(p)
  \/ \E c \in Clients : Connect(c) \/ ClientStep(c) \/ Kill(c) \/ Reset(c)

Spec == Init /\ [][Next]_vars

(* The OS runs a thread that is not blocked, and the reset arrives.        *)
FairSpec ==
  /\ Spec
  /\ WF_vars(ServerStep)
  /\ \A c \in Clients : WF_vars(ClientStep(c)) /\ WF_vars(Reset(c))

-----------------------------------------------------------------------------
(* Safety.                                                                 *)

TypeOK ==
  /\ pc \in [Programs -> Labels]
  /\ hand \in [Programs -> Nat] /\ amt \in [Programs -> Nat]
  /\ reported \in [Programs -> Nat]
  /\ queue \in Seq(Clients)
  /\ peer \in Clients \cup {Nobody}
  /\ socket \in [Clients -> 0 .. SockCap]
  /\ stream \in [Clients -> {"open", "end", "reset"}]
  /\ edge \in [Clients -> BOOLEAN]
  /\ sent \in [Programs -> Nat] /\ dropped \in [Clients -> Nat]

(* What a program has printed, has in AMT, and is about to add to it.      *)
Counted(p) == reported[p] + amt[p] + hand[p]

(* No byte is counted twice or lost between a read or a write, the counter *)
(* and the reporter.  The server has counted what its writes returned, and *)
(* a client what was written to it, but for what is under way and what was *)
(* lost when it went away.                                                 *)
Conservation ==
  /\ Counted(Server) = sent[Server]
  /\ \A c \in Clients : Counted(c) + socket[c] + dropped[c] = sent[c]

(* mio-raw goes back to its poll only when nothing is left to read without *)
(* an edge that tells it so: the poll reports input, or the end of the     *)
(* stream, once.                                                           *)
NoLostWakeup ==
  \A c \in Raw : At(c, "poll") /\ (HasData(c) \/ HasEnd(c)) => edge[c]

-----------------------------------------------------------------------------
(* Liveness.                                                               *)

Gone(p) == At(p, "gone")

(* What is written to a client is read, although mio-raw is told of it by  *)
(* an edge, unless the client goes away.                                   *)
DataIsRead ==
  \A c \in Clients : socket[c] > 0 ~> (hand[c] > 0 \/ Gone(c))

(* The server turns to the next client when the one it serves has gone.    *)
GoneIsNoticed ==
  \A c \in Clients :
    (peer = c /\ Gone(c)) ~> (peer = Nobody \/ Gone(Server))

(* A std client returns when its stream has ended or was reset, once it    *)
(* has read what was written before.                                       *)
EndOfStream ==
  \A c \in Std : stream[c] # "open" ~> Gone(c)
=============================================================================
