----------------------------- MODULE Connection -----------------------------
(***************************************************************************)
(* One HTTP connection of the mio servers: Connection::ready with read,    *)
(* parse, process and write, called by the event loop on edge-triggered    *)
(* readiness.  The three servers mio-multithread, mio-multithread-unix and *)
(* mio-singlethread have the same code; the lines are mio-multithread's.   *)
(*                                                                         *)
(* The byte stream is counted in pieces.  A request is two pieces, the     *)
(* smallest size that can arrive in part; a response is one.  Streams are  *)
(* in order, so a stream is how much of it each party has seen.            *)
(***************************************************************************)
EXTENDS Naturals, Sequences

CONSTANTS
  MaxRequests,  (* bound: the requests the client sends at most            *)
  BufCaps,      (* the capacities of a new input buffer; the code has 2048 *)
  SendCap       (* the responses the socket takes before write would block *)

ASSUME ConnectionAssumption ==
  MaxRequests \in Nat \ {0} /\ BufCaps \subseteq Nat \ {0} /\ SendCap \in Nat \ {0}

(* keep: HTTP/1.1 or Connection: keep-alive; close: neither; foreign: its  *)
(* path is not /plaintext; bad: not HTTP.                                  *)
RequestKind == {"keep", "close", "foreign", "bad"}

Requests == 1 .. MaxRequests

VARIABLES
  script,     (* script[r]: the kind of the client's r-th request          *)
  sent,       (* pieces of requests the client has sent                    *)
  got,        (* responses the client has received                         *)
  peer,       (* the client's side: "open", "finished" (FIN), "reset"      *)
  raised,     (* the edges the poll has not reported yet                   *)
  pc,         (* where the server is: the next call of Connection::ready   *)
  taken,      (* pieces read from the socket                               *)
  parsed,     (* pieces of the requests parsed and drained from input      *)
  cap,        (* the capacity of input                                     *)
  answered,   (* responses appended to output                              *)
  written,    (* responses written to the socket                           *)
  events,     (* Connection::events                                        *)
  keepalive, readClosed, closed,
  filled      (* history: some read has filled the input buffer            *)

client == <<script, sent, got, peer>>
input  == <<taken, parsed, cap, filled>>
output == <<answered, written>>
flags  == <<events, keepalive, readClosed, closed>>
vars   == <<client, raised, pc, input, output, flags>>

Ready == {"readable", "writable"}

Over == {"closed", "failed"}

(* How many requests the client has sent to the last piece.                *)
Complete == sent \div 2

(* What the socket is ready for now.                                       *)
ReadyNow ==
  (IF sent > taken \/ peer # "open" THEN {"readable"} ELSE {})
    \cup (IF written - got < SendCap \/ peer = "reset" THEN {"writable"} ELSE {})

(* accept, Connection::new and poll.register: registering a socket that is *)
(* ready raises an edge.                                                   *)
Init ==
  /\ script \in [Requests -> RequestKind]
  /\ sent = 0 /\ got = 0 /\ peer = "open"
  /\ raised = {"writable"}
  /\ pc = "accepted"
  /\ taken = 0 /\ parsed = 0 /\ cap \in BufCaps /\ filled = FALSE
  /\ answered = 0 /\ written = 0
  /\ events = {} /\ keepalive = FALSE /\ readClosed = FALSE /\ closed = FALSE

-----------------------------------------------------------------------------
(* External: the client and its socket.                                    *)

Raise(K) == raised' = raised \cup K

ClientSends ==
  /\ peer = "open" /\ sent < 2 * MaxRequests
  /\ sent' = sent + 1
  /\ Raise({"readable"})
  /\ UNCHANGED <<script, got, peer, pc, input, output, flags>>

(* Room in a send buffer that write has found full is an edge.             *)
ClientReceives ==
  /\ peer # "reset" /\ got < written
  /\ got' = got + 1
  /\ Raise(IF "writable" \in events THEN {} ELSE {"writable"})
  /\ UNCHANGED <<script, sent, peer, pc, input, output, flags>>

ClientEnds ==
  /\ peer = "open"
  /\ \/ peer' = "finished" /\ Raise({"readable"})
     \/ peer' = "reset" /\ Raise(Ready)
  /\ UNCHANGED <<script, sent, got, pc, input, output, flags>>

-----------------------------------------------------------------------------
(* The event loop calls ready.                                             *)

Goto(label) == pc' = label

(* while self.events.is_readable() && !self.read_closed                    *)
Loop(evs) ==
  Goto(IF "readable" \in evs /\ ~readClosed THEN "read" ELSE "write")

(* Mutant of Call: the reported events replace the known ones.             *)
CallForgets ==
  /\ \/ pc = "accepted" /\ events' = Ready /\ UNCHANGED raised
     \/ pc = "idle" /\ raised # {} /\ events' = raised /\ raised' = {}
  /\ Loop(events')
  /\ UNCHANGED <<client, input, output, keepalive, readClosed, closed>>

(* try_connection(EventSet::all()) for the new socket, later on the edges  *)
(* and whatever else the poll finds the socket ready for.                  *)
Call ==
  /\ \/ pc = "accepted" /\ events' = Ready /\ UNCHANGED raised
     \/ /\ pc = "idle" /\ raised # {}
        /\ \E extra \in SUBSET ReadyNow : events' = events \cup raised \cup extra
        /\ raised' = {}
  /\ Loop(events')
  /\ UNCHANGED <<client, input, output, keepalive, readClosed, closed>>

-----------------------------------------------------------------------------
(* read: one read of the socket.                                           *)

(* Mutant of Capacity: a full buffer is not grown.                         *)
CapacityFixed == cap

(* slice_to_end: a full buffer is grown before the read.                   *)
Capacity == IF taken - parsed = cap THEN 2 * cap ELSE cap

(* The length of the slice that is read into.                              *)
Room == Capacity - (taken - parsed)

(* Mutant of ReadData: a read that leaves room in the buffer is taken to   *)
(* have drained the socket.                                                *)
ReadDataDrains ==
  LET n == IF sent - taken < Room THEN sent - taken ELSE Room IN
  /\ pc = "read" /\ peer # "reset" /\ sent > taken /\ Room > 0
  /\ cap' = Capacity
  /\ taken' = taken + n
  /\ filled' = (filled \/ n = Room)
  /\ events' = IF n < Room THEN events \ {"readable"} ELSE events
  /\ Goto("parse")
  /\ UNCHANGED <<client, raised, parsed, output, keepalive, readClosed, closed>>

(* Ok(n): the kernel returns what it has, up to the room in the buffer.    *)
ReadData ==
  LET n == IF sent - taken < Room THEN sent - taken ELSE Room IN
  /\ pc = "read" /\ peer # "reset" /\ sent > taken /\ Room > 0
  /\ cap' = Capacity
  /\ taken' = taken + n
  /\ filled' = (filled \/ n = Room)
  /\ Goto("parse")
  /\ UNCHANGED <<client, raised, parsed, output, flags>>

(* The kernel returns nothing: an open socket without input would block,   *)
(* unless the slice is empty, which is Ok(0) whatever the socket has.      *)
NoInput  == peer # "reset" /\ (sent = taken \/ Room = 0)
ReadsEof == peer = "finished" \/ Room = 0

(* Mutant of ReadNothing: Ok(0) is not the end of the stream.              *)
ReadNothingNoEof ==
  /\ pc = "read" /\ NoInput
  /\ cap' = Capacity
  /\ events' = IF ReadsEof THEN events ELSE events \ {"readable"}
  /\ Goto("write")
  /\ UNCHANGED <<client, raised, taken, parsed, filled, output,
                 keepalive, readClosed, closed>>

(* Ok(0), taken for the end of the stream; or WouldBlock, and the loop     *)
(* waits for the next edge.  Either leaves input as it was and breaks the  *)
(* loop.                                                                   *)
ReadNothing ==
  /\ pc = "read" /\ NoInput
  /\ cap' = Capacity
  /\ readClosed' = ReadsEof
  /\ events' = IF ReadsEof THEN events ELSE events \ {"readable"}
  /\ Goto("write")
  /\ UNCHANGED <<client, raised, taken, parsed, filled, output, keepalive, closed>>

(* An error of the socket, from read or write: try! returns it, and the    *)
(* server removes the connection.                                          *)
SocketFails ==
  /\ pc \in {"read", "write"} /\ peer = "reset"
  /\ pc = "write" => "writable" \in events /\ answered > written
  /\ Goto("failed")
  /\ UNCHANGED <<client, raised, input, output, flags>>

-----------------------------------------------------------------------------
(* The loop over the requests in input.                                    *)

Current == script[parsed \div 2 + 1]

(* input is empty: on with the outer loop.                                 *)
ParseDone ==
  /\ pc = "parse" /\ taken = parsed
  /\ Loop(events)
  /\ UNCHANGED <<client, raised, input, output, flags>>

(* Status::Partial: "need more data for a request", return Ok(()).         *)
ParsePartial ==
  /\ pc = "parse" /\ taken = parsed + 1 /\ Current # "bad"
  /\ Goto("idle")
  /\ UNCHANGED <<client, raised, input, output, flags>>

(* parse fails, or process asserts the path.                               *)
ParseFails ==
  /\ pc = "parse"
  /\ \/ taken > parsed /\ Current = "bad"
     \/ taken > parsed + 1 /\ Current = "foreign"
  /\ Goto("failed")
  /\ UNCHANGED <<client, raised, input, output, flags>>

(* process: the path is asserted, anything else has an answer.             *)
HasAnswer(kind) == kind \in {"keep", "close"}

(* Response::to_bytes appends to output, behind the earlier responses.     *)
AppendResponse == answered' = answered + 1

(* Status::Complete: the response goes to output, the request is drained   *)
(* from input, and a request without keep-alive ends the reading.          *)
Respond ==
  /\ pc = "parse" /\ taken > parsed + 1 /\ HasAnswer(Current)
  /\ parsed' = parsed + 2
  /\ AppendResponse
  /\ keepalive' = (Current = "keep")
  /\ readClosed' = (readClosed \/ Current = "close")
  /\ UNCHANGED <<client, raised, pc, taken, cap, filled, written, events, closed>>

-----------------------------------------------------------------------------
(* write, and the end of ready.                                            *)

(* Ok(n) of socket.write; when that was all, the connection may be done.   *)
WriteData ==
  /\ pc = "write" /\ peer # "reset"
  /\ "writable" \in events /\ answered > written
  /\ \E n \in 1 .. answered - written :
       /\ written + n - got <= SendCap
       /\ written' = written + n
  /\ closed' = (closed \/ (written' = answered /\ (~keepalive \/ readClosed)))
  /\ UNCHANGED <<client, raised, pc, input, answered, events, keepalive, readClosed>>

(* WouldBlock of socket.write.                                             *)
WriteBlocks ==
  /\ pc = "write" /\ peer # "reset"
  /\ "writable" \in events /\ answered > written
  /\ written - got = SendCap
  /\ events' = events \ {"writable"}
  /\ UNCHANGED <<client, raised, pc, input, output, keepalive, readClosed, closed>>

(* Mutant of Return: what is still to be written is forgotten.             *)
ReturnEager ==
  /\ pc = "write"
  /\ "writable" \notin events \/ answered = written
  /\ closed' = (closed \/ readClosed)
  /\ Goto(IF closed' THEN "closed" ELSE "idle")
  /\ UNCHANGED <<client, raised, input, output, events, keepalive, readClosed>>

(* Nothing is left to write and nothing more will be read: the connection  *)
(* is closed, and the server removes it.                                   *)
Return ==
  /\ pc = "write"
  /\ "writable" \notin events \/ answered = written
  /\ closed' = (closed \/ (readClosed /\ answered = written))
  /\ Goto(IF closed' THEN "closed" ELSE "idle")
  /\ UNCHANGED <<client, raised, input, output, events, keepalive, readClosed>>

Server == \/ Call \/ ReadData \/ ReadNothing \/ SocketFails \/ ParseDone
          \/ ParsePartial \/ ParseFails \/ Respond
          \/ WriteData \/ WriteBlocks \/ Return

Next == Server \/ ClientSends \/ ClientReceives \/ ClientEnds

Spec == Init /\ [][Next]_vars

(* The event loop comes back to every connection with an edge, and ready   *)
(* does not block.  A client that has begun a request sends the rest of    *)
(* it, and reads the responses it has asked for.                           *)
Fairness == /\ WF_vars(Server)
            /\ WF_vars(ClientSends /\ sent % 2 = 1)
            /\ WF_vars(ClientReceives)

FairSpec == Spec /\ Fairness

-----------------------------------------------------------------------------

TypeOK ==
  /\ script \in [Requests -> RequestKind]
  /\ sent \in 0 .. 2 * MaxRequests
  /\ got \in Nat /\ written \in got .. got + SendCap /\ answered \in Nat
  /\ written <= answered
  /\ peer \in {"open", "finished", "reset"}
  /\ raised \in SUBSET Ready /\ events \in SUBSET Ready
  /\ pc \in {"accepted", "idle", "read", "parse", "write"} \cup Over
  /\ taken \in 0 .. sent /\ parsed \in 0 .. taken
  /\ cap \in Nat \ {0} /\ taken - parsed <= cap
  /\ keepalive \in BOOLEAN /\ readClosed \in BOOLEAN /\ closed \in BOOLEAN
  /\ filled \in BOOLEAN

AskedToClose == \E r \in 1 .. answered : script[r] = "close"

(* No request is left that the client may expect to be answered.           *)
Done == AskedToClose \/ (peer = "finished" /\ answered = Complete)

(* The server closes a connection only when the client has asked for it or *)
(* has ended its side, and every request it then owes a response is        *)
(* answered to the last byte.                                              *)
ClosesWhenDone ==
  [][pc # "closed" /\ pc' = "closed" => written = answered /\ Done]_vars

(* The poll reports an edge once.  So when ready has returned, whatever it *)
(* left undone has an edge to come: input and the end of the stream,       *)
(* unless it reads no more, it waits for the rest of a request, or a read  *)
(* has filled the buffer; output, unless the socket is full or it waits    *)
(* for the rest of a request; and an error.                                *)
NoLostWakeup ==
  pc = "idle" =>
    /\ "readable" \notin raised /\ ~readClosed /\ ~filled =>
         taken = sent /\ (peer = "finished" => sent % 2 = 1)
    /\ "writable" \notin raised /\ answered > written =>
         written - got = SendCap \/ taken = parsed + 1
    /\ peer = "reset" => raised = Ready

(* The inductive invariant: outside the loop over the requests, input is   *)
(* at most the beginning of one; keepalive is that of the last request     *)
(* answered; the two flags are not set before their time; and where ready  *)
(* is going to look at what has no edge.                                   *)
InputIsParsed ==
  /\ parsed = 2 * answered
  /\ pc \in {"accepted", "idle", "read", "write"} => taken <= parsed + 1

KeepaliveIsLast ==
  /\ \A r \in 1 .. answered : HasAnswer(script[r])
  /\ answered > 0 => (keepalive <=> script[answered] = "keep")

FlagsAreDue ==
  /\ readClosed => Done /\ pc # "read" /\ (pc = "parse" => AskedToClose)
  /\ closed => pc \in {"write", "closed"} /\ written = answered /\ Done

WillRead == pc \in {"accepted", "read"} \cup Over

InputIsSeen ==
  /\ pc = "read" => "readable" \in events
  /\ "readable" \notin raised /\ ~readClosed /\ ~filled =>
       /\ sent > taken => WillRead
       /\ peer = "finished" =>
            WillRead \/ sent % 2 = 1 \/ (pc = "parse" /\ "readable" \in events)

OutputIsSeen ==
  /\ "writable" \notin events \cup raised => written - got = SendCap
  /\ pc = "idle" /\ answered > written /\ "writable" \in events => taken = parsed + 1

ErrorIsSeen ==
  peer = "reset" =>
    \/ raised = Ready \/ pc = "read" \/ pc \in Over
    \/ pc = "write" /\ readClosed /\ "writable" \in events

IInv ==
  /\ TypeOK /\ InputIsParsed /\ KeepaliveIsLast /\ FlagsAreDue
  /\ InputIsSeen /\ OutputIsSeen /\ ErrorIsSeen

(* The client has broken off: a reset, or the end within a request.        *)
BrokenOff == peer = "reset" \/ (peer = "finished" /\ sent % 2 = 1)

(* A request that was sent whole is answered, unless the connection ends   *)
(* first, if no read has ever filled the input buffer.                     *)
AnsweredIfBufferSuffices ==
  \A r \in Requests :
    Complete >= r ~> (got >= r \/ pc \in Over \/ BrokenOff \/ filled)

(* When the client has sent whole requests and ended its side, the server  *)
(* closes the connection, if no read has ever filled the input buffer.     *)
FinishedIsClosed ==
  (peer = "finished" /\ sent % 2 = 0) ~> (pc \in Over \/ filled)

(* "Implementing HTTP pipelining", "Buffering both requests and responses" *)
(* (README of mio-singlethread): every request that was sent is answered.  *)
PipelinedIsAnswered ==
  \A r \in Requests :
    Complete >= r ~> (got >= r \/ pc \in Over \/ BrokenOff)
=============================================================================
