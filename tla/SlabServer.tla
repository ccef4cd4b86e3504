----------------------------- MODULE SlabServer -----------------------------
(***************************************************************************)
(* The event loop of mio-singlethread, and of each thread of               *)
(* mio-multithread-unix, whose threads share nothing but the port: one     *)
(* listener, a slab of connections, and a handler that runs to its end.    *)
(* The lines are mio-singlethread's.                                       *)
(*                                                                         *)
(* Connections are registered for edges, so the question is whether every  *)
(* piece of input that a connection has not read has a wake-up on its way. *)
(* Inside a connection only the reads are modelled, and of the input buffer*)
(* only that a read may fill it; module Connection has the rest.           *)
(***************************************************************************)
EXTENDS Naturals, Sequences

CONSTANTS
  Clients,     (* bound: each connects once                                *)
  Talkers,     (* the clients that send; the others connect and end        *)
  Capacity,    (* of the slab; the code has 1024                           *)
  MaxSent,     (* bound: the pieces a talker sends                         *)
  Nobody

ASSUME SlabAssumption ==
  /\ Capacity \in Nat \ {0} /\ MaxSent \in Nat
  /\ Talkers \subseteq Clients /\ Nobody \notin Clients

VARIABLES
  link,      (* link[c]: "away", "queued", "open" or "gone"                *)
  sent,      (* sent[c]: pieces the client has sent                        *)
  unread,    (* unread[c]: those of them that are still in the socket      *)
  ended,     (* ended[c]: the client has ended or reset its side           *)
  readClosed, (* readClosed[c]: Connection::read_closed                    *)
  readable,  (* readable[c]: Connection::events has the bit of readable    *)
  partial,   (* partial[c]: Connection::input holds the start of a request *)
  left,      (* history, left[c]: c's last read left input, or the end, in *)
             (* the socket, and nothing has come after it                  *)
  edge,      (* edge[c]: an edge of c's socket was raised, not reported    *)
  backlog,   (* the listener's queue                                       *)
  slab,      (* slab[t]: whose connection is under token t                 *)
  batch,     (* polled and not yet handled: <<token, the socket's client,  *)
             (* whether the event's kind has the bit of readable>>         *)
  pc,        (* "loop", "accept", in ready "read", "parse", or "panicked"  *)
  cur,       (* the token try_connection was called with                   *)
  back       (* where that call returns to, "loop" or "accept"             *)

client == <<sent, ended>>
conn   == <<readClosed, readable, partial>>
vars   == <<client, link, unread, conn, left, edge, backlog, slab, batch,
            pc, cur, back>>

Token    == 1 .. Capacity
LISTENER == 0

ListenerEvent == <<LISTENER, Nobody, TRUE>>

Init ==
  /\ link    = [c \in Clients |-> "away"]
  /\ sent    = [c \in Clients |-> 0]
  /\ unread  = [c \in Clients |-> 0]
  /\ ended   = [c \in Clients |-> FALSE]
  /\ edge    = [c \in Clients |-> FALSE]
  /\ left    = [c \in Clients |-> FALSE]
  /\ readClosed = [c \in Clients |-> FALSE]
  /\ readable   = [c \in Clients |-> FALSE]
  /\ partial    = [c \in Clients |-> FALSE]
  /\ backlog = << >>
  /\ slab    = [t \in Token |-> Nobody]
  /\ batch   = {}
  /\ pc      = "loop" /\ cur = LISTENER /\ back = "loop"

-----------------------------------------------------------------------------
(* External: the clients.  An edge is raised for a registered socket only. *)

(* What read would find: input, or the end of the stream.                  *)
HasNews(c) == unread[c] > 0 \/ ended[c]

Raise(c) == /\ edge' = [edge EXCEPT ![c] = (link[c] = "open")]
            /\ left' = [left EXCEPT ![c] = FALSE]

Connect(c) ==
  /\ link[c] = "away" /\ pc # "panicked"
  /\ link'    = [link EXCEPT ![c] = "queued"]
  /\ backlog' = Append(backlog, c)
  /\ UNCHANGED <<client, conn, unread, left, edge, slab, batch, pc, cur, back>>

Send(c) ==
  /\ c \in Talkers /\ sent[c] < MaxSent
  /\ link[c] \in {"queued", "open"} /\ ~ended[c]
  /\ sent'   = [sent EXCEPT ![c] = @ + 1]
  /\ unread' = [unread EXCEPT ![c] = @ + 1]
  /\ Raise(c)
  /\ UNCHANGED <<conn, ended, link, backlog, slab, batch, pc, cur, back>>

End(c) ==
  /\ link[c] \in {"queued", "open"} /\ ~ended[c]
  /\ ended' = [ended EXCEPT ![c] = TRUE]
  /\ Raise(c)
  /\ UNCHANGED <<conn, sent, link, unread, backlog, slab, batch, pc, cur, back>>

-----------------------------------------------------------------------------
(* main: poll, and the loop over the events.                               *)

(* poll.poll reports every edge, perhaps edges of room to write as well,   *)
(* each with what the socket is ready for now; and the listener as long as *)
(* somebody is queued.                                                     *)
Poll ==
  LET Open   == {t \in Token : slab[t] # Nobody}
      Raised == {t \in Open : edge[slab[t]]}
  IN
  /\ pc = "loop" /\ batch = {}
  /\ \E T \in SUBSET Open :
       /\ Raised \subseteq T
       /\ batch' = {<<t, slab[t], HasNews(slab[t])>> : t \in T}
                     \cup (IF backlog = << >> THEN {} ELSE {ListenerEvent})
       /\ batch' # {}
       /\ edge' = [c \in Clients |-> edge[c] /\ ~\E t \in T : slab[t] = c]
  /\ UNCHANGED <<client, conn, left, link, unread, backlog, slab, pc, cur, back>>

(* The listener's event starts the accept loop of Server::ready.           *)
ListenerReady ==
  /\ pc = "loop" /\ ListenerEvent \in batch
  /\ batch' = batch \ {ListenerEvent}
  /\ pc'    = "accept"
  /\ UNCHANGED <<client, conn, left, link, unread, edge, backlog, slab, cur, back>>

(* try_connection is called with token t, from the loop or from accept.    *)
Try(t, from) == pc' = "read" /\ cur' = t /\ back' = from

(* It returns.                                                             *)
Return == pc' = back /\ cur' = LISTENER /\ back' = "loop"

(* A panic ends the thread; its listener and its connections are closed.   *)
Panic ==
  /\ pc'      = "panicked"
  /\ link'    = [c \in Clients |-> IF link[c] = "away" THEN "away" ELSE "gone"]
  /\ backlog' = << >>
  /\ slab'    = [t \in Token |-> Nobody]
  /\ batch'   = {}
  /\ UNCHANGED <<client, conn, left, unread, edge, cur, back>>

(* Mutant of ConnectionReady: the kind of the event is not added.          *)
ConnectionReadyForgets(t) ==
  \E e \in batch \ {ListenerEvent} :
    /\ pc = "loop" /\ e[1] = t
    /\ IF slab[t] = Nobody
         THEN Panic
         ELSE /\ batch' = batch \ {e}
              /\ Try(t, "loop")
              /\ UNCHANGED <<client, conn, left, link, unread, edge, backlog, slab>>

(* A connection's event: ready calls try_connection, which panics if there *)
(* is no connection under the token, and Connection::ready adds the kind   *)
(* of the event to the events it has not used up.                          *)
ConnectionReady(t) ==
  \E e \in batch \ {ListenerEvent} :
    /\ pc = "loop" /\ e[1] = t
    /\ IF slab[t] = Nobody
         THEN Panic
         ELSE /\ batch' = batch \ {e}
              /\ Try(t, "loop")
              /\ readable' = [readable EXCEPT ![slab[t]] = @ \/ e[3]]
              /\ UNCHANGED <<client, readClosed, partial, left, link, unread,
                             edge, backlog, slab>>

-----------------------------------------------------------------------------
(* The accept loop.                                                        *)

(* Mutant of Vacant: the entry is not checked.                             *)
VacantUnchecked == Token

(* The entries insert_with may take.                                       *)
Vacant == {t \in Token : slab[t] = Nobody}

(* A queued client is inserted and registered, which raises an edge since  *)
(* the socket can be written, and its connection is tried with all events. *)
Accept ==
  LET c == Head(backlog) IN
  /\ pc = "accept" /\ backlog # << >>
  /\ \E t \in Vacant :
       /\ slab' = [slab EXCEPT ![t] = c]
       /\ Try(t, "accept")
  /\ backlog' = Tail(backlog)
  /\ link'    = [link EXCEPT ![c] = "open"]
  /\ edge'    = [edge EXCEPT ![c] = TRUE]
  /\ readable' = [readable EXCEPT ![c] = TRUE]
  /\ UNCHANGED <<client, readClosed, partial, left, unread, batch>>

(* insert_with on a full slab: unwrap.                                     *)
AcceptFull ==
  /\ pc = "accept" /\ backlog # << >> /\ Vacant = {}
  /\ Panic

(* Mutant of AcceptDone: the rest of the queue is dropped.                 *)
AcceptDoneDrops ==
  /\ pc = "accept"
  /\ pc' = "loop" /\ backlog' = << >>
  /\ UNCHANGED <<client, conn, left, link, unread, edge, slab, batch, cur, back>>

LeaveAccept ==
  /\ pc' = "loop"
  /\ UNCHANGED <<client, conn, left, link, unread, edge, backlog, slab, batch,
                 cur, back>>

(* accept would block.                                                     *)
AcceptDone == pc = "accept" /\ backlog = << >> /\ LeaveAccept

(* accept fails: the loop ends as well, and the clients go on waiting.     *)
AcceptFails == pc = "accept" /\ backlog # << >> /\ LeaveAccept

-----------------------------------------------------------------------------
(* try_connection: Connection::ready, then the removal.                    *)

Current == slab[cur]

(* while self.events.is_readable() && !self.read_closed                    *)
Reads == readable[Current] /\ ~readClosed[Current]

(* Mutant of Read: a read that has filled the buffer counts as the last.   *)
ReadIsLast ==
  /\ pc = "read" /\ Reads /\ unread[Current] > 0
  /\ \E n \in 1 .. unread[Current] :
       /\ unread'   = [unread EXCEPT ![Current] = @ - n]
       /\ left'     = [left EXCEPT ![Current] = n < unread[Current] \/ ended[Current]]
       /\ readable' = [readable EXCEPT ![Current] = FALSE]
  /\ pc' = "parse"
  /\ UNCHANGED <<client, readClosed, partial, link, edge, backlog, slab, batch,
                 cur, back>>

(* A read takes what is there, or as much of it as the buffer has room for.*)
Read ==
  /\ pc = "read" /\ Reads /\ unread[Current] > 0
  /\ \E n \in 1 .. unread[Current] :
       /\ unread' = [unread EXCEPT ![Current] = @ - n]
       /\ left'   = [left EXCEPT ![Current] = n < unread[Current] \/ ended[Current]]
  /\ pc' = "parse"
  /\ UNCHANGED <<client, conn, link, edge, backlog, slab, batch, cur, back>>

(* WouldBlock: the bit of readable is cleared, which ends the loop.        *)
ReadBlocks ==
  /\ pc = "read" /\ Reads /\ ~HasNews(Current)
  /\ readable' = [readable EXCEPT ![Current] = FALSE]
  /\ UNCHANGED <<client, readClosed, partial, link, unread, left, edge, backlog,
                 slab, batch, pc, cur, back>>

(* Ok(0): the end of the stream.                                           *)
ReadEnd ==
  /\ pc = "read" /\ Reads /\ unread[Current] = 0 /\ ended[Current]
  /\ readClosed' = [readClosed EXCEPT ![Current] = TRUE]
  /\ UNCHANGED <<client, readable, partial, link, unread, left, edge, backlog,
                 slab, batch, pc, cur, back>>

(* A request without keep-alive: this is the last read.                    *)
StopReading ==
  /\ pc = "parse" /\ ~readClosed[Current]
  /\ readClosed' = [readClosed EXCEPT ![Current] = TRUE]
  /\ UNCHANGED <<client, readable, partial, link, unread, left, edge, backlog,
                 slab, batch, pc, cur, back>>

(* Mutant of ReadOn: the loop over the reads is an if.                     *)
ReadOnce ==
  /\ pc = "parse"
  /\ partial' = [partial EXCEPT ![Current] = FALSE]
  /\ Return
  /\ UNCHANGED <<client, readClosed, readable, link, unread, left, edge, backlog,
                 slab, batch>>

(* The input held whole requests: on to the next read, if there is one.    *)
ReadOn ==
  /\ pc = "parse"
  /\ partial' = [partial EXCEPT ![Current] = FALSE]
  /\ pc' = "read"
  /\ UNCHANGED <<client, readClosed, readable, link, unread, left, edge, backlog,
                 slab, batch, cur, back>>

(* "need more data for a request": ready returns Ok, whatever is left in   *)
(* the socket.                                                             *)
NeedMore ==
  /\ pc = "parse"
  /\ partial' = [partial EXCEPT ![Current] = TRUE]
  /\ Return
  /\ UNCHANGED <<client, readClosed, readable, link, unread, left, edge, backlog,
                 slab, batch>>

(* Nothing more is to be read, now or ever: ready gets to its end, writes  *)
(* what it can, and the connection stays.                                  *)
Keep ==
  /\ pc = "read" /\ ~Reads
  /\ Return
  /\ UNCHANGED <<client, conn, left, link, unread, edge, backlog, slab, batch>>

(* ready fails, in parse or on the socket, or all is read and written and  *)
(* the connection is closed: connections.remove(token).                    *)
Remove ==
  /\ \/ pc = "parse"
     \/ pc = "read" /\ (ended[Current] \/ readClosed[Current])
  /\ slab' = [slab EXCEPT ![cur] = Nobody]
  /\ link' = [link EXCEPT ![Current] = "gone"]
  /\ edge' = [edge EXCEPT ![Current] = FALSE]
  /\ Return
  /\ UNCHANGED <<client, conn, left, unread, backlog, batch>>

(* The handler panics: expect("oh no it panicked!").                       *)
HandlerPanics == pc = "parse" /\ Panic

Loop == \/ Poll \/ ListenerReady \/ \E t \in Token : ConnectionReady(t)
        \/ Accept \/ AcceptFull \/ AcceptDone \/ AcceptFails
        \/ Read \/ ReadBlocks \/ ReadEnd \/ StopReading \/ ReadOn
        \/ NeedMore \/ Keep \/ Remove \/ HandlerPanics

Next == Loop \/ \E c \in Clients : Connect(c) \/ Send(c) \/ End(c)

Spec == Init /\ [][Next]_vars

(* The thread runs; the clients owe nothing.                               *)
FairSpec == Spec /\ WF_vars(Loop)

-----------------------------------------------------------------------------

TypeOK ==
  /\ link    \in [Clients -> {"away", "queued", "open", "gone"}]
  /\ sent    \in [Clients -> 0 .. MaxSent]
  /\ unread  \in [Clients -> 0 .. MaxSent]
  /\ ended   \in [Clients -> BOOLEAN]
  /\ edge    \in [Clients -> BOOLEAN]
  /\ left    \in [Clients -> BOOLEAN]
  /\ readClosed \in [Clients -> BOOLEAN]
  /\ readable   \in [Clients -> BOOLEAN]
  /\ partial    \in [Clients -> BOOLEAN]
  /\ backlog \in Seq(Clients)
  /\ slab    \in [Token -> Clients \cup {Nobody}]
  /\ batch   \in SUBSET ((Token \X Clients \X BOOLEAN) \cup {ListenerEvent})
  /\ pc      \in {"loop", "accept", "read", "parse", "panicked"}
  /\ cur     \in Token \cup {LISTENER}
  /\ back    \in {"loop", "accept"}
  /\ \A c \in Clients : unread[c] <= sent[c]
  /\ pc \in {"read", "parse"} => cur \in Token

(* Tokens and connections correspond, whatever is removed and accepted in  *)
(* the middle of a batch: an open connection is under exactly one token,   *)
(* and an event that is still to be handled finds under its token the      *)
(* connection it was raised for.                                           *)
TokensMatch ==
  /\ \A c \in Clients : link[c] = "open" <=> \E t \in Token : slab[t] = c
  /\ \A t, u \in Token : slab[t] = slab[u] /\ slab[t] # Nobody => t = u
  /\ \A e \in batch \ {ListenerEvent} : slab[e[1]] = e[2]

(* Edges are reported once.  So if there is input, or the end of the       *)
(* stream, in the socket of a connection that is open and goes on reading, *)
(* a wake-up is on its way: an edge that is not reported yet, an event that*)
(* is not handled yet, or the call of try_connection that is about to read.*)
(* The exception is a call that has returned within a request, and before  *)
(* the last read of which that was in the socket already: then ready has   *)
(* left the bit of readable on, but nobody calls it until there is news.   *)
Woken(c) == edge[c] \/ \E t \in Token : <<t, c, TRUE>> \in batch

InCall(c) == pc \in {"read", "parse"} /\ Current = c

NoLostWakeup ==
  \A c \in Clients :
    link[c] = "open" /\ HasNews(c) /\ ~readClosed[c] =>
      Woken(c) \/ (readable[c] /\ (InCall(c) \/ (partial[c] /\ left[c])))

(* The inductive invariant: nobody is queued twice, or queued and open;    *)
(* while a connection is tried, its token is taken and no other event for  *)
(* that token is waiting, so that the call may remove it; after a read     *)
(* there is nothing in the socket but what it left or what raised an edge; *)
(* and a batch has one event for a token.                                  *)
Queue ==
  \A i, j \in 1 .. Len(backlog) :
    link[backlog[i]] = "queued" /\ (backlog[i] = backlog[j] => i = j)

Trying ==
  pc \in {"read", "parse"} =>
    Current # Nobody /\ \A e \in batch \ {ListenerEvent} : e[1] # cur

Parsing ==
  pc = "parse" =>
    /\ readable[Current]
    /\ HasNews(Current) => edge[Current] \/ left[Current]

OneEventEach == \A e, f \in batch : e[1] = f[1] => e = f

IInv == /\ TypeOK /\ Queue /\ Trying /\ Parsing /\ OneEventEach
        /\ TokensMatch /\ NoLostWakeup

(* A client in the listener's queue is accepted, or the loop has died, if  *)
(* accept does not fail again and again.                                   *)
QueuedIsAccepted ==
  <>[][~AcceptFails]_vars =>
    \A c \in Clients : link[c] = "queued" ~> link[c] # "queued"

(* What a client sends is read, and the end of its stream is seen, unless  *)
(* its connection is closed, it has asked for that, or a call has returned *)
(* within a request and left it in the socket.  The bounds matter: a client*)
(* that sends without end, or clients that connect without end, can keep   *)
(* the loop away from its other connections.                               *)
InputIsRead ==
  \A c \in Clients :
    LET over == link[c] = "gone" \/ readClosed[c] \/ (partial[c] /\ left[c]) IN
    /\ (link[c] = "open" /\ unread[c] > 0) ~> (unread[c] = 0 \/ over)
    /\ (link[c] = "open" /\ ended[c]) ~> over
=============================================================================
