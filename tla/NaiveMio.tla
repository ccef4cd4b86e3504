------------------------------ MODULE NaiveMio ------------------------------
(***************************************************************************)
(* The server of techempower-6/naive-mio: one thread, one event loop, a    *)
(* slab of connections, and for each connection a state machine Request -> *)
(* Response -> Closed that is driven by one-shot registrations.  A call of *)
(* ready makes one system call at most, so it is one action.               *)
(*                                                                         *)
(* As in Connection, bytes are counted in pieces: a request and a response *)
(* are two pieces each.  Any unwrap or assert that fails ends the process. *)
(***************************************************************************)
EXTENDS Naturals, Sequences

CONSTANTS
  Clients,
  Askers,      (* the clients that send HTTP requests                      *)
  Babblers,    (* the clients that send what is not HTTP; the others only  *)
               (* connect                                                  *)
  Capacity,    (* of the slab; the code has 1024                           *)
  MaxSent,     (* bound: the pieces a client sends over one connection     *)
  SendCap,     (* the pieces the socket takes before write would block     *)
  Nobody       (* the content of a vacant slab entry                       *)

ASSUME NaiveAssumption ==
  /\ Capacity \in Nat \ {0} /\ SendCap \in Nat \ {0} /\ MaxSent \in Nat
  /\ Nobody \notin Clients /\ Askers \cup Babblers \subseteq Clients
  /\ Askers \cap Babblers = {}

VARIABLES
  link,      (* link[c]: "away", "queued" (in the backlog), "open" or, when *)
             (* the server has dropped the socket, "dropped"               *)
  peer,      (* peer[c]: the client's side, "open", "finished", "reset"    *)
  sent,      (* sent[c]: pieces the client has sent                        *)
  taken,     (* taken[c]: pieces read into the connection's input          *)
  written,   (* written[c]: Output::pos, pieces of the response written    *)
  got,       (* got[c]: pieces of the response the client has received     *)
  backlog,   (* the listener's queue                                       *)
  slab,      (* slab[t]: whose connection is under token t                 *)
  state,     (* state[t]: Connection::state; a vacant entry is "closed"    *)
  armed,     (* armed[t]: what the one-shot registration waits for         *)
  batch,     (* polled and not yet handled: <<token, the socket's client>> *)
  down       (* the process has panicked                                   *)

client == <<peer, sent, got>>
vars   == <<client, link, taken, written, backlog, slab, state, armed, batch, down>>

Token    == 1 .. Capacity
LISTENER == 0

Whole == 2         (* the pieces of a request, and of a response           *)

Init ==
  /\ link    = [c \in Clients |-> "away"]
  /\ peer    = [c \in Clients |-> "open"]
  /\ sent    = [c \in Clients |-> 0]
  /\ taken   = [c \in Clients |-> 0]
  /\ written = [c \in Clients |-> 0]
  /\ got     = [c \in Clients |-> 0]
  /\ backlog = << >>
  /\ slab    = [t \in Token |-> Nobody]
  /\ state   = [t \in Token |-> "closed"]
  /\ armed   = [t \in Token |-> "nothing"]
  /\ batch   = {}
  /\ down    = FALSE

-----------------------------------------------------------------------------
(* External: the clients.                                                  *)

(* A client connects, for the first time or once more after it has read    *)
(* what the server sent over its last connection.                          *)
Connect(c) ==
  /\ \/ link[c] = "away"
     \/ link[c] = "dropped" /\ (got[c] = written[c] \/ peer[c] = "reset")
  /\ link'    = [link EXCEPT ![c] = "queued"]
  /\ backlog' = Append(backlog, c)
  /\ peer'    = [peer EXCEPT ![c] = "open"]
  /\ sent'    = [sent EXCEPT ![c] = 0]
  /\ got'     = [got EXCEPT ![c] = 0]
  /\ taken'   = [taken EXCEPT ![c] = 0]
  /\ written' = [written EXCEPT ![c] = 0]
  /\ UNCHANGED <<slab, state, armed, batch, down>>

Connected(c) == link[c] \in {"queued", "open"}

Send(c) ==
  /\ c \in Askers \cup Babblers /\ Connected(c) /\ peer[c] = "open" /\ sent[c] < MaxSent
  /\ sent' = [sent EXCEPT ![c] = @ + 1]
  /\ UNCHANGED <<peer, got, link, taken, written, backlog, slab, state,
                 armed, batch, down>>

Receive(c) ==
  /\ peer[c] # "reset" /\ got[c] < written[c]
  /\ got' = [got EXCEPT ![c] = @ + 1]
  /\ UNCHANGED <<peer, sent, link, taken, written, backlog, slab, state,
                 armed, batch, down>>

End(c) ==
  /\ c \in Askers \cup Babblers /\ Connected(c) /\ peer[c] = "open"
  /\ \E how \in {"finished", "reset"} : peer' = [peer EXCEPT ![c] = how]
  /\ UNCHANGED <<sent, got, link, taken, written, backlog, slab, state,
                 armed, batch, down>>

-----------------------------------------------------------------------------
(* External: the poll.  A one-shot registration that is renewed reports at *)
(* once if the socket is ready, and then nothing until it is renewed again *)
(* (EPOLLET | EPOLLONESHOT); the listener is registered for its level.     *)

SocketReady(t) ==
  LET c == slab[t] IN
  \/ armed[t] # "nothing" /\ peer[c] = "reset"
  \/ armed[t] = "readable" /\ (sent[c] > taken[c] \/ peer[c] = "finished")
  \/ armed[t] = "writable" /\ written[c] - got[c] < SendCap

(* The loop polls when it has handled every event; it may be woken for a   *)
(* socket that is not ready, as well.                                      *)
Poll ==
  /\ ~down /\ batch = {}
  /\ \E T \in SUBSET {t \in Token : armed[t] # "nothing"} :
       /\ {t \in Token : SocketReady(t)} \subseteq T
       /\ batch' = {<<t, slab[t]>> : t \in T}
                     \cup (IF backlog = << >> THEN {} ELSE {<<LISTENER, Nobody>>})
       /\ batch' # {}
       /\ armed' = [t \in Token |-> IF t \in T THEN "nothing" ELSE armed[t]]
  /\ UNCHANGED <<client, link, taken, written, backlog, slab, state, down>>

-----------------------------------------------------------------------------
(* Server::ready for the listener.                                         *)

(* Mutant of Vacant: the entry is not checked.                             *)
VacantUnchecked == Token

(* The entries insert_with may take.                                       *)
Vacant == {t \in Token : slab[t] = Nobody}

(* One socket is accepted per event, inserted and registered; a full slab  *)
(* fails the unwrap.                                                       *)
Accept ==
  LET c == Head(backlog) IN
  /\ ~down /\ <<LISTENER, Nobody>> \in batch
  /\ batch'   = batch \ {<<LISTENER, Nobody>>}
  /\ backlog' = Tail(backlog)
  /\ \/ \E t \in Vacant :
          /\ slab'  = [slab EXCEPT ![t] = c]
          /\ state' = [state EXCEPT ![t] = "request"]
          /\ armed' = [armed EXCEPT ![t] = "readable"]
          /\ link'  = [link EXCEPT ![c] = "open"]
          /\ UNCHANGED down
     \/ Vacant = {} /\ down' = TRUE /\ UNCHANGED <<slab, state, armed, link>>
  /\ UNCHANGED <<client, taken, written>>

-----------------------------------------------------------------------------
(* Server::ready for a connection: Connection::ready, then the removal of  *)
(* a closed connection from the slab.                                      *)

Event(t) == ~down /\ \E c \in Clients : <<t, c>> \in batch

Handled(t) == batch' = {e \in batch : e[1] # t}

(* Mutant of Interest: the first registration is never renewed.            *)
InterestOnce(st) == IF st = "response" THEN "writable" ELSE "nothing"

(* reregister, for the state the connection has now.                       *)
Interest(st) == CASE st = "request"  -> "readable"
                  [] st = "response" -> "writable"
                  [] OTHER           -> "nothing"

(* The connection goes to state st, and is removed if that is Closed.      *)
GoOn(t, st) ==
  /\ state' = [state EXCEPT ![t] = st]
  /\ armed' = [armed EXCEPT ![t] = Interest(st)]
  /\ IF st = "closed"
       THEN /\ slab' = [slab EXCEPT ![t] = Nobody]
            /\ link' = [link EXCEPT ![slab[t]] = "dropped"]
       ELSE UNCHANGED <<slab, link>>

Dies(t) == down' = TRUE /\ UNCHANGED <<state, armed, slab, link>>

(* try_read_buf: None, a spurious notification.                            *)
ReadSpurious(t) ==
  LET c == slab[t] IN
  /\ Event(t) /\ state[t] = "request"
  /\ sent[c] = taken[c] /\ peer[c] = "open"
  /\ Handled(t) /\ GoOn(t, "request")
  /\ UNCHANGED <<client, taken, written, backlog, down>>

(* Mutant of ReadEof: the state stays Request.                             *)
ReadEofStays(t) ==
  LET c == slab[t] IN
  /\ Event(t) /\ state[t] = "request"
  /\ sent[c] = taken[c] /\ peer[c] = "finished"
  /\ Handled(t) /\ GoOn(t, "request")
  /\ UNCHANGED <<client, taken, written, backlog, down>>

(* Some(0): "move forward in case of unexpected eof".                      *)
ReadEof(t) ==
  LET c == slab[t] IN
  /\ Event(t) /\ state[t] = "request"
  /\ sent[c] = taken[c] /\ peer[c] = "finished"
  /\ Handled(t) /\ GoOn(t, "response")
  /\ UNCHANGED <<client, taken, written, backlog, down>>

(* Mutant of Parse: the start of a request counts as one.                  *)
ParseStart(c, n) == CASE c \notin Askers          -> "none"
                      [] c \in Askers /\ n <= Whole -> "request"
                      [] c \in Askers /\ n > Whole  -> "panic"

(* parse of an input of n pieces: a request, or none (yet), or the failure *)
(* of the assertion that nothing follows the request.                      *)
Parse(c, n) == CASE c \notin Askers \/ n < Whole -> "none"
                 [] c \in Askers /\ n = Whole     -> "request"
                 [] c \in Askers /\ n > Whole     -> "panic"

(* Some(n), as much as the input has room for.                             *)
ReadSome(t) ==
  LET c == slab[t] IN
  /\ Event(t) /\ state[t] = "request"
  /\ sent[c] > taken[c] /\ peer[c] # "reset"
  /\ \E n \in 1 .. sent[c] - taken[c] :
       LET parsed == Parse(c, taken[c] + n) IN
       /\ taken' = [taken EXCEPT ![c] = @ + n]
       /\ IF parsed = "panic"
            THEN Dies(t)
            ELSE /\ GoOn(t, IF parsed = "request" THEN "response" ELSE "request")
                 /\ UNCHANGED down
  /\ Handled(t)
  /\ UNCHANGED <<client, written, backlog>>

(* try_write: None, the socket takes nothing.                              *)
WriteSpurious(t) ==
  LET c == slab[t] IN
  /\ Event(t) /\ state[t] = "response"
  /\ written[c] - got[c] = SendCap /\ peer[c] # "reset"
  /\ Handled(t) /\ GoOn(t, "response")
  /\ UNCHANGED <<client, taken, written, backlog, down>>

(* Mutant of WriteSome: a write is taken to be complete.                   *)
WriteSomeIsAll(t) ==
  LET c == slab[t] IN
  /\ Event(t) /\ state[t] = "response" /\ peer[c] # "reset"
  /\ \E n \in 1 .. Whole - written[c] :
       /\ written[c] + n - got[c] <= SendCap
       /\ written' = [written EXCEPT ![c] = @ + n]
  /\ Handled(t) /\ GoOn(t, "closed")
  /\ UNCHANGED <<client, taken, backlog, down>>

(* Some(n): the connection is closed when that was the rest.               *)
WriteSome(t) ==
  LET c == slab[t] IN
  /\ Event(t) /\ state[t] = "response" /\ peer[c] # "reset"
  /\ \E n \in 1 .. Whole - written[c] :
       /\ written[c] + n - got[c] <= SendCap
       /\ written' = [written EXCEPT ![c] = @ + n]
  /\ Handled(t)
  /\ GoOn(t, IF written'[c] = Whole THEN "closed" ELSE "response")
  /\ UNCHANGED <<client, taken, backlog, down>>

(* The socket's error fails the unwrap of read or write.                   *)
SocketFails(t) ==
  /\ Event(t) /\ peer[slab[t]] = "reset"
  /\ Handled(t) /\ Dies(t)
  /\ UNCHANGED <<client, taken, written, backlog>>

Ready(t) == \/ ReadSpurious(t) \/ ReadEof(t) \/ ReadSome(t)
            \/ WriteSpurious(t) \/ WriteSome(t) \/ SocketFails(t)

Server == Poll \/ Accept \/ \E t \in Token : Ready(t)

Next == \/ Server
        \/ \E c \in Clients : Connect(c) \/ Send(c) \/ Receive(c) \/ End(c)

Spec == Init /\ [][Next]_vars

(* The one thread of the server runs; a client reads what it is sent, and  *)
(* owes nothing else.                                                      *)
FairSpec == Spec /\ WF_vars(Server) /\ \A c \in Clients : WF_vars(Receive(c))

-----------------------------------------------------------------------------

TypeOK ==
  /\ link \in [Clients -> {"away", "queued", "open", "dropped"}]
  /\ peer \in [Clients -> {"open", "finished", "reset"}]
  /\ sent \in [Clients -> 0 .. MaxSent] /\ taken \in [Clients -> Nat]
  /\ written \in [Clients -> 0 .. Whole] /\ got \in [Clients -> Nat]
  /\ backlog \in Seq(Clients)
  /\ slab \in [Token -> Clients \cup {Nobody}]
  /\ state \in [Token -> {"request", "response", "closed"}]
  /\ armed \in [Token -> {"nothing", "readable", "writable"}]
  /\ batch \subseteq (Token \X Clients) \cup {<<LISTENER, Nobody>>}
  /\ down \in BOOLEAN
  /\ \A c \in Clients : taken[c] <= sent[c] /\ got[c] <= written[c]

(* While the server is up, every accepted connection is under one token,   *)
(* and either its registration waits for what its state needs or exactly   *)
(* one event of its own is still to be handled: one-shot registrations are *)
(* always renewed, and an event never reaches a token that was vacated or  *)
(* given to another connection within the same batch.                      *)
EveryConnectionIsWatched ==
  ~down =>
    /\ \A c \in Clients :
         link[c] = "open" => \E t \in Token : slab[t] = c /\ \A u \in Token \ {t} : slab[u] # c
    /\ \A t \in Token :
         IF slab[t] = Nobody
           THEN armed[t] = "nothing" /\ ~\E e \in batch : e[1] = t
           ELSE LET own == {e \in batch : e[1] = t} IN
                \/ own = {} /\ armed[t] # "nothing" /\ armed[t] = Interest(state[t])
                \/ own = {<<t, slab[t]>>} /\ armed[t] = "nothing"

(* A connection is dropped only when the whole response was written, and   *)
(* it was written for one whole request or at the client's end of stream.  *)
DroppedWhenAnswered ==
  [][\A c \in Clients : link[c] = "open" /\ link'[c] = "dropped" =>
       /\ written'[c] = Whole
       /\ (c \in Askers /\ taken[c] = Whole) \/ peer[c] = "finished"]_vars

(* The inductive invariant: nobody is queued twice, or queued and in the   *)
(* slab, and the listener's event finds somebody to accept; a connection   *)
(* is in state Response for one of the reasons why it may be dropped.      *)
Queue ==
  /\ \A i, j \in 1 .. Len(backlog) :
       link[backlog[i]] = "queued" /\ (backlog[i] = backlog[j] => i = j)
  /\ <<LISTENER, Nobody>> \in batch => backlog # << >>

Entries == \A t \in Token : slab[t] # Nobody => link[slab[t]] = "open"

Responding ==
  \A t \in Token :
    LET c == slab[t] IN
    c # Nobody /\ state[t] = "response" =>
      (c \in Askers /\ taken[c] = Whole) \/ peer[c] = "finished"

IInv == TypeOK /\ Queue /\ Entries /\ Responding /\ EveryConnectionIsWatched

(* A client that has sent one whole request and stays gets its response,   *)
(* whatever the other clients do short of bringing the server down.        *)
RequestIsAnswered ==
  \A c \in Clients :
    (Connected(c) /\ c \in Askers /\ sent[c] >= Whole)
      ~> (got[c] = Whole \/ peer[c] = "reset" \/ down)

(* The connection of a client that has ended its side is dropped, also     *)
(* when what it sent was no request.                                       *)
FinishedIsDropped ==
  \A c \in Clients :
    (Connected(c) /\ peer[c] = "finished") ~> (link[c] = "dropped" \/ down)
=============================================================================
