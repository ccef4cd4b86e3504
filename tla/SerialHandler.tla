--------------------------- MODULE SerialHandler ---------------------------
(***************************************************************************)
(* What try_connection promises for one lifetime of every connection,      *)
(* without words, locks or workers: readiness events are collected per     *)
(* connection, the handler runs on one batch of them at a time, every      *)
(* collected event is in the next batch, and nothing happens to a          *)
(* connection after the handler has closed it.                             *)
(***************************************************************************)
CONSTANTS
  Conns,     (* the connections                                            *)
  Kinds      (* the kinds of readiness events                              *)

VARIABLES
  status,    (* "unborn", "open", "wedged" (the handler died), "closed"    *)
  pending,   (* the kinds collected for the next run of the handler        *)
  serving    (* the kinds the handler is running on, {} when it is not     *)

vars == <<status, pending, serving>>

TypeOK ==
  /\ status  \in [Conns -> {"unborn", "open", "wedged", "closed"}]
  /\ pending \in [Conns -> SUBSET Kinds]
  /\ serving \in [Conns -> SUBSET Kinds]

Init ==
  /\ status  = [c \in Conns |-> "unborn"]
  /\ pending = [c \in Conns |-> {}]
  /\ serving = [c \in Conns |-> {}]

Open(c) ==
  /\ status[c] = "unborn"
  /\ status' = [status EXCEPT ![c] = "open"]
  /\ UNCHANGED <<pending, serving>>

Post(c, K) ==
  /\ status[c] \in {"open", "wedged"}
  /\ pending' = [pending EXCEPT ![c] = @ \cup K]
  /\ UNCHANGED <<status, serving>>

Begin(c) ==
  /\ status[c] = "open" /\ serving[c] = {} /\ pending[c] # {}
  /\ serving' = [serving EXCEPT ![c] = pending[c]]
  /\ pending' = [pending EXCEPT ![c] = {}]
  /\ UNCHANGED status

(* The handler returns and the connection stays open.                      *)
Finish(c) ==
  /\ status[c] = "open" /\ serving[c] # {}
  /\ serving' = [serving EXCEPT ![c] = {}]
  /\ UNCHANGED <<status, pending>>

(* The handler closes the connection, or dies.                             *)
Close(c) ==
  /\ status[c] = "open" /\ serving[c] # {}
  /\ status'  = [status EXCEPT ![c] = "closed"]
  /\ serving' = [serving EXCEPT ![c] = {}]
  /\ pending' = [pending EXCEPT ![c] = {}]

Wedge(c) ==
  /\ status[c] = "open" /\ serving[c] # {}
  /\ status'  = [status EXCEPT ![c] = "wedged"]
  /\ serving' = [serving EXCEPT ![c] = {}]
  /\ UNCHANGED pending

Next ==
  \E c \in Conns :
    \/ Open(c) \/ Begin(c) \/ Finish(c) \/ Close(c) \/ Wedge(c)
    \/ \E K \in SUBSET Kinds : Post(c, K)

Spec == Init /\ [][Next]_vars
=============================================================================
