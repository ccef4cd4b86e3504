-------------------------- MODULE MCSharedServerLive --------------------------
(* SharedServer with bounded news: clients connect and sockets become      *)
(* ready at most MaxNews times, so that three slots, two of which can hold *)
(* a connection, are few enough states for liveness.                       *)
EXTENDS SharedServer

CONSTANT MaxNews

ASSUME NewsAssumption == MaxNews \in Nat

VARIABLE news    (* how often the environment may still act                *)

News == Connect \/ \E s \in Slot, K \in SUBSET Kinds \ {{}} : Edge(s, K)

BoundedNext ==
  \/ news > 0 /\ news' = news - 1 /\ News
  \/ UNCHANGED news /\ \E w \in Workers : Poll(w) \/ Work(w)

BoundedSpec ==
  /\ Init /\ news = MaxNews
  /\ [][BoundedNext]_<<vars, news>>
  /\ Fairness
=============================================================================
