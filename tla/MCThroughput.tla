---------------------------- MODULE MCThroughput ----------------------------
(* The instance of Throughput that is checked: bounds in the cfg file.     *)
EXTENDS Throughput
=============================================================================
