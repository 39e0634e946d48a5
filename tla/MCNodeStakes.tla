---------------------------- MODULE MCNodeStakes ----------------------------
(* One node whose workspace stakes twice, for TLC.                         *)
EXTENDS NodeStakes

MCServedBy == [r \in Receipts |-> "n1"]
=============================================================================
