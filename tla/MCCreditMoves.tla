--------------------------- MODULE MCCreditMoves ---------------------------
(* Two workspaces of one owner, an escrow between their agents and one     *)
(* change of the gates, for TLC.                                           *)
EXTENDS CreditMoves, TLC

CONSTANTS m1, m2, w1, w2, o1

MCWorlds ==
  {[workspace |-> (m1 :> w1) @@ (m2 :> w2), owner |-> [m \in Members |-> o1],
    test |-> {}, transfers |-> 0, escrows |-> 1, requests |-> 0,
    changes |-> 1]}
=============================================================================
