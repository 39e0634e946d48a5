--------------------------- MODULE MCAgentWallet ---------------------------
(* Small instances of AgentWallet for TLC.                                 *)
EXTENDS WalletPurse, TLC

CONSTANTS a1, a2, ka, kb, kw

\* ka and kb are the keys of agents a1 and a2; kw is attached to no agent.
MCAgentOf == [k \in Keys |-> CASE k = ka -> a1 [] k = kb -> a2
                               [] OTHER -> NoAgent]

MCTopUp == [a \in Agents |-> [below |-> 1, to |-> 2]]

\* Two reservations are alike until a request takes them.
ReservationSymmetry == Permutations(Reservations)
=============================================================================
