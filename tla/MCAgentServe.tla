---------------------------- MODULE MCAgentServe ----------------------------
(* Small instances of AgentServe for TLC: a request and its retries.       *)
EXTENDS AgentServe

CONSTANTS a1, ka, q1

MCAgentOf == [k \in Keys |-> a1]
MCTopUp == [a \in Agents |-> [below |-> 0, to |-> 0]]
MCIdOf == [t \in Attempts |-> q1]
MCKeyOf == [t \in Attempts |-> ka]
=============================================================================
