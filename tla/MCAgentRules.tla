---------------------------- MODULE MCAgentRules ----------------------------
(* An agent with a daily limit and two calls, for TLC.                     *)
EXTENDS AgentRules

MCRuleSets == {[daily |-> 2, above |-> 0, pauseOn |-> FALSE]}

MCBudgets == {[owner |-> 0, approver |-> 0, asks |-> 2, days |-> 0]}
=============================================================================
