------------------------------ MODULE MCAgents ------------------------------
(* What agents do with their credits besides asking questions: the         *)
(* components share no rows but the ledger's, whose part each has in its   *)
(* own module, so a behaviour runs one of them.                            *)
EXTENDS CreditMoves, AgentRules, AgentPots, AgentCredential, AgentCards,
        CashOuts, AgentSchedules, TLC

CONSTANTS m1, m2, w1, w2, o1, o2

VARIABLE focus  \* the component that runs

agentsVars == <<movesVars, rulesVars, potVars, credentialVars, cardVars,
                cashVars, scheduleVars, focus>>

Focuses == {"moves", "rules", "pots", "credential", "cards", "cash",
            "schedules"}

Runs(part) == focus = part

-----------------------------------------------------------------------------
World(w, p, test, transfers, escrows, requests, turns) ==
  [workspace |-> (m1 :> w1) @@ (m2 :> w), owner |-> (m1 :> o1) @@ (m2 :> p),
   test |-> test, transfers |-> transfers, escrows |-> escrows,
   requests |-> requests, changes |-> turns]

\* One owner or two, one workspace or two, real, test and one of each; a
\* transfer with its give-backs, a request, an escrow.
MCWorlds ==
  {World(w2, o2, {}, 3, 0, 0, 0), World(w2, o1, {}, 1, 0, 0, 1),
   World(w2, o2, {}, 1, 0, 1, 0), World(w1, o2, {}, 1, 1, 0, 0),
   World(w2, o2, {}, 0, 1, 0, 2), World(w2, o1, {}, 0, 1, 0, 1),
   World(w2, o1, {w2}, 1, 1, 1, 1), World(w2, o2, {w1, w2}, 1, 1, 0, 0)}

\* A limit with an approval amount; a lower one that pauses on alerts.
MCRuleSets == {[daily |-> 2, above |-> 1, pauseOn |-> FALSE],
               [daily |-> 1, above |-> 0, pauseOn |-> TRUE]}

Budget(owner, approver, asks, days) ==
  [owner |-> owner, approver |-> approver, asks |-> asks, days |-> days]

\* A person approves; the owner changes the rules over days or a question; a
\* question is settled the day after.
MCBudgets == {Budget(0, 3, 0, 1), Budget(2, 0, 0, 1), Budget(2, 0, 1, 0),
              Budget(0, 0, 1, 1)}

MCAsks == ("a1" :> 3) @@ ("a2" :> 2)

\* A capture within the hold, one above it, a reversal, a close, a refund.
MCCardEvents ==
  {[id |-> 1, kind |-> "capture", minor |-> 2],
   [id |-> 2, kind |-> "capture", minor |-> 4],
   [id |-> 3, kind |-> "pending", minor |-> 1],
   [id |-> 4, kind |-> "closed", minor |-> 0],
   [id |-> 5, kind |-> "refund", minor |-> 3]}

-----------------------------------------------------------------------------
\* A component that does not run is at one of its first states.
AgentsInit ==
  /\ focus \in Focuses
  /\ MovesInit /\ (~Runs("moves") => world = CHOOSE w \in Worlds : TRUE)
  /\ RulesInit /\ (~Runs("rules") => /\ rules = CHOOSE r \in RuleSets : TRUE
                                     /\ left = CHOOSE b \in Budgets : TRUE)
  /\ PotInit
  /\ CredentialInit
       /\ (~Runs("credential") => limit = CHOOSE n \in Limits : TRUE)
  /\ CardInit /\ (~Runs("cards") => ~cardFrozen)
  /\ CashInit /\ SchedulesInit

AgentsNext ==
  \/ /\ Runs("moves") /\ MovesNext
     /\ UNCHANGED <<rulesVars, potVars, credentialVars, cardVars,
                    cashVars, scheduleVars, focus>>
  \/ /\ Runs("rules") /\ RulesNext
     /\ UNCHANGED <<movesVars, potVars, credentialVars, cardVars,
                    cashVars, scheduleVars, focus>>
  \/ /\ Runs("pots") /\ PotNext
     /\ UNCHANGED <<movesVars, rulesVars, credentialVars, cardVars,
                    cashVars, scheduleVars, focus>>
  \/ /\ Runs("credential") /\ CredentialNext
     /\ UNCHANGED <<movesVars, rulesVars, potVars, cardVars,
                    cashVars, scheduleVars, focus>>
  \/ /\ Runs("cards") /\ CardNext
     /\ UNCHANGED <<movesVars, rulesVars, potVars, credentialVars,
                    cashVars, scheduleVars, focus>>
  \/ /\ Runs("cash") /\ CashNext
     /\ UNCHANGED <<movesVars, rulesVars, potVars, credentialVars,
                    cardVars, scheduleVars, focus>>
  \/ /\ Runs("schedules") /\ SchedulesNext
     /\ UNCHANGED <<movesVars, rulesVars, potVars, credentialVars,
                    cardVars, cashVars, focus>>

\* A component at its first state has no fair action to take, so the fairness
\* of those that do not run asks nothing.
AgentsSpec ==
  /\ AgentsInit /\ [][AgentsNext]_agentsVars
  /\ MovesFairness /\ CashFairness /\ SchedulesFairness
=============================================================================
