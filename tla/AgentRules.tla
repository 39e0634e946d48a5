----------------------------- MODULE AgentRules -----------------------------
(***************************************************************************)
(* One agent's spending rules (internal/economy/agent_rules.go): the       *)
(* limits per request and per day with their boosts, the amount a person   *)
(* approves, the pauses and the unusual-spend alert, and the passkey that  *)
(* signs an approval's decision.                                           *)
(*                                                                         *)
(* The rules are judged inside the movement's transaction with the agent's *)
(* row locked, so a movement is one action; what the callers do in several *)
(* statements or calls (a boost, an approval filed after the rollback, a   *)
(* decision authorised and then made) is several.  The day stands for any  *)
(* of the four periods.  Rules that compare a request with a list or an    *)
(* hour of the day only refuse, and are left out.                          *)
(***************************************************************************)
EXTENDS Integers, FiniteSets

CONSTANTS
  Questions,    \* requests charged by hold or by debit, by their fingerprint
  Payments,     \* payments and transfers, by their fingerprint
  RuleSets,     \* the rules SetAgentRules is called with
  Sizes,        \* the amounts of the movements, and of the boosts
  LastDay,      \* bound: the clock stops at this day
  Budgets,      \* bounds: calls of the owner and of the approver, questions
                \* asked, and days that pass
  MaxApprovals, \* bound: approvals filed of one fingerprint
  MaxPerDay     \* bound: payments and transfers stop at this day total

ASSUME RulesConstants ==
  /\ Questions \cap Payments = {}
  /\ RuleSets \subseteq [daily : Nat, above : Nat, pauseOn : BOOLEAN]
  /\ Sizes \subseteq Nat \ {0}
  /\ Budgets \subseteq [owner : Nat, approver : Nat, asks : Nat,
                         days : Nat]
  /\ LastDay \in Nat /\ MaxApprovals \in Nat /\ MaxPerDay \in Nat

Days == 0..LastDay
Fingerprints == Questions \cup Payments
ApprovalIDs == Fingerprints \X (1..MaxApprovals)

VARIABLES
  day,        \* the clock, in days
  rules,      \* agent_rules: the limits; 0 is no limit
  boost,      \* agent_rule_boosts of the daily limit
  boosting,   \* a BoostAgentRule call between its read and its insert
  paused,     \* agent_accounts.paused_at and agent_workspace_pauses
  alerted,    \* the days on which agent_spend_alerts has a row
  spent,      \* the postings agentSpentSince counts, net, by day
  sent,       \* the postings of transfers and escrows, by day
  question,   \* what became of each question
  approval,   \* agent_approvals: the status of each row, "none" before it
  filing,     \* refused movements whose approval is not filed yet
  passkey,    \* the workspace has registered a passkey
  challenge,  \* webauthn_challenges open for each approval
  deciding,   \* decisions authorised and not yet made
  left,       \* bound: what is left of the behaviour's budget
  passed      \* history: movements above the amount, by fingerprint

ruleVars == <<rules, boost, boosting>>
moneyVars == <<spent, sent, question>>
keyVars == <<passkey, challenge, deciding>>
approvalVars == <<approval, filing, passed, keyVars>>
rulesVars == <<day, ruleVars, paused, alerted, moneyVars, approvalVars,
               left>>

NoBoost == [from |-> 0, value |-> 0, until |-> 0]
Idle == [status |-> "none", amount |-> 0]
RulesInit ==
  /\ day = 0 /\ rules \in RuleSets
  /\ boost = NoBoost /\ boosting = NoBoost
  /\ paused = [agent |-> FALSE, all |-> FALSE]
  /\ alerted = {}
  /\ spent = [d \in Days |-> 0] /\ sent = [d \in Days |-> 0]
  /\ question = [q \in Questions |-> Idle]
  /\ approval = [i \in ApprovalIDs |-> "none"]
  /\ filing = {}
  /\ passkey = FALSE
  /\ challenge = [i \in ApprovalIDs |-> 0]
  /\ deciding = {}
  /\ left \in Budgets
  /\ passed = [f \in Fingerprints |-> 0]

-----------------------------------------------------------------------------
(* The rules in force.                                                     *)

\* applyBoosts: only while the rules leave the limit where it was.
Boosted(limit, b) ==
  IF b.until > day /\ limit = b.from /\ b.value > limit
    THEN b.value ELSE limit

DailyLimit == Boosted(rules.daily, boost)

\* periodLimits and agentSpentSince in enforceAgentRules.
WithinLimit(amount) == DailyLimit = 0 \/ spent[day] + amount <= DailyLimit

\* refuseIfPaused.
MayMove == ~paused.agent /\ ~paused.all

NeedsApproval(amount) == rules.above > 0 /\ amount > rules.above

\* The approvals of fingerprint f in one of the statuses.
Approvals(f, statuses) ==
  {i \in ApprovalIDs : i[1] = f /\ approval[i] \in statuses}

\* Mutant: the approval stays open after the request it let through.
ApprovalKept(i) == UNCHANGED approval

\* The approval is used up in the movement's transaction.
UseApproval(i) == approval' = [approval EXCEPT ![i] = "used"]

\* watchAgentSpend.  Whether the last hour reaches five times the usual rate
\* is arithmetic over hours, finer than the clock here: it may, once a day
\* and only for an agent that has spent before.
Watch ==
  \/ UNCHANGED <<alerted, paused>>
  \/ /\ \E d \in 0..(day - 1) : spent[d] > 0
     /\ day \notin alerted
     /\ alerted' = alerted \cup {day}
     /\ paused' = [paused EXCEPT !.agent = @ \/ rules.pauseOn]

\* enforceAgentRules lets a movement through.
LetThrough(f, amount) ==
  /\ MayMove
  /\ WithinLimit(amount)
  /\ IF NeedsApproval(amount)
       THEN /\ \E i \in Approvals(f, {"approved"}) : UseApproval(i)
            /\ passed' = [passed EXCEPT ![f] = @ + 1]
       ELSE UNCHANGED <<approval, passed>>
  /\ Watch

\* enforceAgentRules finds no approval: nothing of the movement is kept, and
\* the approval is filed once its transaction has rolled back.
Refused(f, amount) ==
  /\ MayMove /\ WithinLimit(amount)
  /\ NeedsApproval(amount) /\ Approvals(f, {"approved"}) = {}
  /\ filing' = filing \cup {f}
  /\ UNCHANGED <<day, ruleVars, paused, alerted, moneyVars, approval, passed,
                 keyVars, left>>

Post(n) == spent' = [spent EXCEPT ![day] = @ + n]

\* One more call of a kind, within the behaviour's bound.
Call(kind) == left[kind] > 0 /\ left' = [left EXCEPT ![kind] = @ - 1]

-----------------------------------------------------------------------------
(* Movements.                                                              *)

\* agentMovement of kind hold or spend.
StartQuestion(q, way, amount) ==
  /\ question[q] = Idle /\ Call("asks")
  /\ LetThrough(q, amount)
  /\ Post(amount)
  /\ question' = [question EXCEPT ![q] = [status |-> way, amount |-> amount]]
  /\ UNCHANGED <<day, ruleVars, sent, filing, keyVars>>

\* A hold settled at what was delivered, at most the hold, or released.
CloseHold(q, delivered) ==
  /\ question[q].status = "held" /\ delivered <= question[q].amount
  /\ Post(delivered - question[q].amount)
  /\ question' = [question EXCEPT ![q].status = "closed"]
  /\ UNCHANGED <<day, ruleVars, paused, alerted, sent, approvalVars, left>>

\* Mutant: the settle of a debit charges whatever was delivered.
AllowanceUnlimited(want) == want

\* agentAllowance: what of want beyond the estimate the limit leaves.
AgentAllowance(want) ==
  IF DailyLimit = 0 THEN want
  ELSE LET room == IF DailyLimit > spent[day] THEN DailyLimit - spent[day]
                                              ELSE 0
       IN IF want < room THEN want ELSE room

\* SettleAgentDebit: no rule but the allowance is asked, and no pause.
CloseDebit(q, delivered) ==
  LET diff == delivered - question[q].amount
  IN /\ question[q].status = "debited"
     /\ Post(IF diff > 0 THEN AgentAllowance(diff) ELSE diff)
     /\ question' = [question EXCEPT ![q].status = "closed"]
     /\ UNCHANGED <<day, ruleVars, paused, alerted, sent, approvalVars,
                    left>>

\* PayAgent, PayCompany, a card purchase: judged and counted.
PayOut(p, amount) ==
  /\ LetThrough(p, amount)
  /\ Post(amount)
  /\ UNCHANGED <<day, ruleVars, sent, question, filing, keyVars, left>>

\* SendCredits and PayIntoEscrow: judged, and posted as kinds that
\* agentSpentSince does not count.
SendOut(p, amount) ==
  /\ LetThrough(p, amount)
  /\ sent' = [sent EXCEPT ![day] = @ + amount]
  /\ UNCHANGED <<day, ruleVars, spent, question, filing, keyVars, left>>

-----------------------------------------------------------------------------
(* What the owner changes.                                                 *)

\* SetAgentRules, and RollbackAgentRules to an earlier version.
SetAgentRules(r) ==
  /\ Call("owner")
  /\ rules' = r
  /\ UNCHANGED <<day, boost, boosting, paused, alerted, moneyVars,
                 approvalVars>>

\* BoostAgentRule reads the limit it raises ...
BoostRead(value, until) ==
  /\ Call("owner")
  /\ boosting = NoBoost /\ until > day
  /\ rules.daily > 0 /\ value > rules.daily
  /\ boosting' = [from |-> rules.daily, value |-> value, until |-> until]
  /\ UNCHANGED <<day, rules, boost, paused, alerted, moneyVars, approvalVars>>

\* ... and then writes the boost, whatever the rules have become.
BoostWrite ==
  /\ boosting # NoBoost
  /\ boost' = boosting /\ boosting' = NoBoost
  /\ UNCHANGED <<day, rules, paused, alerted, moneyVars, approvalVars,
                 left>>

EndAgentBoost ==
  /\ Call("owner") /\ boost.until > day
  /\ boost' = NoBoost
  /\ UNCHANGED <<day, rules, boosting, paused, alerted, moneyVars,
                 approvalVars>>

\* PauseAgent, PauseAllAgents, ResumeAgent, ResumeAllAgents.
SetPaused(who, p) ==
  /\ Call("owner")
  /\ paused' = [paused EXCEPT ![who] = p]
  /\ UNCHANGED <<day, ruleVars, alerted, moneyVars, approvalVars>>

-----------------------------------------------------------------------------
(* Approvals.                                                              *)

\* fileApproval: unless one is open for the fingerprint already.
FileApproval(f) ==
  LET filed == Approvals(f, {"pending", "approved", "denied", "used"})
  IN /\ f \in filing
     /\ filing' = filing \ {f}
     /\ IF Approvals(f, {"pending", "approved"}) # {}
          THEN UNCHANGED approval
          ELSE /\ Cardinality(filed) < MaxApprovals
               /\ approval' = [approval EXCEPT
                                 ![<<f, Cardinality(filed) + 1>>] = "pending"]
     /\ UNCHANGED <<day, ruleVars, paused, alerted, moneyVars, passed, keyVars,
                    left>>

RegisterPasskey ==
  /\ ~passkey /\ Call("approver")
  /\ passkey' = TRUE
  /\ UNCHANGED <<day, ruleVars, paused, alerted, moneyVars, approval, filing,
                 passed, challenge, deciding>>

\* ApprovalChallenge: one more open challenge naming this approval.
ApprovalChallenge(i) ==
  /\ approval[i] = "pending"
  /\ Call("approver")
  /\ challenge' = [challenge EXCEPT ![i] = @ + 1]
  /\ UNCHANGED <<day, ruleVars, paused, alerted, moneyVars, approval, filing,
                 passed, passkey, deciding>>

\* useChallenge: an open challenge naming this approval, used once.
UseChallenge(i) ==
  challenge[i] > 0 /\ challenge' = [challenge EXCEPT ![i] = @ - 1]

\* AuthorizeApprovalDecision: at once while there is no passkey.
AuthorizeApprovalDecision(i, approve) ==
  /\ Call("approver")
  /\ approval[i] # "none" /\ <<i, approve>> \notin deciding
  /\ deciding' = deciding \cup {<<i, approve>>}
  /\ IF passkey THEN UseChallenge(i) ELSE UNCHANGED challenge
  /\ UNCHANGED <<day, ruleVars, paused, alerted, moneyVars, approval, filing,
                 passed, passkey>>

StillPending(i) == approval[i] = "pending"

\* DecideAgentApproval, a call of its own after the authorisation.
DecideAgentApproval(i, approve) ==
  /\ <<i, approve>> \in deciding
  /\ deciding' = deciding \ {<<i, approve>>}
  /\ approval' = IF StillPending(i)
                   THEN [approval EXCEPT ![i] =
                           IF approve THEN "approved" ELSE "denied"]
                   ELSE approval
  /\ UNCHANGED <<day, ruleVars, paused, alerted, moneyVars, filing, passed,
                 passkey, challenge, left>>

-----------------------------------------------------------------------------
Tick ==
  /\ day < LastDay /\ Call("days")
  /\ day' = day + 1
  /\ UNCHANGED <<ruleVars, paused, alerted, moneyVars, approvalVars>>

Spend ==
  \E q \in Questions, n \in Sizes \cup {0} :
    \/ n > 0 /\ StartQuestion(q, "held", n)
    \/ n > 0 /\ StartQuestion(q, "debited", n)
    \/ n > 0 /\ question[q] = Idle /\ left.asks > 0 /\ Refused(q, n)
    \/ CloseHold(q, n)
    \/ CloseDebit(q, n)

PayOrSend ==
  \E p \in Payments, n \in Sizes :
    \/ spent[day] + sent[day] + n <= MaxPerDay /\ PayOut(p, n)
    \/ spent[day] + sent[day] + n <= MaxPerDay /\ SendOut(p, n)
    \/ Refused(p, n)

OwnerChange ==
  \/ \E r \in RuleSets : SetAgentRules(r)
  \/ \E n \in Sizes, d \in Days : BoostRead(n, d)
  \/ BoostWrite
  \/ EndAgentBoost
  \/ \E who \in {"agent", "all"}, p \in BOOLEAN : SetPaused(who, p)

Approve ==
  \/ \E f \in Fingerprints : FileApproval(f)
  \/ RegisterPasskey
  \/ \E i \in ApprovalIDs :
       \/ ApprovalChallenge(i)
       \/ \E yes \in BOOLEAN : \/ AuthorizeApprovalDecision(i, yes)
                               \/ DecideAgentApproval(i, yes)

RulesNext == Tick \/ Spend \/ PayOrSend \/ OwnerChange \/ Approve

RulesSpec == RulesInit /\ [][RulesNext]_rulesVars

-----------------------------------------------------------------------------
(* What is checked.                                                        *)

\* Every variable holds a value of its kind.
RulesTypeOK ==
  /\ day \in Days /\ rules \in RuleSets
  /\ boost.value \in Sizes \cup {0} /\ boost.until \in Days
  /\ paused \in [agent : BOOLEAN, all : BOOLEAN]
  /\ alerted \subseteq Days
  /\ spent \in [Days -> Int] /\ sent \in [Days -> Nat]
  /\ \A q \in Questions :
       question[q].status \in {"none", "held", "debited", "closed"}
  /\ approval \in [ApprovalIDs ->
                     {"none", "pending", "approved", "denied", "used"}]
  /\ filing \subseteq Fingerprints
  /\ deciding \subseteq ApprovalIDs \X BOOLEAN
  /\ challenge \in [ApprovalIDs -> Nat]

\* Whatever raises what the limits count today (a hold, a debit, a payment,
\* or a settle above its estimate) leaves it within the daily limit in force
\* then, boosts laid over it (agent_rules.go: "concurrent requests cannot
\* together pass a daily or monthly limit").
LimitBindsSpending ==
  [][spent'[day] > spent[day] =>
       DailyLimit = 0 \/ spent'[day] <= DailyLimit]_rulesVars

\* "The approved request is then let through once": no more movements above
\* the amount pass than approvals a person has granted for the fingerprint,
\* whatever retries, denials and changes of the rules come between.
LetThroughOnce ==
  \A f \in Fingerprints :
    passed[f] <= Cardinality(Approvals(f, {"approved", "used"}))

\* The daily limit also bounds what the rules judged as spending when it went
\* to another agent or into escrow (docs/agent-transfers.md, "The sender's
\* rules judge the transfer as spending").
LimitBindsTransfers ==
  [][sent'[day] > sent[day] =>
       DailyLimit = 0 \/ spent[day] + sent'[day] <= DailyLimit]_rulesVars
=============================================================================
