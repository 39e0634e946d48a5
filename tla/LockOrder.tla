----------------------------- MODULE LockOrder -----------------------------
(***************************************************************************)
(* The row locks of the money transactions, in the order the code takes    *)
(* them: "THE LOCK ORDER (B35.2)" of agent_subbudget.go and the paths that *)
(* lock two agents or two workspaces.  A transaction keeps every row until *)
(* it ends; one that needs a row another holds waits for it.  Ids are      *)
(* numbers, as rows of one table are locked in the order of their ids.     *)
(* A schedule's row is outside that order: a tick takes it before the      *)
(* agents, archiving an agent after it, and these two do meet in a circle. *)
(***************************************************************************)
EXTENDS Integers, Sequences, FiniteSets

CONSTANTS LockAgents, WorkspaceOf,   \* the agents and their workspaces
          Clients, NoneYet

ASSUME LockAssumption ==
  /\ IsFiniteSet(Clients)
  /\ LockAgents \subseteq Nat
  /\ WorkspaceOf \in [LockAgents -> Nat]

VARIABLES
  path,    \* the rows of each client's transaction, in the order it takes them
  taken    \* how many of them it holds

lockVars == <<path, taken>>

Request(a) == <<"request", a>>       \* lxc_reservations, lxc_spend_claims
SubBudget(a) == <<"key", a>>         \* agent_lxc_subbudgets
Agent(a) == <<"agent", a>>           \* lockAgent
Line(w) == <<"line", w>>             \* company_credit_lines, drawCreditLine
Balance(w) == <<"balance", w>>       \* readLXCBalance
Escrow(a) == <<"escrow", a>>
Schedule(a) == <<"schedule", a>>

Ordered(x, y) == IF x = y THEN <<x>> ELSE IF x < y THEN <<x, y>> ELSE <<y, x>>
Both(Row(_), x, y) ==
  [i \in DOMAIN Ordered(x, y) |-> Row(Ordered(x, y)[i])]

\* Mutant: the order before B35.2, the balance before the key and the agent.
SettleBalanceFirst(a) ==
  <<Request(a), Balance(WorkspaceOf[a]), SubBudget(a), Agent(a)>>

\* A hold that needs the company's credit line, and one that does not.
HoldRows(a) == <<Request(a), SubBudget(a), Agent(a), Balance(WorkspaceOf[a])>>
LentHoldRows(a) == <<Request(a), SubBudget(a), Agent(a), Line(WorkspaceOf[a]),
                     Balance(WorkspaceOf[a])>>
\* A settle or a release: lockKeyAndAgent, then the balance.
SettleRows(a) == <<Request(a), SubBudget(a), Agent(a), Balance(WorkspaceOf[a])>>
\* Funding, withdrawing, topping up, a card, a cash-out.
FundRows(a) == <<Agent(a), Balance(WorkspaceOf[a])>>
PayRows(a, b) == Both(Agent, a, b)
\* Both agents, then both balances, each in the order of the ids.
TransferRows(a, b) ==
  Both(Agent, a, b) \o Both(Balance, WorkspaceOf[a], WorkspaceOf[b])
EscrowRows(a, b) == Both(Agent, a, b) \o <<Balance(WorkspaceOf[a])>>
SettleEscrowRows(a, b) == <<Escrow(a), Agent(b), Balance(WorkspaceOf[b])>>
TickRows(a, b) == <<Schedule(a)>> \o TransferRows(a, b)
\* The agent, then the schedules it pays or is paid by.
ArchiveRows(a, b) == <<Agent(a)>> \o Both(Schedule, a, b)
OwnSpendRows(w) == <<Balance(w)>>

Paths ==
  (UNION {{HoldRows(a), LentHoldRows(a), SettleRows(a), FundRows(a),
           OwnSpendRows(WorkspaceOf[a])} : a \in LockAgents})
  \cup
  (UNION {{PayRows(p[1], p[2]), TransferRows(p[1], p[2]),
           EscrowRows(p[1], p[2]), SettleEscrowRows(p[1], p[2]),
           TickRows(p[1], p[2]), ArchiveRows(p[1], p[2])} :
          p \in {q \in LockAgents \X LockAgents : q[1] # q[2]}})

LockInit ==
  /\ path = [c \in Clients |-> NoneYet]
  /\ taken = [c \in Clients |-> 0]

Holds(c) == IF path[c] = NoneYet THEN {} ELSE {path[c][i] : i \in 1..taken[c]}
HasMore(c) == path[c] # NoneYet /\ taken[c] < Len(path[c])
Wants(c) == path[c][taken[c] + 1]
WaitsFor(c, d) == c # d /\ HasMore(c) /\ Wants(c) \in Holds(d)

Begin(c) ==
  /\ path[c] = NoneYet
  /\ \E p \in Paths : path' = [path EXCEPT ![c] = p]
  /\ UNCHANGED taken

TakeLock(c) ==
  /\ HasMore(c)
  /\ \A d \in Clients : ~ WaitsFor(c, d)
  /\ taken' = [taken EXCEPT ![c] = @ + 1]
  /\ UNCHANGED path

Commit(c) ==
  /\ path[c] # NoneYet /\ ~ HasMore(c)
  /\ path' = [path EXCEPT ![c] = NoneYet]
  /\ taken' = [taken EXCEPT ![c] = 0]

LockNext == \E c \in Clients : Begin(c) \/ TakeLock(c) \/ Commit(c)

LockSpec == LockInit /\ [][LockNext]_lockVars

-----------------------------------------------------------------------------
\* No row is held twice.
LockTypeOK ==
  \A c, d \in Clients : c # d => Holds(c) \cap Holds(d) = {}

WaitsForSchedule(c) == HasMore(c) /\ Wants(c)[1] = "schedule"

\* No transactions wait on each other in a circle, so Postgres never has one
\* to cancel, unless one of them is an archiving that waits for a schedule's
\* row: "The order makes that cycle impossible" (agent_subbudget.go).
NobodyWaitsInACircle ==
  \A S \in SUBSET {c \in Clients : ~ WaitsForSchedule(c)} :
    S # {} => \E c \in S : \A d \in S : ~ WaitsFor(c, d)
=============================================================================
