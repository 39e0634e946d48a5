---------------------------- MODULE CreditMoves ----------------------------
(***************************************************************************)
(* Credits that move between agents of different owners and workspaces     *)
(* (internal/economy: agent_transfers.go, agent_escrows.go, with the       *)
(* capability gate of wallet_capabilities.go, the freeze of                *)
(* compliance_freeze.go and the money wall of workspace/testwall.go):      *)
(* transfers, requests and give-backs, escrow with its deadline, dispute   *)
(* and decision, and the test-funded part of a balance that travels with   *)
(* the credits.                                                            *)
(*                                                                         *)
(* A transfer, a pay-in and a settlement are each one transaction that     *)
(* locks both agents and the balances before it reads them, so each is one *)
(* action.  A give-back first reads the transfer outside its transaction:  *)
(* that read is a step of its own.                                         *)
(***************************************************************************)
EXTENDS Integers, FiniteSets, Totals

CONSTANTS
  Workspaces,
  Members,        \* the agent accounts
  Worlds,         \* where each agent is and who owns it, the test workspaces, and
                  \* bounds: how many transfers, escrows and requests there
                  \* are, and changes of a gate by an owner or the operator
  Transfers,      \* the transfers, numbered in the order they are made
  Escrows,        \* the ids escrows are recorded under
  Requests,       \* the ids money requests are recorded under
  Askers,         \* the agents that ask questions meanwhile
  MoveAmounts,    \* the positive amounts callers pass
  MaxCredited     \* bound: no credit takes a side of the wall past this

ASSUME MovesConstants ==
  /\ IsFiniteSet(Members) /\ Members # {} /\ Askers \subseteq Members
  /\ IsFiniteSet(Workspaces) /\ IsFiniteSet(Escrows)
  /\ MoveAmounts \subseteq Nat \ {0}
  /\ Transfers \subseteq Nat /\ IsFiniteSet(Transfers)
  /\ MaxCredited \in Nat
  /\ \A w \in Worlds : /\ w.workspace \in [Members -> Workspaces]
                       /\ DOMAIN w.owner = Members
                       /\ w.test \subseteq Workspaces
                       /\ {w.transfers, w.escrows, w.requests, w.changes}
                            \subseteq Nat

VARIABLES
  world,     \* agent_accounts and workspaces.synthetic, which do not change
  bal,       \* lxc_balances.balance
  funded,    \* lxc_balances.test_funded_ulxc
  held,      \* the agent's open hold (lxc_reservations, status held)
  memberBal, \* agent_account_balances of the agent:<id> accounts
  retired,   \* agents with archived_at set
  frozen,    \* compliance_freezes
  cleared,   \* the AMBER capabilities have a clearance that covers everyone
  changes,   \* how many changes of retired, frozen and cleared there were
  xfer,      \* agent_transfers
  escrow,    \* agent_escrows
  due,       \* the held escrows whose release_at has come
  request,   \* agent_money_requests
  refunding, \* give-backs that have read their transfer as not given back
  inflow     \* ghost: what was credited less what was spent, test and real

ledgerVars == <<bal, funded, held, memberBal, inflow>>
rowVars == <<xfer, escrow, due, request, refunding>>
gateVars == <<world, retired, frozen, cleared, changes>>
movesVars == <<ledgerVars, rowVars, gateVars>>

-----------------------------------------------------------------------------
(* The test-funded part of a balance.                                      *)

\* The workspace agent m is of.
Home(m) == world.workspace[m]

AgentsOf(w) == {m \in Members : Home(m) = w}

HeldIn(w) == TotalOf(AgentsOf(w), held)

IsTest(w) == w \in world.test

\* testFundedULXC of a workspace with balance b and test-funded column f.
TestFundedOf(w, b, f) ==
  LET upTo == Most(b + HeldIn(w), 0)
  IN IF IsTest(w) THEN upTo ELSE Least(f, upTo)

TestFunded(w) == TestFundedOf(w, bal[w], funded[w])

\* writeLXCBalance: the test-funded column, kept within the balance and the
\* open holds.
Clamp(f, b, h) == IF f <= b THEN f ELSE Least(f, Most(b + h, 0))

-----------------------------------------------------------------------------
(* The gates a movement passes.                                            *)

\* Mutant: test money may cross to a real workspace.
AcrossTheWall(v, w) == TRUE

\* CheckMoneyWall: both workspaces are test ones or both are real.
SameSide(v, w) == IsTest(v) <=> IsTest(w)

\* The capability a movement between two agents uses: GREEN between one
\* owner's agents, AMBER between different owners.
Amber(a, b) == world.owner[a] # world.owner[b]

\* capabilityLive: may the movement take live money?
Live(a, b) == ~Amber(a, b) \/ cleared

\* spendForCapability lets workspace w spend n on a movement from a to b.
MaySpendFor(w, a, b, n) ==
  /\ Amber(a, b) => w \notin frozen
  /\ Live(a, b) \/ TestFunded(w) >= n \/ IsTest(w)

\* The test-funded column once spendForCapability has taken its part.
TakeTestFunded(w, a, b, n) ==
  IF Live(a, b) THEN funded[w] ELSE TestFunded(w) - Least(TestFunded(w), n)

\* refuseFrozenAnyClass for both sides of a transfer.
NeitherFrozen(v, w) == v \notin frozen /\ w \notin frozen

-----------------------------------------------------------------------------
(* Transfers (agent_transfers.go).                                         *)

NoTransfer == [made |-> FALSE, amount |-> 0, from |-> CHOOSE m \in Members : TRUE,
               to |-> CHOOSE m \in Members : TRUE, test |-> 0,
               refundOf |-> {}, requestOf |-> {}]

\* The checks of transferTx; `judged` transfers face the sender's rules, of
\* which a model of this level keeps that an archived agent sends nothing.
TransferAllowed(a, b, n, judged) ==
  LET v == Home(a)
      w == Home(b)
  IN /\ a # b
     /\ SameSide(v, w)
     /\ memberBal[a] >= n
     /\ judged => a \notin retired
     /\ MaySpendFor(v, a, b, n)
     /\ v # w => NeitherFrozen(v, w)

\* Mutant: credits change workspace only when they change owner.
MovesWithOwner(a, b) == Amber(a, b)

\* The LXC moves with a transfer when the agents' workspaces differ.
MovesLXC(a, b) == Home(a) # Home(b)

\* The writes of transferTx: the agents' postings, the balances when the
\* workspaces differ, the test-funded part that moved, and its row.
TransferTx(t, a, b, n, refundOf, requestOf) ==
  LET v     == Home(a)
      w     == Home(b)
      took  == TakeTestFunded(v, a, b, n)
      left  == IF MovesLXC(a, b) THEN bal[v] - n ELSE bal[v]
      out   == IF MovesLXC(a, b) THEN Clamp(took, left, HeldIn(v)) ELSE took
      moved == Most(TestFunded(v) - TestFundedOf(v, left, out), 0)
  IN /\ ~xfer[t].made /\ t <= world.transfers
     /\ \A u \in Transfers : u < t => xfer[u].made
     /\ xfer' = [xfer EXCEPT ![t] =
                   [made |-> TRUE, amount |-> n, from |-> a, to |-> b,
                    test |-> moved,
                    refundOf |-> refundOf, requestOf |-> requestOf]]
     /\ memberBal' = [memberBal EXCEPT ![a] = @ - n, ![b] = @ + n]
     /\ IF MovesLXC(a, b)
          THEN /\ bal' = [bal EXCEPT ![v] = left, ![w] = @ + n]
               /\ funded' = [funded EXCEPT
                    ![v] = out,
                    ![w] = Clamp(@, bal[w] + n, HeldIn(w)) + moved]
          ELSE /\ funded' = [funded EXCEPT ![v] = out + moved]
               /\ UNCHANGED bal
     /\ UNCHANGED <<held, inflow>>

SendCredits(t, a, b, n) ==
  /\ TransferAllowed(a, b, n, TRUE)
  /\ TransferTx(t, a, b, n, {}, {})
  /\ UNCHANGED <<escrow, due, request, refunding, gateVars>>

\* RequestCredits: a asks b for n.
RequestCredits(q, a, b, n) ==
  /\ request[q].status = "none" /\ a # b
  /\ Cardinality({p \in Requests : request[p].status # "none"}) < world.requests
  /\ SameSide(Home(a), Home(b))
  /\ request' = [request EXCEPT ![q] = [status |-> "pending", from |-> a,
                                        to |-> b, amount |-> n]]
  /\ UNCHANGED <<ledgerVars, xfer, escrow, due, refunding, gateVars>>

\* AnswerMoneyRequest: accepting makes the transfer in the same transaction.
AcceptMoneyRequest(q, t) ==
  LET r == request[q]
  IN /\ r.status = "pending"
     /\ TransferAllowed(r.to, r.from, r.amount, TRUE)
     /\ TransferTx(t, r.to, r.from, r.amount, {}, {q})
     /\ request' = [request EXCEPT ![q].status = "accepted"]
     /\ UNCHANGED <<escrow, due, refunding, gateVars>>

DeclineMoneyRequest(q) ==
  /\ request[q].status = "pending"
  /\ request' = [request EXCEPT ![q].status = "declined"]
  /\ UNCHANGED <<ledgerVars, xfer, escrow, due, refunding, gateVars>>

GivenBack(t) == {u \in Transfers : xfer[u].made /\ t \in xfer[u].refundOf}

\* RefundTransfer, first part: the transfer is read, outside any transaction,
\* as a received one that has not been given back.  Bound: two such calls at a time.
ReadRefund(t) ==
  /\ xfer[t].made /\ xfer[t].refundOf = {}
  /\ GivenBack(t) = {}
  /\ Total(refunding) < 2
  /\ refunding' = [refunding EXCEPT ![t] = @ + 1]
  /\ UNCHANGED <<ledgerVars, xfer, escrow, due, request, gateVars>>

\* Mutant: nothing refuses a second give-back of one transfer.
RefundIndexOff(t) == TRUE

\* The unique index on refund_of.
RefundIndex(t) == GivenBack(t) = {}

\* RefundTransfer, second part: the transfer back, which no rule judges.
MakeRefund(t, u) ==
  /\ refunding[t] > 0
  /\ refunding' = [refunding EXCEPT ![t] = @ - 1]
  /\ RefundIndex(t)
  /\ TransferAllowed(xfer[t].to, xfer[t].from, xfer[t].amount, FALSE)
  /\ TransferTx(u, xfer[t].to, xfer[t].from, xfer[t].amount, {t}, {})
  /\ UNCHANGED <<escrow, due, request, gateVars>>

\* The second part is refused: by the index, a gate or the balance.
RefuseRefund(t) ==
  /\ refunding[t] > 0
  /\ refunding' = [refunding EXCEPT ![t] = @ - 1]
  /\ UNCHANGED <<ledgerVars, xfer, escrow, due, request, gateVars>>

-----------------------------------------------------------------------------
(* Escrow (agent_escrows.go).                                              *)

NoEscrow == [status |-> "none", payer |-> CHOOSE m \in Members : TRUE,
             payee |-> CHOOSE m \in Members : TRUE, amount |-> 0, test |-> 0]

\* payIntoEscrowTx: the credits leave the payer's workspace and are in none.
PayIntoEscrow(e, a, b, n) ==
  LET v     == Home(a)
      out   == Clamp(TakeTestFunded(v, a, b, n), bal[v] - n, HeldIn(v))
      moved == Most(TestFunded(v) - TestFundedOf(v, bal[v] - n, out), 0)
  IN /\ escrow[e].status = "none"
     /\ Cardinality({f \in Escrows : escrow[f].status # "none"}) < world.escrows
     /\ a # b
     /\ SameSide(v, Home(b))
     /\ memberBal[a] >= n
     /\ a \notin retired
     /\ MaySpendFor(v, a, b, n)
     /\ memberBal' = [memberBal EXCEPT ![a] = @ - n]
     /\ bal' = [bal EXCEPT ![v] = @ - n]
     /\ funded' = [funded EXCEPT ![v] = out]
     /\ escrow' = [escrow EXCEPT ![e] =
                     [status |-> "held", payer |-> a, payee |-> b, amount |-> n,
                      test |-> moved]]
     /\ UNCHANGED <<held, inflow, xfer, due, request, refunding, gateVars>>

\* Mutant: what comes out of escrow is live money.
ComesOutLive(e) == 0

\* The test-funded part of an escrow: test money comes out test money.
ComesOutTest(e) == escrow[e].test

\* settleEscrowTx: the credits reach agent m of one of the two sides; an
\* archived agent is reached too (lockAgent asks only that it exists).
SettleEscrowTx(e, m, status) ==
  LET w == Home(m)
      n == escrow[e].amount
  IN /\ status = "released" => SameSide(Home(escrow[e].payer), w)
     /\ memberBal' = [memberBal EXCEPT ![m] = @ + n]
     /\ bal' = [bal EXCEPT ![w] = @ + n]
     /\ funded' = [funded EXCEPT ![w] =
                     Clamp(@, bal[w] + n, HeldIn(w)) + ComesOutTest(e)]
     /\ escrow' = [escrow EXCEPT ![e].status = status]
     /\ due' = due \ {e}
     /\ UNCHANGED <<held, inflow, xfer, request, refunding, gateVars>>

ConfirmEscrow(e) ==
  /\ escrow[e].status = "held"
  /\ SettleEscrowTx(e, escrow[e].payee, "released")

\* DisputeEscrow: only before the deadline.
DisputeEscrow(e) ==
  /\ escrow[e].status = "held" /\ e \notin due
  /\ escrow' = [escrow EXCEPT ![e].status = "disputed"]
  /\ UNCHANGED <<ledgerVars, xfer, due, request, refunding, gateVars>>

DecideEscrow(e, release) ==
  /\ escrow[e].status = "disputed"
  /\ IF release THEN SettleEscrowTx(e, escrow[e].payee, "released")
                ELSE SettleEscrowTx(e, escrow[e].payer, "returned")

\* The clock reaches the release_at of a held escrow.
DeadlineComes(e) ==
  /\ escrow[e].status = "held" /\ e \notin due
  /\ due' = due \cup {e}
  /\ UNCHANGED <<ledgerVars, xfer, escrow, request, refunding, gateVars>>

\* Mutant: the tick skips an escrow whose payee is archived.
PayeeStillThere(e) ==
  escrow[e].status = "held" /\ e \in due /\ escrow[e].payee \notin retired

\* The rows the deadline tick selects, under their lock.
DueEscrow(e) == escrow[e].status = "held" /\ e \in due

\* runEscrowDeadline: release, ...
RunEscrowDeadline(e) ==
  /\ DueEscrow(e)
  /\ SettleEscrowTx(e, escrow[e].payee, "released")

\* ... or, when the release fails in its savepoint, leave it to the operator.
FailEscrowDeadline(e) ==
  /\ DueEscrow(e)
  /\ escrow' = [escrow EXCEPT ![e].status = "disputed"]
  /\ due' = due \ {e}
  /\ UNCHANGED <<ledgerVars, xfer, request, refunding, gateVars>>

-----------------------------------------------------------------------------
(* What else moves the balances, and what the operator sets.               *)

\* A purchase credits workspace w and is handed to its agent m (CreditLXCTx,
\* then FundAgent): live, or test money (lotFunding).
BuyCredits(m, n, test) ==
  LET w == Home(m)
  IN /\ inflow[IsTest(w)] + n <= MaxCredited
     /\ bal' = [bal EXCEPT ![w] = @ + n]
     /\ memberBal' = [memberBal EXCEPT ![m] = @ + n]
     /\ funded' = [funded EXCEPT ![w] = @ + (IF test THEN n ELSE 0)]
     /\ inflow' = [inflow EXCEPT ![IsTest(w)] = @ + n]
     /\ UNCHANGED <<held, rowVars, gateVars>>

\* A question's hold takes n from the agent and from its workspace's balance;
\* it is no spend, so the test-funded column keeps what the hold covers.
HoldCredits(m, n) ==
  LET w == Home(m)
  IN /\ held[m] = 0 /\ m \notin retired
     /\ memberBal[m] >= n
     /\ held' = [held EXCEPT ![m] = n]
     /\ bal' = [bal EXCEPT ![w] = @ - n]
     /\ memberBal' = [memberBal EXCEPT ![m] = @ - n]
     /\ funded' = [funded EXCEPT ![w] = Clamp(@, bal[w] - n, HeldIn(w) + n)]
     /\ UNCHANGED <<inflow, rowVars, gateVars>>

\* Its settle charges c and gives the rest back, the reservation resolved
\* before the balance is written; c = 0 is a release.
SettleHold(m, c) ==
  LET w == Home(m)
      back == held[m] - c
  IN /\ held[m] > 0 /\ c <= held[m]
     /\ held' = [held EXCEPT ![m] = 0]
     /\ bal' = [bal EXCEPT ![w] = @ + back]
     /\ memberBal' = [memberBal EXCEPT ![m] = @ + back]
     /\ funded' = [funded EXCEPT ![w] =
                     Clamp(@, bal[w] + back, HeldIn(w) - held[m])]
     /\ inflow' = [inflow EXCEPT ![IsTest(w)] = @ - c]
     /\ UNCHANGED <<rowVars, gateVars>>

\* One more change of a gate, within the bound.
ChangeGate == changes < world.changes /\ changes' = changes + 1

\* ArchiveAgent: the balance is swept to the workspace.
RetireMember(m) ==
  /\ m \notin retired /\ ChangeGate
  /\ memberBal' = [memberBal EXCEPT ![m] = 0]
  /\ retired' = retired \cup {m}
  /\ UNCHANGED <<bal, funded, held, inflow, rowVars, world, frozen, cleared>>

\* FreezeWorkspace and UnfreezeWorkspace take the freeze lock exclusively.
SetFreeze(w) ==
  /\ ChangeGate
  /\ frozen' = IF w \in frozen THEN frozen \ {w} ELSE frozen \cup {w}
  /\ UNCHANGED <<ledgerVars, rowVars, world, retired, cleared>>

\* A clearance is recorded, or withdrawn.
SetClearance ==
  /\ ChangeGate
  /\ cleared' = ~cleared
  /\ UNCHANGED <<ledgerVars, rowVars, world, retired, frozen>>

-----------------------------------------------------------------------------
MovesInit ==
  /\ world \in Worlds
  /\ bal = [w \in Workspaces |-> 0] /\ funded = bal
  /\ memberBal = [m \in Members |-> 0] /\ held = memberBal
  /\ inflow = [side \in BOOLEAN |-> 0]
  /\ retired = {} /\ frozen = {} /\ cleared = FALSE /\ changes = 0
  /\ xfer = [t \in Transfers |-> NoTransfer]
  /\ escrow = [e \in Escrows |-> NoEscrow]
  /\ due = {}
  /\ request = [q \in Requests |-> [status |-> "none", from |-> NoTransfer.from,
                                    to |-> NoTransfer.to, amount |-> 0]]
  /\ refunding = [t \in Transfers |-> 0]

Send == \E t \in Transfers, a, b \in Members, n \in MoveAmounts :
          SendCredits(t, a, b, n)

AskAndAnswer ==
  \E q \in Requests :
    \/ \E a, b \in Members, n \in MoveAmounts : RequestCredits(q, a, b, n)
    \/ \E t \in Transfers : AcceptMoneyRequest(q, t)
    \/ DeclineMoneyRequest(q)

GiveBack ==
  \E t \in Transfers :
    \/ ReadRefund(t)
    \/ \E u \in Transfers : MakeRefund(t, u)
    \/ RefuseRefund(t)

PayIn == \E e \in Escrows, a, b \in Members, n \in MoveAmounts :
           PayIntoEscrow(e, a, b, n)

Escrowed ==
  \E e \in Escrows :
    \/ ConfirmEscrow(e) \/ DisputeEscrow(e)
    \/ \E release \in BOOLEAN : DecideEscrow(e, release)
    \/ DeadlineComes(e)

DeadlineTick ==
  \E e \in Escrows : RunEscrowDeadline(e) \/ FailEscrowDeadline(e)

Buy == \E m \in Members, n \in MoveAmounts, test \in BOOLEAN :
         BuyCredits(m, n, test)

HoldAndSettle ==
  \E m \in Askers, n \in MoveAmounts :
    HoldCredits(m, n) \/ SettleHold(m, n) \/ SettleHold(m, 0)

Govern == \/ \E m \in Members : RetireMember(m)
          \/ \E w \in Workspaces : SetFreeze(w)
          \/ SetClearance

MovesNext ==
  \/ Send \/ AskAndAnswer \/ GiveBack
  \/ PayIn \/ Escrowed \/ DeadlineTick
  \/ Buy \/ HoldAndSettle \/ Govern

MovesSpec == MovesInit /\ [][MovesNext]_movesVars

\* Time passes, and the schedules' tick runs again and again.
MovesFairness ==
  /\ \A e \in Escrows : WF_movesVars(DeadlineComes(e))
  /\ WF_movesVars(DeadlineTick)

-----------------------------------------------------------------------------
(* Properties.                                                             *)

InEscrow == {e \in Escrows : escrow[e].status \in {"held", "disputed"}}

\* Balances, agents' balances and test-funded parts are never negative, and the
\* test-funded column is never more than the balance and the open holds.
MovesTypeOK ==
  /\ \A w \in Workspaces : bal[w] >= 0 /\ funded[w] \in 0..(bal[w] + HeldIn(w))
  /\ \A m \in Members : memberBal[m] >= 0 /\ held[m] >= 0
  /\ due \subseteq Escrows /\ retired \subseteq Members
  /\ \A t \in Transfers : xfer[t].test \in 0..xfer[t].amount
  /\ \A e \in Escrows : escrow[e].test \in 0..escrow[e].amount

\* Nothing is made or lost on the way, on either side of the money wall: the
\* balances, the open holds and what is in escrow are what was credited less
\* what was spent -- through give-backs, releases, returns and ticks.
SidesConserved ==
  \A side \in BOOLEAN :
    inflow[side] =
      TotalOf({w \in Workspaces : IsTest(w) = side},
              [w \in Workspaces |-> bal[w] + HeldIn(w)])
      + TotalOf({e \in InEscrow : IsTest(Home(escrow[e].payer)) = side},
                [e \in Escrows |-> escrow[e].amount])

\* Every workspace's balance covers what its agents hold, whatever arrives from
\* or leaves for another workspace.
MembersCovered ==
  \A w \in Workspaces : TotalOf(AgentsOf(w), memberBal) <= bal[w]

TestTotal ==
  Total([w \in Workspaces |-> TestFunded(w)])
  + TotalOf(InEscrow, [e \in Escrows |-> escrow[e].test])

\* Test money stays test money and live money stays live: a step that neither
\* buys nor charges leaves the test-funded total of all workspaces and escrows
\* as it was, though each is a clamped column beside its balance.
TestMoneyTravels == [][inflow' = inflow => TestTotal' = TestTotal]_movesVars

\* A transfer is given back at most once and a request paid at most once, with
\* give-backs that read the transfer before either was made.
PaidOnce ==
  /\ \A t \in Transfers : Cardinality(GivenBack(t)) <= 1
  /\ \A q \in Requests :
       Cardinality({t \in Transfers : q \in xfer[t].requestOf})
         = IF request[q].status = "accepted" THEN 1 ELSE 0

\* An escrow does not stay held: it is confirmed, disputed, or the deadline
\* tick takes it.
EscrowLeavesHeld ==
  \A e \in Escrows : escrow[e].status = "held" ~> escrow[e].status # "held"

\* Escrows paid in or released, and transfers made, from one workspace to
\* another in this step.
CrossesNow(w) ==
  \/ \E e \in Escrows :
       /\ escrow'[e].status # escrow[e].status
       /\ \/ escrow'[e].status = "held" /\ Home(escrow'[e].payer) = w
          \/ escrow'[e].status = "released" /\ Home(escrow'[e].payee) = w
       /\ Home(escrow'[e].payer) # Home(escrow'[e].payee)
  \/ \E t \in Transfers :
       /\ xfer'[t] # xfer[t]
       /\ w \in {Home(xfer'[t].from), Home(xfer'[t].to)}
       /\ Home(xfer'[t].from) # Home(xfer'[t].to)

\* What compliance_freeze.go says of a freeze: no credits move into or out of a
\* frozen workspace from or to another one, the same owner's included.
FreezeHolds == [][\A w \in frozen : ~CrossesNow(w)]_movesVars
=============================================================================
