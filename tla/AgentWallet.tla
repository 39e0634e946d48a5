---------------------------- MODULE AgentWallet ----------------------------
(***************************************************************************)
(* The LXC wallet of one workspace, as internal/economy keeps it: the      *)
(* workspace's lxc_balances row, the lxc_ledger behind it, the agents'     *)
(* stored balances, the per-key sub-budgets and the two ways a question    *)
(* is charged: hold -> settle | release (lxc_reservations), and the        *)
(* pre-serve debit with its settle (lxc_spend_claims,                      *)
(* agent_debit_settlements).                                               *)
(*                                                                         *)
(* Every operation of the store is one database transaction that locks the *)
(* rows it changes before it reads them, so each is one action.  The       *)
(* exception is a refund of a purchase: the webhook reads the cash backing *)
(* without the row's lock and writes it later, and anything may commit in  *)
(* between.  A refused or replayed call rolls back and changes nothing: it *)
(* is a stuttering step, and the guards below are the conditions under     *)
(* which the code gets to its commit.                                      *)
(***************************************************************************)
EXTENDS Integers, CashBacking, Totals

CONSTANTS
  Agents,         \* the workspace's agent accounts, all with an owner
  Keys,           \* the scoped API keys of the workspace
  NoAgent,        \* the agent of a key attached to no agent
  AgentOf,        \* agent_account_keys: the agent each key is attached to
  Reservations,   \* the reservation ids that requests derive
  Debits,         \* the request ids of pre-serve debits
  FeeDenominator, \* 100% in basis points: 10_000 in the code
  FeeRates,       \* the platform-fee rates a workspace's plan can have
  Amounts,        \* the positive amounts callers pass
  Delivered,      \* the delivered costs a settle is called with
  DefaultCeiling, \* DefaultAgentCeilingLXC
  Ceilings,       \* the ceilings SetAgentCeiling is called with
  LineLimit,      \* the limit of the company's credit line; 0 is no line
  TopUp,          \* agent_topups: [below, to] of each agent
  Refunders,      \* webhook transactions that refund a purchase at a time
  MaxMinted       \* bound: no credit takes lifetime_minted past this

ASSUME WalletConstants ==
  /\ NoAgent \notin Agents
  /\ AgentOf \in [Keys -> Agents \cup {NoAgent}]
  /\ FeeDenominator \in Nat \ {0}
  /\ FeeRates \subseteq 0..FeeDenominator
  /\ Amounts \subseteq Nat \ {0}
  /\ Delivered \subseteq Nat
  /\ DefaultCeiling \in Nat
  /\ Ceilings \subseteq Nat
  /\ LineLimit \in Nat
  /\ TopUp \in [Agents -> [below : Nat, to : Nat]]
  /\ MaxMinted \in Nat

\* The tables are finite: their columns have totals.
ASSUME WalletRows ==
  IsFiniteSet(Agents) /\ IsFiniteSet(Reservations) /\ IsFiniteSet(Debits)

VARIABLES
  balance,      \* lxc_balances.balance
  minted,       \* lxc_balances.lifetime_minted
  wsSpent,      \* lxc_balances.lifetime_spent
  cashBacked,   \* lxc_balances.cash_backed_ulxc
  ledger,       \* lxc_ledger: the sum of the rows of each type
  royaltyBasis, \* what settles and spends reported as able to fund a royalty
                \* (royaltyBacked of a workspace that is not a test one)
  refunding,    \* each refund's transaction: the backing it read, its amount
  raced,        \* history: the part of royaltyBasis that was reported while a
                \* refund was between its read and its write
  agentBal,     \* agent_account_balances of the agent:<id> accounts
  allocated,    \* allocatedSQL: the total of those balances
  archived,     \* the agents with archived_at set
  budget,       \* agent_lxc_subbudgets: ceiling and spent of each key
  res,          \* lxc_reservations
  debit,        \* lxc_spend_claims with agent_debit_settlements
  line          \* the credit line: may it lend, and creditLineUsedSQL

moneyVars == <<balance, minted, wsSpent>>
agentVars == <<agentBal, allocated>>
refundVars == <<refunding, raced>>
vars == <<moneyVars, cashBacked, ledger, royaltyBasis, refundVars, agentVars,
          archived, budget, res, debit, line>>

-----------------------------------------------------------------------------
(* Arithmetic of the platform fee.                                         *)

\* The fee on a spend, rounded up, computed quotient and remainder apart.
PlatformFee(amount, bps) ==
  IF amount <= 0 \/ bps <= 0 THEN 0
  ELSE (amount \div FeeDenominator) * bps
       + ((amount % FeeDenominator) * bps + FeeDenominator - 1)
           \div FeeDenominator

\* Mutant: the clamp of before the fee existed, to the whole hold.
SpendWithinGross(gross, bps) == MaxOf(gross, 0)

\* The largest spend that fits in gross together with its fee.
SpendWithin(gross, bps) ==
  IF gross <= 0 THEN 0
  ELSE LET d == FeeDenominator + bps
       IN (gross \div d) * FeeDenominator
          + ((gross % d) * FeeDenominator) \div d

Gross(amount, bps) == amount + PlatformFee(amount, bps)

-----------------------------------------------------------------------------
(* Rows, and the writes the operations share.                              *)

LedgerTypes == {"purchase", "admin_grant", "credit_line_draw", "spend",
                "platform_fee", "reservation_hold", "reservation_release"}

NoReservation == [status |-> "none", key |-> NoAgent, held |-> 0,
                  bps |-> 0, settled |-> 0]

NoDebit == [status |-> "none", key |-> NoAgent, amount |-> 0, bps |-> 0,
            charge |-> 0]

NotRefunding == [at |-> "idle", cash |-> 0, amount |-> 0]

\* writeLXCBalance after a credit and a debit of the workspace's balance.
MoveBalance(credit, taken) ==
  /\ balance' = balance + credit - taken
  /\ minted' = minted + credit
  /\ wsSpent' = wsSpent + taken

\* Mutant: what comes back of a hold or a debit stays with the workspace.
AgentMovementNoRefund(k, delta) ==
  LET a == AgentOf[k]
  IN IF a = NoAgent \/ delta > 0
       THEN UNCHANGED agentVars
       ELSE /\ agentBal' = [agentBal EXCEPT ![a] = @ + delta]
            /\ allocated' = allocated + delta

\* agentMovement: delta posted to the agent of key k; a key attached to no
\* agent posts nothing.
AgentMovement(k, delta) ==
  LET a == AgentOf[k]
  IN IF a = NoAgent
       THEN UNCHANGED agentVars
       ELSE /\ agentBal' = [agentBal EXCEPT ![a] = @ + delta]
            /\ allocated' = allocated + delta

\* Mutant: a settle below the estimate gives no headroom back.
BumpSpentUpOnly(k, delta) ==
  budget' = [budget EXCEPT ![k].spent = @ + MaxOf(delta, 0)]

\* The spent_lxc of key k's sub-budget moves by delta.
BumpSpent(k, delta) == budget' = [budget EXCEPT ![k].spent = @ + delta]

\* Mutant: the workspace's own spending may use what its agents hold.
UnallocatedIsBalance(amount) == balance >= amount

\* requireUnallocated: the workspace's own money covers amount.
Unallocated(amount) == balance - allocated >= amount

\* Mutant: any headroom at all admits the whole amount.
AnyHeadroom(k, amount) == budget[k].spent < budget[k].ceiling

WithinCeiling(k, amount) == budget[k].ceiling - budget[k].spent >= amount

\* refuseIfPaused, the first of the agent's rules: an archived agent moves
\* nothing.  The other rules only refuse, which is a stuttering step.
MaySpend(a) == a \in Agents \ archived

\* drawCreditLine: what the line lends agent a for it to hold need.
Draw(a, need) ==
  LET short == need - agentBal[a]
  IN IF short > 0 /\ line.open /\ line.used + short <= LineLimit
       THEN short ELSE 0

\* What the line lends for key k to take amount.
DrawFor(k, amount) ==
  IF AgentOf[k] = NoAgent THEN 0 ELSE Draw(AgentOf[k], amount)

\* The checks of a hold or a debit of amount by key k: an agent's key is bound
\* by its agent's balance, any other by its ceiling and the workspace's own
\* money.
MayTake(k, amount) ==
  IF AgentOf[k] = NoAgent
    THEN /\ WithinCeiling(k, amount)
         /\ balance >= amount
         /\ Unallocated(amount)
    ELSE /\ MaySpend(AgentOf[k])
         /\ agentBal[AgentOf[k]] + Draw(AgentOf[k], amount) >= amount
         /\ balance + Draw(AgentOf[k], amount) >= amount

\* The writes of a hold or a debit of amount by key k, but for its own row and
\* its ledger rows.
Take(k, amount) ==
  LET draw == DrawFor(k, amount)
  IN /\ MoveBalance(draw, amount)
     /\ AgentMovement(k, draw - amount)
     /\ line' = [line EXCEPT !.used = @ + draw]
     /\ BumpSpent(k, amount)
     /\ minted + draw <= MaxMinted

-----------------------------------------------------------------------------
(* Credits and the workspace's own spending (dualtoken.go).                *)

\* CreditLXCTx (purchase) and GrantLXCTx (admin_grant).
CreditLXC(type, amount) ==
  /\ minted + amount <= MaxMinted
  /\ MoveBalance(amount, 0)
  /\ ledger' = [ledger EXCEPT ![type] = @ + amount]
  /\ cashBacked' = cashBacked + (IF AddsBacking(type) THEN amount ELSE 0)
  /\ UNCHANGED <<royaltyBasis, refundVars, agentVars, archived, budget, res,
                 debit, line>>

\* Some refund has read the backing and not yet written it.
RefundOpen == \E h \in Refunders : refunding[h].at = "read"

\* A charge reports its cash-backed part as able to fund a royalty.
EarnRoyalty(basis) ==
  /\ royaltyBasis' = royaltyBasis + basis
  /\ raced' = raced + (IF RefundOpen THEN basis ELSE 0)

\* SpendLXCMeta: a model call the workspace itself pays for.
SpendLXC(amount, bps) ==
  LET fee == PlatformFee(amount, bps)
  IN /\ balance >= amount + fee
     /\ Unallocated(amount + fee)
     /\ MoveBalance(0, amount + fee)
     /\ ledger' = [ledger EXCEPT !["spend"] = @ - amount,
                                 !["platform_fee"] = @ - fee]
     /\ cashBacked' = BackingAfter(cashBacked, balance, amount, fee)
     /\ EarnRoyalty(FromCash(cashBacked, balance, amount))
     /\ UNCHANGED <<refunding, agentVars, archived, budget, res, debit, line>>

\* ReduceCashBackedForRefund, its read: a plain SELECT of the balance row,
\* which is there once the workspace was credited.
ReadForRefund(h, amount) ==
  /\ refunding[h].at = "idle"
  /\ minted > 0
  /\ refunding' = [refunding EXCEPT ![h] = [at |-> "read", cash |-> cashBacked,
                                           amount |-> amount]]
  /\ UNCHANGED <<moneyVars, cashBacked, ledger, royaltyBasis, raced,
                 agentVars, archived, budget, res, debit, line>>

\* ... and its write, of a value computed from what was read: a refund takes
\* backing, not credit.
WriteForRefund(h) ==
  /\ refunding[h].at = "read"
  /\ cashBacked' = BackingAfterRefund(refunding[h].cash, refunding[h].amount)
  /\ refunding' = [refunding EXCEPT ![h] = NotRefunding]
  /\ UNCHANGED <<moneyVars, ledger, royaltyBasis, raced, agentVars, archived,
                 budget, res, debit, line>>

\* The webhook's transaction is rolled back before its commit.
DropRefund(h) ==
  /\ refunding[h].at = "read"
  /\ refunding' = [refunding EXCEPT ![h] = NotRefunding]
  /\ UNCHANGED <<moneyVars, cashBacked, ledger, royaltyBasis, raced,
                 agentVars, archived, budget, res, debit, line>>

-----------------------------------------------------------------------------
(* The reservation lifecycle (agent_subbudget.go).                         *)

\* Mutant: the status is not compared before a resolution.
EverHeld(r) == res[r].status # "none"

\* The status-CAS of a settle and a release, under the row's lock.
IsHeld(r) == res[r].status = "held"

\* reserveLXCForAgent: hold an estimate and its fee, once per reservation id.
ReserveLXCForAgent(k, r, estimate, bps) ==
  LET held == Gross(estimate, bps)
  IN /\ res[r].status = "none"
     /\ MayTake(k, held)
     /\ Take(k, held)
     /\ ledger' = [ledger EXCEPT !["reservation_hold"] = @ - held,
                                 !["credit_line_draw"] = @ + DrawFor(k, held)]
     /\ res' = [res EXCEPT ![r] = [status |-> "held", key |-> k,
                                   held |-> held, bps |-> bps, settled |-> 0]]
     /\ UNCHANGED <<cashBacked, royaltyBasis, refundVars, archived, debit>>

\* Mutant: the settle books the charge without its fee row.
SettleRowsNoFee(held, charge, fee) ==
  [ledger EXCEPT !["reservation_release"] = @ + held, !["spend"] = @ - charge]

\* The ledger after a settle: the hold undone, the charge and its fee booked.
SettleRows(held, charge, fee) ==
  [ledger EXCEPT !["reservation_release"] = @ + held, !["spend"] = @ - charge,
                 !["platform_fee"] = @ - fee]

\* settleLXCReservation: charge what was delivered, clamped to the hold, and
\* give the rest back.
SettleLXCReservation(r, delivered) ==
  LET k      == res[r].key
      held   == res[r].held
      charge == MinOf(delivered, SpendWithin(held, res[r].bps))
      fee    == PlatformFee(charge, res[r].bps)
      refund == held - charge - fee
  IN /\ IsHeld(r)
     /\ MoveBalance(0, -refund)
     /\ ledger' = SettleRows(held, charge, fee)
     /\ res' = [res EXCEPT ![r].status = "settled", ![r].settled = charge]
     /\ cashBacked' = BackingAfter(cashBacked, balance + held, charge, fee)
     /\ EarnRoyalty(FromCash(cashBacked, balance + held, charge))
     /\ BumpSpent(k, -refund)
     /\ AgentMovement(k, refund)
     /\ UNCHANGED <<refunding, archived, debit, line>>

\* releaseLXCReservation, called in-band or by the stranded-hold sweeper: give
\* the whole hold back.
ReleaseLXCReservation(r) ==
  LET held == res[r].held
  IN /\ IsHeld(r)
     /\ MoveBalance(0, -held)
     /\ ledger' = [ledger EXCEPT !["reservation_release"] = @ + held]
     /\ res' = [res EXCEPT ![r].status = "released"]
     /\ BumpSpent(res[r].key, -held)
     /\ AgentMovement(res[r].key, held)
     /\ UNCHANGED <<cashBacked, royaltyBasis, refundVars, archived, debit,
                    line>>

-----------------------------------------------------------------------------
(* The pre-serve debit and its settle (agent_subbudget.go,                 *)
(* agent_debit_settle.go).                                                 *)

\* spendLXCForAgent: debit an estimate and its fee, once per request id.
SpendLXCForAgent(k, d, amount, bps) ==
  LET gross == Gross(amount, bps)
  IN /\ debit[d].status = "none"
     /\ MayTake(k, gross)
     /\ Take(k, gross)
     /\ ledger' = [ledger EXCEPT !["spend"] = @ - amount,
                                 !["platform_fee"] = @ - PlatformFee(amount, bps),
                                 !["credit_line_draw"] = @ + DrawFor(k, gross)]
     /\ debit' = [debit EXCEPT ![d] = [status |-> "debited", key |-> k,
                                       amount |-> amount, bps |-> bps,
                                       charge |-> amount]]
     /\ UNCHANGED <<cashBacked, royaltyBasis, refundVars, archived, res>>

\* How much beyond the estimate the limit of key k allows: agentAllowance for
\* an agent, whose rules have already cut `want`, the ceiling for another key.
Allowance(k, want, draw) ==
  IF AgentOf[k] = NoAgent
    THEN MinOf(want, MaxOf(budget[k].ceiling - budget[k].spent, 0))
    ELSE MinOf(want, MaxOf(agentBal[AgentOf[k]] + draw, 0))

\* The workspace money a settle of key k's debit may reach.
Reach(k, draw) ==
  MaxOf(IF AgentOf[k] = NoAgent THEN balance - allocated ELSE balance + draw, 0)

\* settleAgentDebit: bring the debit to what was delivered, within `rules`,
\* what the agent's limits still allow, and write the rest off.
SettleAgentDebit(d, delivered, rules) ==
  LET k      == debit[d].key
      bps    == debit[d].bps
      taken  == Gross(debit[d].amount, bps)
      diff   == Gross(delivered, bps) - taken
      want   == IF AgentOf[k] = NoAgent THEN diff ELSE MinOf(diff, rules)
      draw   == IF want > 0 THEN DrawFor(k, want) ELSE 0
      extra  == MinOf(Allowance(k, want, draw), Reach(k, draw))
      charge == IF diff > 0 THEN MinOf(delivered, SpendWithin(taken + extra, bps))
                            ELSE delivered
      fee    == PlatformFee(charge, bps)
      more   == charge + fee - taken
      before == balance + draw - more + charge + fee
  IN /\ debit[d].status = "debited"
     /\ minted + draw <= MaxMinted
     /\ MoveBalance(draw, more)
     /\ ledger' = [ledger EXCEPT
                     !["spend"] = @ - (charge - debit[d].amount),
                     !["platform_fee"] =
                        @ - (fee - PlatformFee(debit[d].amount, bps)),
                     !["credit_line_draw"] = @ + draw]
     /\ debit' = [debit EXCEPT ![d].status = "settled", ![d].charge = charge]
     /\ cashBacked' = BackingAfter(cashBacked, before, charge, fee)
     /\ EarnRoyalty(FromCash(cashBacked, before, charge))
     /\ BumpSpent(k, more)
     /\ AgentMovement(k, draw - more)
     /\ line' = [line EXCEPT !.used = @ + draw]
     /\ UNCHANGED <<refunding, archived, res>>

-----------------------------------------------------------------------------
(* Agent accounts (agent_accounts.go, agent_payments.go, agent_lifecycle.go,
   agent_schedules.go), ceilings and the credit line.                      *)

Allocate(a, amount) ==
  /\ agentBal' = [agentBal EXCEPT ![a] = @ + amount]
  /\ allocated' = allocated + amount

\* moveAgentFunds, kind fund.
FundAgent(a, amount) ==
  /\ a \notin archived
  /\ Unallocated(amount)
  /\ Allocate(a, amount)
  /\ UNCHANGED <<moneyVars, cashBacked, ledger, royaltyBasis, refundVars,
                 archived, budget, res, debit, line>>

\* moveAgentFunds, kind withdraw: an archived agent may still be emptied.
WithdrawAgent(a, amount) ==
  /\ agentBal[a] >= amount
  /\ Allocate(a, -amount)
  /\ UNCHANGED <<moneyVars, cashBacked, ledger, royaltyBasis, refundVars,
                 archived, budget, res, debit, line>>

\* topUpAgent: bring an agent below its threshold back up to its target, with
\* as much of the workspace's own money as there is.
TopUpAgent(a) ==
  LET amount == MinOf(TopUp[a].to - agentBal[a], balance - allocated)
  IN /\ a \notin archived
     /\ agentBal[a] < TopUp[a].below
     /\ amount > 0
     /\ Allocate(a, amount)
     /\ UNCHANGED <<moneyVars, cashBacked, ledger, royaltyBasis, refundVars,
                    archived, budget, res, debit, line>>

\* payAgentTx: an agent pays another of the same workspace.
PayAgent(from, to, amount) ==
  /\ from # to
  /\ MaySpend(from)
  /\ agentBal[from] >= amount
  /\ agentBal' = [agentBal EXCEPT ![from] = @ - amount, ![to] = @ + amount]
  /\ UNCHANGED <<moneyVars, cashBacked, ledger, royaltyBasis, refundVars,
                 allocated, archived, budget, res, debit, line>>

\* ArchiveAgent: sweep the balance to the workspace.  Open holds stay, and the
\* key rows that lead a later refund back to the agent stay with them.
ArchiveAgent(a) ==
  /\ a \notin archived
  /\ Allocate(a, -agentBal[a])
  /\ archived' = archived \cup {a}
  /\ UNCHANGED <<moneyVars, cashBacked, ledger, royaltyBasis, refundVars,
                 budget, res, debit, line>>

SetAgentCeiling(k, ceiling) ==
  /\ budget[k].ceiling # ceiling
  /\ budget' = [budget EXCEPT ![k].ceiling = ceiling]
  /\ UNCHANGED <<moneyVars, cashBacked, ledger, royaltyBasis, refundVars,
                 agentVars, archived, res, debit, line>>

\* PauseCreditLine, ResumeCreditLine, a late invoice and its payment: whether
\* the line may lend.
SetCreditLineOpen(open) ==
  /\ line.open # open /\ LineLimit > 0
  /\ line' = [line EXCEPT !.open = open]
  /\ UNCHANGED <<moneyVars, cashBacked, ledger, royaltyBasis, refundVars,
                 agentVars, archived, budget, res, debit>>

\* An invoice is paid: its draws no longer count as used.
PayCreditLineInvoice(amount) ==
  /\ amount \in 1..line.used
  /\ line' = [line EXCEPT !.used = @ - amount]
  /\ UNCHANGED <<moneyVars, cashBacked, ledger, royaltyBasis, refundVars,
                 agentVars, archived, budget, res, debit>>

-----------------------------------------------------------------------------
Init ==
  /\ balance = 0 /\ minted = 0 /\ wsSpent = 0
  /\ cashBacked = 0 /\ royaltyBasis = 0 /\ raced = 0
  /\ refunding = [h \in Refunders |-> NotRefunding]
  /\ ledger = [t \in LedgerTypes |-> 0]
  /\ agentBal = [a \in Agents |-> 0] /\ allocated = 0 /\ archived = {}
  /\ budget = [k \in Keys |-> [ceiling |-> DefaultCeiling, spent |-> 0]]
  /\ res = [r \in Reservations |-> NoReservation]
  /\ debit = [d \in Debits |-> NoDebit]
  /\ line = [open |-> LineLimit > 0, used |-> 0]

Credit == \E n \in Amounts : \E t \in {"purchase", "admin_grant"} :
            CreditLXC(t, n)

OwnSpend == \E n \in Amounts, bps \in FeeRates : SpendLXC(n, bps)

Refund == \E h \in Refunders :
            \/ \E n \in Amounts : ReadForRefund(h, n)
            \/ WriteForRefund(h) \/ DropRefund(h)

Reserve == \E k \in Keys, r \in Reservations, n \in Amounts, bps \in FeeRates :
             ReserveLXCForAgent(k, r, n, bps)

Settle == \E r \in Reservations, n \in Delivered : SettleLXCReservation(r, n)

Release == \E r \in Reservations : ReleaseLXCReservation(r)

PreServeDebit ==
  \E k \in Keys, d \in Debits, n \in Amounts, bps \in FeeRates :
    SpendLXCForAgent(k, d, n, bps)

DebitSettle == \E d \in Debits, n \in Delivered :
                 \E rules \in Delivered : SettleAgentDebit(d, n, rules)

MoveFunds == \E a \in Agents, n \in Amounts :
               FundAgent(a, n) \/ WithdrawAgent(a, n)

Scheduled == \E a \in Agents : TopUpAgent(a)

Pay == \E a, b \in Agents, n \in Amounts : PayAgent(a, b, n)

Archive == \E a \in Agents : ArchiveAgent(a)

Operate ==
  \/ \E k \in Keys, c \in Ceilings : SetAgentCeiling(k, c)
  \/ \E open \in BOOLEAN : SetCreditLineOpen(open)
  \/ \E n \in Amounts : PayCreditLineInvoice(n)

Next ==
  \/ Credit \/ OwnSpend \/ Refund
  \/ Reserve \/ Settle \/ Release
  \/ PreServeDebit \/ DebitSettle
  \/ MoveFunds \/ Scheduled \/ Pay \/ Archive
  \/ Operate

Spec == Init /\ [][Next]_vars

-----------------------------------------------------------------------------
(* Properties.                                                             *)

Reservation == [status : {"none", "held", "settled", "released"},
                key : Keys \cup {NoAgent}, held : Nat, bps : 0..FeeDenominator,
                settled : Nat]

DebitRow == [status : {"none", "debited", "settled"},
             key : Keys \cup {NoAgent}, amount : Nat, bps : 0..FeeDenominator,
             charge : Nat]

RefundState == [at : {"idle", "read"}, cash : Nat, amount : Nat]

WalletTyped ==
  /\ balance \in Int /\ minted \in Nat /\ wsSpent \in Int
  /\ cashBacked \in Nat /\ royaltyBasis \in Nat
  /\ ledger \in [LedgerTypes -> Int]
  /\ agentBal \in [Agents -> Nat] /\ allocated \in Int
  /\ archived \in SUBSET Agents
  /\ budget \in [Keys -> [ceiling : Nat, spent : Int]]
  /\ res \in [Reservations -> Reservation]
  /\ debit \in [Debits -> DebitRow]
  /\ line \in [open : BOOLEAN, used : Nat]

RefundsTyped == refunding \in [Refunders -> RefundState] /\ raced \in Nat

\* The rows hold what their columns say; in particular no agent's balance, cash
\* backing or credit-line debt is ever negative.
TypeOK == WalletTyped /\ RefundsTyped

\* The workspace's balance always covers what its agents hold, so its own money
\* is never negative, though an agent's hold, debit or settle never compares
\* the two (requireUnallocated guards only the workspace's own spending).
AgentsCovered == allocated <= balance

\* The strengthening the proofs need: a reservation or a debit that exists
\* belongs to a key.
RowsKeyed ==
  /\ \A r \in Reservations : res[r].status # "none" => res[r].key \in Keys
  /\ \A d \in Debits : debit[d].status # "none" => debit[d].key \in Keys

\* The strengthening the budgets need: a row says what its question was charged,
\* which is nothing for a hold, and the estimate for a debit not yet settled.
RowsCharged ==
  /\ \A r \in Reservations : res[r].status # "settled" => res[r].settled = 0
  /\ \A d \in Debits :
       /\ debit[d].status = "none" => debit[d].charge = 0
       /\ debit[d].status = "debited" => debit[d].charge = debit[d].amount

\* What reservation r keeps out of the balance, and the total of all holds.
HeldBy(r) == IF res[r].status = "held" THEN res[r].held ELSE 0

HeldTotal == Total([r \in Reservations |-> HeldBy(r)])

\* The stored balance is the sum of the ledger rows and the difference of the
\* lifetime counters, through every hold, refund, fee and draw.
LedgerReconciles ==
  /\ balance = ledger["purchase"] + ledger["admin_grant"]
               + ledger["credit_line_draw"] + ledger["spend"]
               + ledger["platform_fee"] + ledger["reservation_hold"]
               + ledger["reservation_release"]
  /\ balance = minted - wsSpent

\* A hold is a bound and not a bill: the hold rows and the release rows of the
\* ledger net to exactly the holds still open.
HoldsNetOut ==
  ledger["reservation_hold"] + ledger["reservation_release"] + HeldTotal = 0

\* What reservation r, or debit d, has taken out of its key's budget, and how
\* much of it from the budget of key k.
ReservationTaken(r) ==
  IF res[r].status = "held" THEN res[r].held
  ELSE Gross(res[r].settled, res[r].bps)

DebitTaken(d) == Gross(debit[d].charge, debit[d].bps)

ReservationTakenFrom(k, r) ==
  IF res[r].key = k THEN ReservationTaken(r) ELSE 0

DebitTakenFrom(k, d) == IF debit[d].key = k THEN DebitTaken(d) ELSE 0

\* A key's spent_lxc is exactly what its open holds keep plus what its settled
\* questions were charged with their fees: no retry, late settle or release
\* counts a question twice or gives headroom back twice.
BudgetReconciles ==
  \A k \in Keys :
    budget[k].spent = Total([r \in Reservations |-> ReservationTakenFrom(k, r)])
                      + Total([d \in Debits |-> DebitTakenFrom(k, d)])

\* What the model keeps in `allocated` is the sum that allocatedSQL computes.
AllocatedIsTheSum == allocated = Total(agentBal)

\* Comped or lent LXC funds no royalty and no purchased LXC funds two, but for
\* the charges that commit while a refund is between its read of the backing
\* and its write: the write may bring back what they consumed, and no more.
RoyaltiesFundedByPurchases ==
  royaltyBasis + cashBacked <= ledger["purchase"] + raced

\* The strengthening it needs: the same of the backing each refund has read.
RefundsFunded ==
  \A h \in Refunders : refunding[h].at = "read" =>
    royaltyBasis + refunding[h].cash <= ledger["purchase"] + raced

\* A settled question never cost more than its hold, its platform fee included.
SettledWithinHold ==
  \A r \in Reservations :
    res[r].status = "settled" =>
      Gross(res[r].settled, res[r].bps) <= res[r].held

\* A resolved reservation and a settled debit stay as they are.
ResolvedIsFinal ==
  [][/\ \A r \in Reservations :
          res[r].status \in {"settled", "released"} => res'[r] = res[r]
     /\ \A d \in Debits :
          debit[d].status = "settled" => debit'[d] = debit[d]]_vars

\* Whatever a key attached to no agent takes -- hold, debit or a settle above
\* its estimate -- leaves it within the ceiling in force.
KeyWithinCeiling ==
  [][\A k \in Keys :
       AgentOf[k] = NoAgent /\ budget'[k].spent > budget[k].spent =>
         budget'[k].spent <= budget[k].ceiling]_vars
=============================================================================
