# The economy of Talyvor Lens, specified and checked

Talyvor Lens is a gateway between applications and language models. It serves a
request from a cache, a pool or an upstream model and charges the workspace for
it in LXC, a prepaid credit. Around that stands an economy: purchases through
Stripe, agents with accounts, rules, cards, pots and cash-outs of their own,
transfers and escrows between companies, a credit line, royalties, and the
collateral of the nodes that serve. This directory holds TLA+ specifications of
the parts of it where money moves or servers coordinate, the TLC configurations
that check them on small instances, and TLAPS proofs of every safety property
those runs check, for instances of any size.

    tlc -workers 2 -config wallet_holds.cfg MCAgentWallet
    tlapm AgentWalletProofs.tla

## 1. The system

The server is one Go process (`cmd/lens`) over PostgreSQL, optionally with Redis
and with several replicas. All durable state is in PostgreSQL tables; the money
paths are database transactions with row locks (`SELECT ... FOR UPDATE`).

| Component | State | Operations | Meets | What is hard, and what must hold |
|---|---|---|---|---|
| LXC wallet (`economy/dualtoken.go`, `cash_backed.go`, `platform_fee.go`) | `lxc_balances`, append-only `lxc_ledger` | credit, grant, spend, refund of backing | everything below | the stored balance is the sum of the ledger; backing funds a royalty once, a refund's unlocked write apart |
| Agent sub-budgets (`economy/agent_subbudget.go`, `agent_debit_settle.go`) | `agent_lxc_subbudgets`, `lxc_reservations`, `lxc_spend_claims`, `agent_debit_settlements` | hold, settle, release, sweep; debit and its settle; ceiling | proxy, wallet, agent accounts | settle, release and sweeper race; retries; rounding of the fee; a question is counted once |
| Agent accounts (`economy/agent_accounts.go`, `agent_payments.go`, `agent_lifecycle.go`) | `agent_account_balances`, postings, `archived_at` | fund, withdraw, pay, archive | wallet, rules, credit line | a workspace and its agents never spend the same LXC; archive with holds open |
| Agent charging in the proxy (`proxy/agent_allocator.go`) | nothing durable of its own | admit, settle, release | sub-budgets | crash between hold and settle; a retry beside the first attempt |
| LXC purchases (`billing/billing.go`) | `lxc_purchases`, `billing_refunds` | Stripe webhook | wallet | events repeated, reordered, concurrent; crash before the answer |
| Credit line, schedules (`economy/credit_line.go`, `agent_schedules.go`) | draws, invoices, schedules and their runs | draw, pay, pause; tick, skip, cancel, top up | agents' spending, outside payments | lending in the middle of a hold; a tick two servers run, or one loses after the money left |
| Rules, approvals, boosts, alerts (`economy/agent_rules.go`, `agent_rule_boosts.go`, `agent_alerts.go`, `agent_approval_auth.go`) | rules, approvals, boosts, pauses, passkeys | judge, file, decide, boost, pause | every agent movement | limits summed over periods; an approval filed after a rollback and used once |
| Transfers, requests, escrow (`economy/agent_transfers.go`, `agent_escrows.go`, `wallet_capabilities.go`, `compliance_freeze.go`) | transfers, requests, escrows, clearances, freezes | send, ask, answer, give back; pay in, confirm, dispute, decide, tick | two workspaces | nothing made or lost; test money stays test money; deadline against dispute; freezes |
| Pots, credentials, cards, cash-outs (`economy/agent_pots.go`, `agent_kya.go`, `agent_cards.go`, `agent_card_settlements.go`, `agent_cash_outs.go`) | their tables | lock, move; issue, revoke; authorise, settle; request, submit, settle | agents, rules, partners | retried moves; facts read before a change commits; events in any order; a partner that answers late or never |
| Outside payments (`economy/money_payments.go`, `partners`) | `money_payments`, money ledger | pay, refresh | partners, freezes | the partner is called with no transaction open; old answers applied last |
| Node stakes, challenges (`povi/stakes.go`, `challenge.go`) | `povi_stakes`, `povi_challenges`, locked LENS | stake, unbond, release, slash | mining ledger | a record written over another; two servers, one receipt |
| Royalties (`poolroyalty`, `mining/held_ledger.go`) | `pool_royalty_mints`, held LENS | mint, clear, revoke, settle | identity graph, leaders | two sweepers and a revoker read lists and write rows later |
| High availability, control plane (`ha`, `controlplane`) | Redis keys, `inference_nodes`, routes | elect, heartbeat, evict, publish, sync | all background jobs | two leaders; a dead leader's key; an old snapshot |
| Gateway, marketplace, subscriptions, loans, payouts, rooms, API, configuration, reports | | | | not modelled (section 6) |

`PROJECT.json` lists every component with its status, and every hazard met so
far at its line with the properties that would notice it.

## 2. The modules

| Module | Models | Composed by |
|---|---|---|
| `CashBacking` | which part of a spend was bought | `AgentWallet`, `TopUps` |
| `AgentWallet` | the wallet of one workspace | `AgentServe`, `WalletPurse` |
| `Purse`, `WalletPurse` | what the wallet promises, and the mapping | `MCAgentWallet` |
| `AgentServe` | the proxy's charging of a request and its retries | `MCAgentServe` |
| `CreditMoves`, `AgentRules`, `AgentPots`, `AgentCredential`, `AgentCards`, `CashOuts`, `AgentSchedules` | what agents do beside asking questions | `MCAgents` |
| `TopUps`, `OutsidePayments`, `NodeStakes`, `HeldMints`, `LeaderElection`, `ControlPlane`, `LockOrder` | Stripe, partners, nodes, sweepers, leaders, routers, row locks | `MCServices` |
| `Totals` | SUM over a table's rows, without recursion | the modules that add up rows |
| `TotalsProofs` | facts about totals | the proof modules |
| `AgentWalletProofs`, `WalletBooksProofs`, `WalletPurseProofs`, `ServeProofs` | theorems about the wallet, its books, its promise and serving | |
| `MovesProofs`, `AgentsProofs`, `ServicesProofs` | theorems about `CreditMoves` and `AgentCards`; the other modules of `MCAgents`; those of `MCServices` | |

### `CashBacking`: which part of a spend was bought

Four operators for `cash_backed.go`. A spend uses the credit that cost nothing
first, so the part of `amount` that comes from cash is
`min(cash, max(0, amount - max(0, balance - cash)))` (`FromCash`); a settle
consumes for the charge and then for the fee (`BackingAfter`); only a purchase
adds backing (`AddsBacking`); a refund takes it away, down to zero.

### `Totals`: sums over rows

`SUM(column)` over a table, `Total(f)`: a row of value n stands for n units, and
the total is the number of all units. That is the ordinary sum on finite tables
of naturals, defined through cardinality instead of recursion, so that the
theorems about finite sets give the theorems about sums (`TotalsProofs`).
`TotalOf` sums the rows a WHERE clause picks, `NetTotal` a column that may be
negative.

### `AgentWallet`: the wallet of one workspace

| Variable | Table or expression |
|---|---|
| `balance`, `minted`, `wsSpent`, `cashBacked` | the workspace's `lxc_balances` row |
| `ledger` | `lxc_ledger`, as the sum of its rows of each type |
| `royaltyBasis` | the cash-backed amounts that spends and settles returned |
| `refunding` | what each refund's transaction has read and has to write |
| `raced` | history: the part of `royaltyBasis` reported while a refund was between its read and its write |
| `agentBal`, `allocated` | `agent_account_balances`; their total (`allocatedSQL`) |
| `archived` | agents with `archived_at` |
| `budget` | `agent_lxc_subbudgets` |
| `res`, `debit` | `lxc_reservations`; `lxc_spend_claims` with `agent_debit_settlements` |
| `line` | may the credit line lend, and `creditLineUsedSQL` |

Each operation of the store is one transaction that locks the rows it reads
before it writes them (request row, key and agent, balance), so each is one
action: `ReserveLXCForAgent`, `SettleLXCReservation`, `ReleaseLXCReservation`
(in-band or swept), `SpendLXCForAgent`, `SettleAgentDebit`, `CreditLXC`,
`SpendLXC`, `FundAgent`, `WithdrawAgent`, `TopUpAgent`, `PayAgent`,
`ArchiveAgent`, `SetAgentCeiling`, `SetCreditLineOpen`, `PayCreditLineInvoice`.
The exception is `ReduceCashBackedForRefund`, which reads the backing without
the balance row's lock and writes a value computed from that later:
`ReadForRefund`, then `WriteForRefund`, or `DropRefund` when the webhook's
transaction is rolled back. Any number of refunds (`Refunders`) may be between
the two. A refused or a replayed call rolls back: a stuttering step. A
credit-line draw is part of the hold, debit or settle that needs it, as in
`agentMovementFee`.

What is abstracted: an agent's rules can only refuse a movement, or cut what a
debit's settle may add (`rules` of `SettleAgentDebit`, any amount); the refusal
of an archived agent is a guard. Keys stay attached to their agents. The
workspace is a real one (`royaltyBacked` returns zero for synthetic ones). The
fee rate is any of `FeeRates` at each hold, and the row keeps it, so a plan may
change between a hold and its settle. `line.open` stands for pauses and late
invoices, and invoices for an amount of what is used.
A refund here takes any of `Amounts`, at any time after the first credit; which
refunds Stripe reports, and how often, is in `TopUps`. Transfers, escrows and
pots, which lower the balance and not the backing, are in modules of their own;
no property here relates the backing to the balance.

### `TopUps`: buying LXC, and refunds

The payments of one workspace. A payment has a `checkout.session.completed`
event, an `async_payment_succeeded` event, or both; every refund has a
`charge.refunded` event with the running total. Stripe delivers an event any
number of times, in any order, to any of `Handlers`. A handler is one
READ COMMITTED transaction without locks on what it reads, so it is split at
each read whose result is used later: `ReceiveCredit` (reads `billing_refunds`),
`CommitCredit` (claim, credit, commit); `ReceiveRefund`, `MarkRefund` (takes the
`billing_refunds` row, finds the purchases to mark), `ReadBacking`,
`CommitRefund`. `Fail` is a database error or a crash before the commit, with no
answer; `RefundError` is the one error that the data itself causes. Charges are
in USD, and `Anomalous` are the payments `classify` refuses.

### `AgentServe`: charging a request and its retries

Extends `AgentWallet` with the proxy's side. An attempt is one HTTP request;
attempts under one `Idempotency-Key` have one reservation or claim id
(`agentDebitKeyFor`). `AdmitWithHold` or `AdmitWithDebit`, then `Answer`,
`OwnCacheHit` or `UpstreamFails`, then `SettleAnswered`, `SettleCached` or
`ReleaseUnanswered`, which may leave the hold where it is, as the exits do that
return without releasing; `Lose` is a crash, or a settle or a release that fails;
`Sweep` is the stranded-hold sweeper. The sweeper's threshold counts from the
hold and is longer than an attempt can take, so it never takes a hold from the
attempt that made it, but it may take it from a retry. Requests whose estimate
is zero take no hold and are left out.

### `Purse` and `WalletPurse`: what the wallet promises

`Purse` knows money at places (the workspace's own, each agent's), questions
that hold money of one place, and a debt. Its steps say what may happen to the
money, not how much is asked for: the workspace's own money changes; money moves
between two places; a question takes money of one place (what it lacks may be
lent, within the line's limit); a question ends, once, and its place gets back at
most what was held; one that is a hold never costs more than was held; the debt
is paid. No step overdraws a place. It has no ledger, no fees, no budgets, no
archived agents. `WalletPurse` maps the wallet to it: the own place holds
`balance - allocated`, an agent's place its stored balance, a question is a
reservation or a debit with its fee. `IsAPurse` is `Purse`'s specification under
that mapping; it is checked by `wallet_lending` and proved (section 5).

### `CreditMoves`: transfers, requests, give-backs and escrow

Agents (`Members`) of one or two workspaces and owners; `Worlds` lists the
combinations a run looks at. A balance has a test-funded part, a column clamped
to the balance and its open holds at each write (`Clamp`, `writeLXCBalance`).
`TransferTx` is the whole of `transferTx`: wall, verification by capability
class, freeze, both balances and the test part that travels. `SendCredits`,
`AcceptMoneyRequest` and `MakeRefund` use it; a give-back reads its transfer
outside the transaction, so `ReadRefund` is a step of its own and the unique
index (`RefundIndex`) is what stops the second. Escrow: `PayIntoEscrow`,
`ConfirmEscrow`, `DisputeEscrow`, `DecideEscrow`, `RunEscrowDeadline` and
`FailEscrowDeadline` (the tick records a failure and goes on). Freezes,
clearances and archiving change between any two steps. Rules are `AgentRules`'
concern; purchases and holds appear as what they do to the balance.

### `AgentRules`: limits, approvals, boosts, pauses

One agent. `enforceAgentRules` runs inside the movement's transaction with the
agent locked, so a movement is one action (`LetThrough` in `StartQuestion`,
`CloseDebit`, `PayOut`, `SendOut`). What callers do in several statements is
several actions: a boost (`BoostRead`, `BoostWrite`), an approval filed after the
refused movement rolled back (`FileApproval`), a decision authorised by a passkey
and made later (`AuthorizeApprovalDecision`, `DecideAgentApproval`). `spent` is
what `agentSpentSince` counts, by day, net of the refunds settles post on their
own day; `sent` is what transfers and escrows post. A day stands for any of the
four periods. Models, providers, hours and counterparties only refuse.

### `AgentPots`, `AgentCredential`, `AgentCards`, `CashOuts`

`AgentPots`: `movePot` under the agent's lock reads the pot's lock and whether
its key landed, then posts; `LockPot` takes the pot's row only and may commit
in between. `AgentCredential`: issuing, rule changes, freezes, archiving and
boosts statement by statement under READ COMMITTED, with the advisory lock each
takes (or, for boosts, takes and drops per statement). `AgentCards`: approved
requests of one authorisation, then captures, partial reversals, closes and
refunds in any order and repeated; amounts convert at a rate that does not
divide evenly, so rounding is in play. `CashOuts`: the request, the hand-over
and the ticks of two servers over the list each found, the row lock across the
partner's call, and a commit lost after it.

### `AgentSchedules`

Two schedules of one agent, one of them a standing order to an outside payee,
and the minute tick of two servers. `SelectTick` takes the earliest due row
nobody holds (`SKIP LOCKED`); a payment inside Talyvor takes the agent's row and
stands when `RecordRun` commits; a payment out (`FindPrior`, `HoldOutside`)
commits by itself under the tick's key. A server may die, or lose only the
tick's connection while its payment goes on. Skips, cancellations and an
archiving come in between; archiving holds the agent's row while it waits for
the schedules' rows. What the partner then does with a payment out is
`OutsidePayments`.

### `OutsidePayments`

A call of `PayOutside` holds the money in one transaction, calls the partner
with none open and applies its answer in another; reads of the payment ask
again. Three calls share a key; each may die anywhere, get no answer, or apply
an answer after a newer one. The partner remembers its first answer by key, as
`partners/testbook.go` does; the account at the partner is assumed to stay open
while a payment is in flight, since the partner refuses a repeat on a closed one
before it looks for its first answer.

### `NodeStakes`, `HeldMints`

`NodeStakes`: stake, unbond, release and slash under the node's advisory lock;
`Challenge()` step by step (`Look`, `Claim`, `Hear`, `Slash`, `UpdateResult`) by
any server, each of which may die between two steps. Whether a node's proof is
valid is an input. `HeldMints`: `MintServedHit` with its per-pair cap, the
clearer, the ring detector's flags and the revoker, and two sweepers, each of
which lists first and writes row by row under a compare-and-set. A mint is on
record twice: its row has the whole amount, and the held balance is credited with
what the reputation bond leaves of it, when that is switched on (`bonded`,
`HeldCredits`). A settle or a clawback takes the row's amount and fails while the
held balance is short of it. `heldIn` remembers what mints credited. The caps per
entry and the wall between test and live money only refuse a mint and are left
out.

### `LeaderElection`, `ControlPlane`

`LeaderElection`: `SetNX` (also with its answer lost), renewal, loss of the key,
draining, shutdown, crash, pause past the key's life, restart; renewal every
third of the life is why a reachable leader's key does not expire.
`ControlPlane`: heartbeats in Postgres and Redis, `MarkStaleInactive`, snapshots
built and published by two overlapping reconcilers, their expiry, and `Sync`.

### `LockOrder`

Each money transaction as the sequence of rows it locks (`HoldRows`,
`SettleRows`, `TransferRows`, `TickRows`, `ArchiveRows`, ...), taken one at a
time and kept to the end. Two clients run any two of them over two agents of two
workspaces whose ids sort in opposite orders.

### The proof modules

One module per group of components, apart from the models (section 5).

### MC modules

They give the function-valued constants and the symmetry set: the reservations
of `wallet_holds` are interchangeable; no symmetry is used where there is
liveness or a refinement. `MCAgents` and `MCServices` put components that share
no rows side by side; `focus` names the one that runs in a behaviour, so a
behaviour explores that component's interleavings and the state space is the sum
and not the product. The shared ledger rows of the agent components are each
in the component's own module; `AgentWallet` is where the wallet's operations
meet in one state.

## 3. The runs

Amounts are small on purpose. With `FeeDenominator = 4` and a rate of 1 the fee
is 25%, so the rounding of the fee (up) and of the clamp (down) both bite at
amounts of 1 to 5. `MaxMinted` bounds all credit and with it the state space; it
is large enough for a purchase and a grant to meet in one balance and for two
holds to be open together.

| Run | Instance | States | Properties |
|---|---|---|---|
| `wallet_holds` | one agent, its key and a key of no agent, 2 reservations, a refund at a time | 2,021,924 | `TypeOK`, `AgentsCovered`, `HoldsNetOut`, `RoyaltiesFundedByPurchases`, `SettledWithinHold`, `ResolvedIsFinal` |
| `wallet_lending` | 2 agents, a line of 3, a hold and a debit | 81,352 | `LedgerReconciles`, `BudgetReconciles`, `KeyWithinCeiling`, `IsAPurse` |
| `serve` | 3 attempts of a request, by hold or by debit, estimated at 2 and costing 0 or 3, 2 failures | 104,085 | `UnansweredIsFree`, `AnsweredDebitIsSettled`, `HoldsResolve` |
| `agents` | 8 worlds of two agents; 2 rule sets; 3 pot moves; 2 issuers and 2 changers; 2 requests and 5 events of a card; 2 cash-outs, 2 servers; 2 schedules of 2 ticks, 2 servers, one loss and one wish of the owner | 114,567 | `MembersCovered`, `SidesConserved`, `TestMoneyTravels`, `PaidOnce`, `EscrowLeavesHeld`; `LimitBindsSpending`, `LetThroughOnce`; `PotKeepsItsPromises`; `InForceIsTrue`; `CardBookBalances`, `TestMoneyKept`; `CashOutsReconcile`, `CashOutsDecided`; `RunsSayWhatWasPaid`, `TicksRun` |
| `services` | a payment and 2 handlers; 3 calls of a key; 2 nodes, 2 challengers; 2 mints of 2, of which a bond leaves 1 or 2, 2 sweepers; 3 servers, 4 troubles; a node, 2 reconcilers; 2 clients of the locks | 97,941 | `CreditedAtMostOnce`, `StripeEventsRecorded`; `MoneyIsWherePaymentsSay`, `RecordAgreesWithPartner`; `CollateralReconciles`, `SlashedOncePerReceipt`; `MintsSettleOnce`; `JobKeepsALeader`; `SilentNodesLeave`; `NobodyWaitsInACircle` |
| `topups_refund_race` | 2 handlers | | violates `FullyRefundedIsMarked` |
| `topups_refund_twice` | 2 payments, 1 handler | | violates `RefundWithinPurchase` |
| `topups_backing_race` | 1 handler and a spend | | violates `BackingReadIsCurrent` |
| `serve_retry_free` | 2 attempts, no failure | | violates `AnsweredIsSettled` |
| `moves_freeze` | 2 workspaces of one owner, an escrow | | violates `FreezeHolds` |
| `rules_transfers` | a daily limit of 2, two transfers | | violates `LimitBindsTransfers` |
| `stakes_restake` | one node staking twice | | violates `LockedIsOnRecord` |

Why these bounds: a hold can be disturbed by one other hold of the same agent or
of another key, so two reservations with one agent's key and one plain key give
every pair; a third adds no new kind of meeting. One refund at a time, begun and
ended again and again, is enough to overwrite what charges consumed; `Refunders`
is any set in the proof. A bond that leaves half of a mint lets one mint's settle
take what the other credited. Of three attempts one can hold
the reservation, one can be running as a retry and one can come after both. A
payment's two crediting events and its refund meet two at a time in two
handlers. Of three calls of an outside payment one pays, one repeats it and one
reads. Two servers suffice for a challenge, a sweep and a tick, because all they
share is one row; three for leadership, so that a former leader, the present one
and a waiting one coexist. Deadlock is not checked where a workspace may be
broke, a budget of changes used up or all requests over; waiting in a circle is
`NobodyWaitsInACircle`. The wallet's `TypeOK` is checked and proved; what the
other modules' type invariants say is part of the inductive invariants of the
proofs, and no run lists them.

**What passes.** The balance equals its ledger through every operation; the
agents' money is always there; a hold is given back exactly once whichever of
settle, release and sweeper comes first; a charge with its fee fits its hold; a
bought LXC funds one royalty, unless the charge that consumed it committed while
a refund was between its unlocked read of the backing and its write, and then no
more than those charges come back; a payment is credited once and every event is
in the end recorded; a request that got no answer costs nothing where holds are
on. Credits, and their test-funded part, are neither made nor lost on the way
between workspaces and through escrow; a transfer is given back and a request
paid once; spending stays within the daily limit and an approval lets one
movement through; a pot moves a key once and keeps its lock; a credential in
force states its agent's rules and a frozen or archived agent has none, while a
boost is stated only once its call has revoked the credential before it (section
4); a card's book balances in whatever order its events come; cash-outs and
outside payments agree with the partner's record whoever dies or goes silent;
collateral is accounted for and a receipt slashed once; a mint is settled or
revoked, once, at its row's amount, and the held balance is what mints credited
less those amounts, never negative (and the sum of the open mints where no bond
reduces a credit); the money transactions never wait in a circle within the
documented order; a schedule's tick is paid at most once and its run says so,
and the servers catch up with what is due; a job has a leader again after
crashes, and a silent node leaves the routers.

**Fairness.** In `TopUps` a handler's own steps are weakly fair (one that has
begun and does not fail ends) and redelivery until a 200 is strongly fair, which
is Stripe's contract and what the code answers 5xx for; failures are bounded in
number. `ServeSpec` has weak fairness of an admitted attempt, since the upstream
client has a timeout, and of the sweeper, a
ticker of the process. `MovesFairness` makes release dates come and the escrow
tick run, a ticker too; nothing is assumed of payers or operators, so a disputed
escrow may stay disputed. `CashFairness` runs the minute tick, has the partner
decide what it was given, and answer again and again (strong: any one call may
be lost). `SchedulesFairness` has each server's
minute tick come and its steps end, Postgres cancel one of two transactions that
wait for each other, and an archiving get the rows it is next in line for.
`LeaderFairness` has Redis expire keys and servers retry, notice a lost
key at the next renewal, return from a cancelled job and be started again; crash,
pause and Redis errors are bounded by `MaxTroubles`. `FleetFairness` lets time
pass, the reconciler build and (strongly, since Redis may fail) publish, and each
router sync, whose period is half a snapshot's life, so it meets one.

## 4. Where code and comments disagree

Seven runs are expected to find a violation. Each is recorded in `PROJECT.json`
with the line it contradicts.

- `topups_refund_race`: a credit handler reads `billing_refunds`, finds no
  refund; a full refund is handled and commits; the credit commits a completed,
  credited purchase. The comment above the read says that cannot happen, but
  there is no row to lock yet, and the read takes none.
- `topups_refund_twice`: every delivery of a refund event reduces the backing
  again by the running total's share, so a repeat, or a partial and then a full
  refund, takes the backing of other purchases.
- `topups_backing_race`: the webhook's `ReduceCashBackedForRefund` reads and
  writes the backing without the balance row's lock, which its comment demands.
- `serve_retry_free`: an attempt fails and its hold is released; the retry under
  the same key finds the row, is admitted and answered, and its settle is a
  no-op. (The same after the sweeper, and after an own-cache hit.)
- `moves_freeze`: between workspaces of one owner an escrow needs no clearance,
  and `payIntoEscrowTx` and `settleEscrowTx` do not ask `refuseFrozenAnyClass`,
  so credits leave or enter a frozen workspace that way.
- `rules_transfers`: `agentSpentSince` does not sum transfers and escrows, so the
  day's limit is compared with each transfer as if it were the first.
- `stakes_restake`: `Stake` over an unbonding record writes a fresh one; the
  earlier collateral stays locked with no record to slash or release it by.

An eighth disagreement has no run of its own, because `InForceIsTrue` is stated
around it. `agent_kya.go` says of a boost, as of a new version of the rules, that
it revokes the credential "in the same transaction, so the published revocation
list has it at once". `BoostAgentRule` and `EndAgentBoost` write or delete the
boost in one statement on the pool and revoke in another (`WriteBoost`,
`RevokeAfterBoost`). In between, a credential that states the limit without the
boost is in force, or is even issued from facts read before; and it stays in
force when the second statement fails or the server dies. In `AgentCredential`
that is `Revoking`, and three steps reach it: an issuer reads, the boost is
written, the issue commits. So `InForceIsTrue` holds without exception of
freezes, archiving and new versions of the rules, and of boosts only when no such
call is unfinished.

Smaller observations, on which no run is spent. On purchases and requests: a
partial refund handled before its purchase takes no backing, one handled after
takes its share; a late refund event of a purchase born refunded fails with a 503
at each delivery while the workspace has no balance row (`RefundError`); with
reservations off an attempt that fails keeps its estimate's debit, as
`releaseReservation` acts on holds only. On agents: a settle after midnight posts
its refund on the new day, whose net may be negative; a boost that is ended and
set again between a boost's read and write is not noticed; a debit's settle asks
neither pauses nor the approval amount; a move out of a pot may post after
`LockPot` committed. `ArchiveAgent` locks the agent and then its schedules, a
tick the schedule and then the agent, so the two can wait for each other although
the rows of an agent have one order everywhere else: Postgres cancels one, and
neither is retried at once. With a standing order the circle runs through the
server, whose payment out waits on a second connection, and Postgres cannot see
it: the tick, and what that server's minute does after it, wait until the
archiving's client gives up. A tick whose connection was lost may be recorded as
refused by another server while the first one's payment out still lands. On
services: a leader that shuts down releases its key
before its job has returned, so two servers may run the job for a while, though
`leader.go` says "Only one instance across the cluster runs the job at a time"; a
challenge whose server dies after the claim is never asked again; the clearer's
examination may be old when its compare-and-set runs; a node that was marked
inactive is answered 200 for later heartbeats and stays inactive; a mint whose
held credit the reputation bond reduced settles at its row's whole amount, so its
settle fails for ever with `ErrInsufficientHeld` or, when other mints are held,
takes their credit and leaves them short (a hole the repository knows:
`poolroyalty/minter.go`, above `insertClaimSQL`, and
`TestBondedMintSettlement_KnownHole`; the bond and the haircut are off by
default), which is why `MintsSettleOnce` does not promise that every settle finds
what it needs; outside
payments are refreshed only when read, and `RunCashOuts` stops at the partner's
first error until the next minute.

## 5. The proofs

Every invariant and every action property of the passing runs is proved, for
every set of agents, keys, requests, servers, payments and events and for every
amount, rate and bound that the modules' assumptions admit. `tlapm X.tla` checks
a module from its sources; the eight proof modules hold 37 theorems, of which
`PROJECT.json` lists the 33 a reader should know.

| Module | Theorem | Statement |
|---|---|---|
| `AgentWalletProofs` | `TypeCorrect` | `Spec => []TypeOK`: no agent's balance, backing or line debt is negative |
| | `AgentsAlwaysCovered` | `Spec => []AgentsCovered`: `allocated <= balance` |
| | `ChargesStayWithinHolds` | `Spec => []SettledWithinHold` |
| | `RoyaltiesAlwaysFunded` | `Spec => []RoyaltiesFundedByPurchases` |
| | `ResolutionsAreFinal` | `Spec => ResolvedIsFinal` |
| `WalletBooksProofs` | `LedgerAlwaysReconciles` | `Spec => []LedgerReconciles` |
| | `HoldsAlwaysNetOut` | `Spec => []HoldsNetOut` |
| | `BudgetsAlwaysReconcile` | `Spec => []BudgetReconciles` |
| | `KeysStayWithinCeiling` | `Spec => KeyWithinCeiling` |
| `WalletPurseProofs` | `WalletIsAPurse` | `Spec => IsAPurse`: the wallet implements the abstract purse |
| `ServeProofs` | `ServingIsWalletWork` | `ServeSpec => Spec`: serving works the wallet through its operations only |
| | `ServedAgentsCovered` | `ServeSpec => []AgentsCovered` |
| | `UnansweredAlwaysFree` | `ServeSpec => []UnansweredIsFree` |
| | `AnsweredDebitsAlwaysSettled` | `ServeSpec => []AnsweredDebitIsSettled` |
| `MovesProofs` | `MembersAlwaysCovered` | `MovesSpec => []MembersCovered` |
| | `SidesAlwaysConserved` | `MovesSpec => []SidesConserved` |
| | `TestMoneyStaysTest` | `MovesSpec => TestMoneyTravels` |
| | `AlwaysPaidOnce` | `MovesSpec => []PaidOnce` |
| | `CardBookAlwaysBalances` | `CardSpec => []CardBookBalances` |
| | `CardTestMoneyAlwaysKept` | `CardSpec => []TestMoneyKept` |
| `AgentsProofs` | `CredentialsInForceAreTrue` | `CredentialSpec => []InForceIsTrue` |
| | `PotsKeepTheirPromises` | `PotSpec => []PotKeepsItsPromises` |
| | `RunsAlwaysSayWhatWasPaid` | `SchedulesSpec => []RunsSayWhatWasPaid` |
| | `CashOutsAlwaysReconcile` | `CashSpec => []CashOutsReconcile` |
| | `LimitAlwaysBinds` | `RulesSpec => LimitBindsSpending` |
| | `ApprovedAlwaysLetThroughOnce` | `RulesSpec => []LetThroughOnce` |
| `ServicesProofs` | `PaymentsCreditedOnce` | `TopUpsSpec => []CreditedAtMostOnce` |
| | `MintsAlwaysSettleOnce` | `HeldSpec => []MintsSettleOnce` |
| | `ReceiptsSlashedOnce` | `StakeSpec => []SlashedOncePerReceipt` |
| | `CollateralAlwaysReconciles` | `StakeSpec => []CollateralReconciles` |
| | `RecordsAlwaysAgree` | `OutsideSpec => []RecordAgreesWithPartner` |
| | `MoneyAlwaysWherePaymentsSay` | `OutsideSpec => []MoneyIsWherePaymentsSay` |
| | `NobodyEverWaitsInACircle` | `LockSpec => []NobodyWaitsInACircle` |

**Assumptions.** Each is an ASSUME of the module that declares the constants, and
TLC evaluates it on the runs. They say that amounts are naturals (positive where
the code refuses zero), that a fee or a slash is at most the whole, that a key's
agent, an agent's workspace and a receipt's node are among those there are, that
the values that stand for nobody are not somebody, and that the tables summed
over are finite. `CreditMoves` has at least one agent. `AgentServe` takes a
request's estimate to be one of the wallet's amounts and zero to be a possible
cost, so that its steps are the wallet's. Bounds such as `MaxMinted` or
`LastDay` are any natural number.

**Sums.** A sum defined by recursion over rows needs induction over data, which
the installed provers cannot instantiate. `Totals` defines it by cardinality, and
`TotalsProofs` derives from the theorems about finite sets what the proofs cite:
a total is a natural; when one row changes the total changes by what the row
does; when two rows exchange an amount it stays; and the same of the rows a
condition picks, and of a column that may be negative.

**The wallet.** The inductive invariant is `WalletInv = WalletTyped /\ RowsKeyed
/\ AgentsCovered`, with `RefundsTyped` for the refunds under way; `TypeOK` is
`WalletTyped` and `RefundsTyped`. `WalletTyped` says agents' balances are
naturals, which needs the guards of `MayTake`, the clamp of a settle and, for a
debit's settle, `Allowance` and `Reach`. It is not inductive by itself: a settle
gives the rest of a hold back to `AgentOf[res[r].key]`, so an existing row must
have a key (`RowsKeyed`), and the own money that funding and top-ups draw on is
`balance - allocated`, which `AgentsCovered` keeps from being negative.
`AgentsCovered` holds because every movement of an agent changes `balance` and
`allocated` by the same amount and every other decrease of `balance` is guarded
by `requireUnallocated`.

The heart of `TypeCorrect` and `ChargesStayWithinHolds` is arithmetic: for
`charge = SpendWithin(gross, bps)`, `charge + PlatformFee(charge, bps) <= gross`,
though one rounds down and the other up, and `PlatformFee` grows with its
amount. Both operators compute with quotient and remainder apart, as the code
does against overflow, so the lemmas first show that this is the plain floor and
ceiling. 
`RoyaltiesAlwaysFunded` adds that a charge leaves the backing smaller by at least
the basis it reports. A refund's write replaces the backing by a value it computed
from an old one, so the invariant must hold of what each refund has read as well
(`RefundsFunded`): a charge that commits while a refund is open adds its basis to
both sides, as `raced` counts it, and one that commits while none is open has
nothing read to account for.

The books follow from `WalletInv` and, for each action, from the one row it
changes. `BudgetsAlwaysReconcile` needs `RowsCharged` (an unsettled row has no
charge, an unused one nothing held). That the stored total `allocated` is the
sum of the agents' balances, as `allocatedSQL` has it, is
`AllocatedIsAlwaysTheSum`: the model keeps the total beside the rows, and this
shows it may.

`WalletIsAPurse` shows that the initial states map to the purse's and that each
action, from `WalletInv` and its primed form, is one of the purse's steps under
the mapping or changes nothing the purse sees (ceilings, the line's pauses,
refunds of backing, late calls). That the purse's variables keep their types in
the step is where `WalletInv` is used again: "no place is overdrawn" is
`AgentsCovered` for the own place and `WalletTyped` for the agents'.

`ServingIsWalletWork` carries all of this over to serving. The invariant added
there, `ServeInv`, says that a settled reservation was answered
(`ChargedWasAnswered`) and that a debit's claim outlives every attempt
(`ClaimOutlives`), which is why the retry that is answered finds it, while a
hold may be gone (finding `serve_retry_free`).

**Moves and cards.** `MovesInv` joins `MembersCovered` and `SidesConserved` with
what keeps the test money exact: the test-funded column is within the balance
and the open holds (`FundedWithin`), so `Clamp` never cuts it, and an escrow's
test part is within its amount (`EscrowsTest`). From these, each
action moves balances and columns by the same amounts on one side of the wall.
`OnceInv` adds to `PaidOnce` that a transfer not made names nothing.

For the card, the account's distance from the exact rate is followed twice, with
and without what is still held (`Off`, `OffUnheld`, in units of 1/`RateDen`
credit). Releasing or capturing a part of the hold converts it, rounded up, or
takes the rest of the hold's value when that is less or when nothing else is
held; `RoundingOfSettlement` shows that either distance after a step lies between
the two before it, but for one credit. Neither bound is inductive alone: a full
release replaces `Off` by `OffUnheld`, and a capture the other way round.
`TestMoneyKept` needs that the test-funded column is within the balance until a
capture is forced. Proving it showed that `TestMoved` had overlapping cases where
nothing was ever approved; they are now disjoint, as the early return of
`cardTestFunded` is.

**Agents.** `CredentialInv` says who holds the advisory lock and that what an
issuer read is still true while it holds it (`ReadsStillTrue`). `ScheduleInv`
ties a standing order's payment to its key: the key of a tick is on record
exactly when the payment landed, and then its run says paid or a server is about
to record it, or has lost the tick. `CashInv` says that the partner knows what is
submitted, and that no tick holds a row twice. `LimitBindsSpending` is an action
property and needs types only; `ApprovalInv` counts used approvals against
movements passed.

**Services.** `TopUpInv`: the event that credited a payment holds the slot of the
unique index. `MintsSettleOnce` is nearly inductive: a settle or a clawback
changes one row to its end and the held balance by that row's amount, which was
there. `ChallengeInv`: past the claim there is one challenger per receipt,
and it has not slashed yet. `PartnerInv`: the partner's first answer binds, every
answer heard is one the partner gave, and the record follows only such answers.
`NobodyEverWaitsInACircle` defines a strict order on rows (`Before`), shows that
every path of `LockOrder` rises in it but for schedules' rows, and takes, of any
circle, a client with the fewest members that want a later row: the one it waits
for has fewer still. It needs that clients are finite and no bound on agents.

**Model-checked only.** Liveness under fairness is out of the prover's reach:
`HoldsResolve`, `StripeEventsRecorded`, `EscrowLeavesHeld`, `CashOutsDecided`,
`TicksRun`, `JobKeepsALeader` and `SilentNodesLeave` are checked by TLC.

## 6. What is not modelled

See the components with status `not_modelled` or `partly`. The models cover the
money and coordination core, which is a small share of the repository's lines:
most of it is handlers, configuration, adapters, reports, dashboards and text
processing, which keep no state whose interleavings matter or translate data in
ways that are not a state machine. Left out for good: parsing, compression and
distillation, embeddings and cache similarity, scores and statistics,
dashboards, reports, cryptography, and partner adapters that only translate. Not
reached: the marketplace, subscriptions and allowances, company loans, payout
batches and mandates, rooms, LENS conversion, the schedules' calendar and
licence renewals, the invoicing of credit-line draws, the gateway's limiters and
breakers. PostgreSQL is taken to provide row locks, unique indexes, advisory
locks and READ COMMITTED; Redis to expire keys and to run a script atomically.
64-bit overflow is not modelled: amounts are unbounded integers.

## 7. Plan

The model stands and its safety properties are proved. What is left to prove is
about their neighbours.

1. The safety side of the liveness properties: that a leader's job belongs to
   the key's holder (`LeaderElection`) and that a snapshot never brings back a
   node already marked stale (`ControlPlane`), as invariants of those modules.
2. `AgentServe` as an implementation of `Purse`: the composition of
   `ServingIsWalletWork` and `WalletIsAPurse`, stated for requests.
3. An abstract specification of a payment (credited, refunded, at most once) that
   `TopUps` implements as far as the findings of section 4 allow.
