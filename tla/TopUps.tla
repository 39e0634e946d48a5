------------------------------- MODULE TopUps -------------------------------
(***************************************************************************)
(* Buying LXC with Stripe (internal/billing/billing.go): the webhook's     *)
(* credit path (handleSessionCredit) and refund path (handleRefund) for    *)
(* the payments of one workspace.                                          *)
(*                                                                         *)
(* Stripe delivers an event at least once, in any order, to any number of  *)
(* webhook handlers at a time.  A handler is one READ COMMITTED            *)
(* transaction.  What it writes is seen by others when it commits, and     *)
(* what it reads is what was committed when it read, so a step below ends  *)
(* at each read whose result is used later and at the commit:              *)
(*   credit:  ReceiveCredit (reads billing_refunds), then CommitCredit     *)
(*   refund:  ReceiveRefund, MarkRefund (locks the billing_refunds row,    *)
(*            finds the purchases to mark), ReadBacking, CommitRefund      *)
(* Amounts are in the charge's own currency unit, which is USD here.       *)
(***************************************************************************)
EXTENDS Integers, FiniteSetsExt, CashBacking

CONSTANTS
  Payments,     \* payment intents, one checkout session each
  Anomalous,    \* those whose session classify() refuses to credit
  Amount,       \* what each payment charges
  LXC,          \* lxcForCents(Amount): what each payment buys
  Handlers,     \* webhook requests that can be in progress at a time
  Spends,       \* amounts the workspace spends
  MaxTurns      \* bound on crashes, database errors and spends, together

ASSUME TopUpConstants ==
  /\ Anomalous \subseteq Payments
  /\ Amount \in Nat \ {0} /\ LXC \in Nat \ {0}
  /\ Spends \subseteq Nat \ {0}
  /\ MaxTurns \in Nat

VARIABLES
  paid,       \* the crediting events Stripe has for each payment made
  totals,     \* refund events of each payment: the running totals they carry
  purchase,   \* lxc_purchases: the row of each crediting event
  refund,     \* billing_refunds
  wallet,     \* lxc_balances: does the row exist, its balance and backing
  handler,    \* the transaction of each handler in progress
  acked,      \* the events answered 200
  credits,    \* how often each payment has been credited
  royalty,    \* the cash-backed spending, which funds royalties
  turns       \* how many crashes, database errors and spends there were

topUpVars == <<paid, totals, purchase, refund, wallet, handler, acked, credits,
          royalty, turns>>

-----------------------------------------------------------------------------
(* Events, rows and transactions.                                          *)

CreditKinds == {"completed", "async"}

CreditEvents == [kind : CreditKinds, pay : Payments, total : {0}]

RefundEvents == [kind : {"refund"}, pay : Payments, total : 1..Amount]

Emitted == {e \in CreditEvents : e.kind \in paid[e.pay]}
           \cup {e \in RefundEvents : e.total \in totals[e.pay]}

NoPurchase == [status |-> "none", lxc |-> 0, refunded |-> 0]

NoRefund == [fully |-> FALSE, cents |-> 0]

IdleHandler == [pc |-> "idle"]

RowsOf(p) == {e \in CreditEvents : e.pay = p /\ purchase[e].status # "none"}

\* The rows of p that hold its session's crediting slot (lxc_amount > 0).
CreditingRows(p) == {e \in RowsOf(p) : purchase[e].lxc > 0}

\* fully: the charge's amounts say the whole of it came back.
Fully(e) == e.total >= Amount

Acknowledge(h, e) ==
  /\ handler' = [handler EXCEPT ![h] = IdleHandler]
  /\ acked' = acked \cup {e}

-----------------------------------------------------------------------------
(* Stripe and the customer.                                                *)

\* The money settles: a paid checkout.session.completed, or for a delayed method
\* an async_payment_succeeded, or one and then a stray other.  The completed
\* event of a payment that has not settled is answered and ignored.
CustomerPays(p, kinds) ==
  /\ paid[p] = {} /\ kinds # {}
  /\ paid' = [paid EXCEPT ![p] = kinds]
  /\ UNCHANGED <<totals, purchase, refund, wallet, handler, acked, credits,
                 royalty, turns>>

\* A refund of part or all of the charge; its event carries the running total.
StripeRefunds(p, total) ==
  /\ paid[p] # {}
  /\ \A t \in totals[p] : t < total
  /\ totals' = [totals EXCEPT ![p] = @ \cup {total}]
  /\ UNCHANGED <<paid, purchase, refund, wallet, handler, acked, credits,
                 royalty, turns>>

-----------------------------------------------------------------------------
(* handleSessionCredit.                                                    *)

\* The transaction begins and refundFor reads, without a lock, what is
\* recorded of the payment's refunds.
ReceiveCredit(h, e) ==
  /\ handler[h] = IdleHandler
  /\ e \in Emitted \cap CreditEvents
  /\ handler' = [handler EXCEPT ![h] = [pc |-> "credit", event |-> e,
                                        seen |-> refund[e.pay]]]
  /\ UNCHANGED <<paid, totals, purchase, refund, wallet, acked, credits,
                 royalty, turns>>

\* The purchase row a crediting event inserts: refunded beats anomalous, and
\* keeps the amount.
Born(p, seen) ==
  CASE seen.fully -> [status |-> "refunded", lxc |-> LXC,
                      refunded |-> seen.cents]
    [] ~seen.fully /\ p \in Anomalous ->
         [status |-> "anomalous", lxc |-> 0, refunded |-> seen.cents]
    [] OTHER -> [status |-> "completed", lxc |-> LXC, refunded |-> seen.cents]

\* Mutant: no partial unique index on the session.
EventClaimed(e, row) == purchase[e].status # "none"

\* The claim is lost: the event has a row (ON CONFLICT DO NOTHING), or the
\* session's crediting slot is taken (the partial unique index).
Claimed(e, row) ==
  \/ purchase[e].status # "none"
  \/ row.lxc > 0 /\ CreditingRows(e.pay) # {}

\* CreditLXCTx on the claim's transaction.
CreditWallet(p) ==
  /\ wallet' = [exists |-> TRUE, balance |-> wallet.balance + LXC,
                cash |-> wallet.cash
                         + (IF AddsBacking("purchase") THEN LXC ELSE 0)]
  /\ credits' = [credits EXCEPT ![p] = @ + 1]

\* The claim's INSERT, the credit and the commit.
CommitCredit(h) ==
  LET e   == handler[h].event
      row == Born(e.pay, handler[h].seen)
  IN /\ handler[h].pc = "credit"
     /\ Acknowledge(h, e)
     /\ IF Claimed(e, row)
          THEN UNCHANGED <<purchase, wallet, credits>>
          ELSE /\ purchase' = [purchase EXCEPT ![e] = row]
               /\ IF row.status = "completed"
                    THEN CreditWallet(e.pay)
                    ELSE UNCHANGED <<wallet, credits>>
     /\ UNCHANGED <<paid, totals, refund, royalty, turns>>

-----------------------------------------------------------------------------
(* handleRefund.                                                           *)

ReceiveRefund(h, e) ==
  /\ handler[h] = IdleHandler
  /\ e \in Emitted \cap RefundEvents
  /\ handler' = [handler EXCEPT ![h] = [pc |-> "mark", event |-> e]]
  /\ UNCHANGED <<paid, totals, purchase, refund, wallet, acked, credits,
                 royalty, turns>>

\* A transaction past its upsert holds the billing_refunds row of p.
RefundLocked(p) ==
  \E h \in Handlers : handler[h].pc \in {"read", "write"}
                      /\ handler[h].event.pay = p

\* The upsert of billing_refunds, and the UPDATE of the purchases of p that
\* are committed by now.
MarkRefund(h) ==
  LET e == handler[h].event
  IN /\ handler[h].pc = "mark"
     /\ ~RefundLocked(e.pay)
     /\ handler' = [handler EXCEPT ![h] = [pc |-> "read", event |-> e,
                                           marked |-> RowsOf(e.pay)]]
     /\ UNCHANGED <<paid, totals, purchase, refund, wallet, acked, credits,
                    royalty, turns>>

\* The backing a refund is to take: the refunded fraction of what was bought.
Share(e) == IF Fully(e) THEN LXC ELSE (LXC * e.total) \div Amount

\* The purchases whose backing to reduce, and readCashBacked's plain SELECT.
ReadBacking(h) ==
  LET e == handler[h].event
      reduce == IF CreditingRows(e.pay) = {} THEN 0 ELSE Share(e)
  IN /\ handler[h].pc = "read"
     /\ reduce > 0 => wallet.exists
     /\ handler' = [handler EXCEPT ![h] =
                      [pc |-> "write", event |-> e,
                       marked |-> handler[h].marked,
                       reduce |-> reduce, cash |-> wallet.cash]]
     /\ UNCHANGED <<paid, totals, purchase, refund, wallet, acked, credits,
                    royalty, turns>>

\* readCashBacked finds no balance row: the transaction is rolled back and the
\* answer is a 503.
RefundError(h) ==
  LET e == handler[h].event
  IN /\ handler[h].pc = "read"
     /\ CreditingRows(e.pay) # {} /\ Share(e) > 0
     /\ ~wallet.exists
     /\ handler' = [handler EXCEPT ![h] = IdleHandler]
     /\ UNCHANGED <<paid, totals, purchase, refund, wallet, acked, credits,
                    royalty, turns>>

\* The merge of the ON CONFLICT DO UPDATE: events come in any order.
Merge(old, e) == [fully |-> old.fully \/ Fully(e),
                  cents |-> MaxOf(old.cents, e.total)]

Marked(row, e) ==
  [row EXCEPT !.refunded = MaxOf(@, e.total),
              !.status = IF Fully(e) THEN "refunded" ELSE @]

\* writeCashBacked, of the value read before, and the commit.
CommitRefund(h) ==
  LET e == handler[h].event
      reduce == handler[h].reduce
  IN /\ handler[h].pc = "write"
     /\ refund' = [refund EXCEPT ![e.pay] = Merge(@, e)]
     /\ purchase' = [c \in CreditEvents |->
                       IF c \in handler[h].marked THEN Marked(purchase[c], e)
                       ELSE purchase[c]]
     /\ wallet' = IF reduce = 0 THEN wallet
                  ELSE [wallet EXCEPT !.cash =
                          BackingAfterRefund(handler[h].cash, reduce)]
     /\ Acknowledge(h, e)
     /\ UNCHANGED <<paid, totals, credits, royalty, turns>>

-----------------------------------------------------------------------------
(* Everything else.                                                        *)

\* Mutant: a failed transaction is answered 200.
FailAnswered(h) ==
  /\ handler[h] # IdleHandler
  /\ turns < MaxTurns
  /\ turns' = turns + 1
  /\ Acknowledge(h, handler[h].event)
  /\ UNCHANGED <<paid, totals, purchase, refund, wallet, credits, royalty>>

\* A transaction fails or its server dies: rolled back and not answered.
Fail(h) ==
  /\ handler[h] # IdleHandler
  /\ turns < MaxTurns
  /\ turns' = turns + 1
  /\ handler' = [handler EXCEPT ![h] = IdleHandler]
  /\ UNCHANGED <<paid, totals, purchase, refund, wallet, acked, credits,
                 royalty>>

\* The workspace spends, under the lock of its balance row (SpendLXCMeta).
Spend(n) ==
  LET cash == FromCash(wallet.cash, wallet.balance, n)
  IN /\ wallet.balance >= n
     /\ wallet' = [wallet EXCEPT !.balance = @ - n, !.cash = @ - cash]
     /\ royalty' = royalty + cash
     /\ turns < MaxTurns /\ turns' = turns + 1
     /\ UNCHANGED <<paid, totals, purchase, refund, handler, acked, credits>>

TopUpsInit ==
  /\ paid = [p \in Payments |-> {}] /\ acked = {}
  /\ totals = [p \in Payments |-> {}]
  /\ purchase = [e \in CreditEvents |-> NoPurchase]
  /\ refund = [p \in Payments |-> NoRefund]
  /\ wallet = [exists |-> FALSE, balance |-> 0, cash |-> 0]
  /\ handler = [h \in Handlers |-> IdleHandler]
  /\ credits = [p \in Payments |-> 0]
  /\ royalty = 0 /\ turns = 0

Deliver(h, e) == ReceiveCredit(h, e) \/ ReceiveRefund(h, e)

Handle(h) == CommitCredit(h) \/ MarkRefund(h) \/ ReadBacking(h)
             \/ RefundError(h) \/ CommitRefund(h)

TopUpsNext ==
  \/ \E p \in Payments, kinds \in SUBSET CreditKinds : CustomerPays(p, kinds)
  \/ \E p \in Payments, n \in 1..Amount : StripeRefunds(p, n)
  \/ \E h \in Handlers, e \in CreditEvents \cup RefundEvents : Deliver(h, e)
  \/ \E h \in Handlers : Handle(h)
  \/ \E h \in Handlers : Fail(h)
  \/ \E n \in Spends : Spend(n)

TopUpsSpec == TopUpsInit /\ [][TopUpsNext]_topUpVars

\* Stripe redelivers an event until it is answered 200, and a handler that does
\* not fail finishes.
Redelivers(e) == e \notin acked /\ \E h \in Handlers : Deliver(h, e)

TopUpsFairness ==
  /\ \A h \in Handlers : WF_topUpVars(Handle(h))
  /\ \A e \in CreditEvents \cup RefundEvents :
       SF_topUpVars(Redelivers(e))

TopUpsFairSpec == TopUpsSpec /\ TopUpsFairness

-----------------------------------------------------------------------------
(* Properties.                                                             *)

PurchaseRow == [status : {"none", "completed", "anomalous", "refunded"},
                lxc : {0, LXC}, refunded : 0..Amount]

\* Rows, balance and backing hold what their columns say, and no refund leaves
\* negative backing.
TopUpsTypeOK ==
  /\ paid \in [Payments -> SUBSET CreditKinds]
  /\ totals \in [Payments -> SUBSET (1..Amount)]
  /\ purchase \in [CreditEvents -> PurchaseRow]
  /\ refund \in [Payments -> [fully : BOOLEAN, cents : 0..Amount]]
  /\ wallet \in [exists : BOOLEAN, balance : Nat, cash : Nat]
  /\ acked \subseteq Emitted
  /\ credits \in [Payments -> Nat]
  /\ royalty \in Nat /\ turns \in 0..MaxTurns

\* However its two crediting events are delivered, repeated, interleaved or
\* interrupted, a payment is credited at most once.
CreditedAtMostOnce == \A p \in Payments : credits[p] <= 1

\* Once a full refund is recorded, no purchase of the payment is left standing.
\* The credit path's comment says a concurrent refund "either precedes this
\* read or waits behind the commit".
FullyRefundedIsMarked ==
  \A p \in Payments : refund[p].fully =>
    \A e \in RowsOf(p) : purchase[e].status = "refunded"

\* Refunds remove no more backing than their own purchases added: what the
\* purchases nothing was refunded of added is still there, or was spent.
RefundWithinPurchase ==
  wallet.cash + royalty
    >= LXC * MapThenSumSet(LAMBDA p : credits[p],
                           {p \in Payments : refund[p] = NoRefund})

\* The backing a refund writes is computed from the backing there is: nothing
\* moved it since it was read.
BackingReadIsCurrent ==
  [][\A h \in Handlers :
       handler[h].pc = "write" /\ handler[h].reduce > 0
         /\ handler[h].event \in acked' \ acked
         => handler[h].cash = wallet.cash]_topUpVars

\* Every payment the customer made and every refund Stripe made is in the end
\* recorded: whatever handlers fail on the way, and in whatever order the
\* events come, there is again and again a moment with nothing left out
\* (handleSessionCredit, handleRefund).
StripeEventsRecorded ==
  []<>(\A p \in Payments :
         /\ paid[p] # {} => RowsOf(p) # {}
         /\ \A n \in totals[p] : refund[p].cents >= n)
=============================================================================
