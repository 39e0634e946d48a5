--------------------------- MODULE ServicesProofs ---------------------------
(***************************************************************************)
(* What is proved of the services around the wallet: top-ups, held         *)
(* royalties, node collateral and payments out of Talyvor, and of the      *)
(* order in which the money transactions take their locks.  For each, the  *)
(* inductive invariant, one lemma for each action that can disturb it, and *)
(* the theorem.                                                            *)
(***************************************************************************)
EXTENDS TopUps, HeldMints, NodeStakes, OutsidePayments, LockOrder,
        TotalsProofs, WellFoundedInduction

-----------------------------------------------------------------------------
(* Top-ups.  A payment that was credited has a row that holds its          *)
(* session's crediting slot, and no step ever frees a slot: a refund marks *)
(* the row and keeps its amount.                                           *)

RefundRow == [fully : BOOLEAN, cents : Nat]

\* What a handler that is in the middle of a transaction keeps in memory.
HandlerStates ==
  {IdleHandler}
  \cup [pc : {"credit"}, event : CreditEvents, seen : RefundRow]
  \cup [pc : {"mark"}, event : RefundEvents]
  \cup [pc : {"read"}, event : RefundEvents, marked : SUBSET CreditEvents]
  \cup [pc : {"write"}, event : RefundEvents, marked : SUBSET CreditEvents,
        reduce : Int, cash : Int]

PurchaseRows == [status : {"none", "completed", "anomalous", "refunded"},
                 lxc : Nat, refunded : Nat]

TopUpRows ==
  /\ purchase \in [CreditEvents -> PurchaseRows]
  /\ refund \in [Payments -> RefundRow]
  /\ wallet \in [exists : BOOLEAN, balance : Int, cash : Int]
  /\ handler \in [Handlers -> HandlerStates]
  /\ credits \in [Payments -> Nat]

CreditedHoldsSlot ==
  \A p \in Payments : credits[p] > 0 => CreditingRows(p) # {}

TopUpInv == TopUpRows /\ CreditedHoldsSlot /\ CreditedAtMostOnce

\* Nothing is credited at first.
LEMMA TopUpInit == TopUpsInit => TopUpInv
<1> SUFFICES ASSUME TopUpsInit PROVE TopUpInv
  OBVIOUS
<1>1. NoPurchase \in PurchaseRows /\ NoRefund \in RefundRow
      /\ IdleHandler \in HandlerStates
  BY DEF NoPurchase, PurchaseRows, NoRefund, RefundRow, HandlerStates
<1>2. TopUpRows
  BY <1>1 DEF TopUpsInit, TopUpRows
<1>3. QED
  BY <1>2 DEF TopUpsInit, TopUpInv, CreditedHoldsSlot, CreditedAtMostOnce

\* What a handler in progress is.
LEMMA HandlerAt ==
  ASSUME TopUpRows, NEW h \in Handlers
  PROVE  /\ handler[h].pc = "credit" => /\ handler[h].event \in CreditEvents
                                        /\ handler[h].seen \in RefundRow
         /\ handler[h].pc \in {"mark", "read", "write"} =>
              handler[h].event \in RefundEvents
         /\ handler[h].pc \in {"read", "write"} =>
              handler[h].marked \in SUBSET CreditEvents
         /\ handler[h].pc = "write" => /\ handler[h].reduce \in Int
                                       /\ handler[h].cash \in Int
<1>1. handler[h] \in HandlerStates
  BY DEF TopUpRows
<1>2. CASE handler[h] = IdleHandler
  BY <1>2 DEF IdleHandler
<1>3. CASE handler[h] # IdleHandler
  BY <1>1, <1>3 DEF HandlerStates
<1>4. QED
  BY <1>2, <1>3

\* An event is of a payment.
LEMMA EventPays ==
  /\ \A e \in CreditEvents : e.pay \in Payments
  /\ \A e \in RefundEvents : e.pay \in Payments /\ e.total \in Nat
BY DEF CreditEvents, RefundEvents

\* A step that keeps credits, and every row that holds a slot.
LEMMA SlotsKept ==
  ASSUME TopUpInv, TopUpRows', credits' = credits,
         \A e \in CreditEvents :
           purchase[e].status # "none" /\ purchase[e].lxc > 0
             => purchase'[e].status # "none" /\ purchase'[e].lxc > 0
  PROVE  TopUpInv'
<1>1. \A p \in Payments : CreditingRows(p) \subseteq CreditingRows(p)'
  BY DEF CreditingRows, RowsOf
<1>2. QED
  BY <1>1 DEF TopUpInv, CreditedHoldsSlot, CreditedAtMostOnce

\* A commit that claims the slot, and pays once: the payment had no slot and so
\* was not credited.
LEMMA CommitCreditInv ==
  ASSUME TopUpInv, NEW h \in Handlers, CommitCredit(h)
  PROVE  TopUpInv'
<1> USE DEF TopUpInv
<1>1. PICK e \in CreditEvents :
        /\ e = handler[h].event /\ e.pay \in Payments
        /\ handler[h].seen \in RefundRow
  BY HandlerAt, EventPays DEF CommitCredit
<1> DEFINE row == Born(e.pay, handler[h].seen)
<1>2. handler' = [handler EXCEPT ![h] = IdleHandler]
  BY DEF CommitCredit, Acknowledge
<1>3. handler' \in [Handlers -> HandlerStates]
  BY <1>2 DEF TopUpRows, HandlerStates
<1>4. /\ row \in PurchaseRows /\ row.status # "none"
      /\ row.status = "completed" => row.lxc > 0
  BY <1>1, TopUpConstants DEF Born, PurchaseRows, RefundRow
<1>5. refund' = refund
  BY DEF CommitCredit
<1>6. CASE Claimed(e, row)
  <2>1. purchase' = purchase /\ wallet' = wallet /\ credits' = credits
    BY <1>1, <1>6 DEF CommitCredit
  <2>2. TopUpRows'
    BY <2>1, <1>3, <1>5 DEF TopUpRows
  <2>3. QED
    BY <2>1, <2>2, SlotsKept
<1>7. CASE ~Claimed(e, row)
  <2>1. purchase' = [purchase EXCEPT ![e] = row]
    BY <1>1, <1>7 DEF CommitCredit
  <2>2. purchase' \in [CreditEvents -> PurchaseRows]
    BY <2>1, <1>4, <1>1 DEF TopUpRows
  <2>3. purchase[e].status = "none"
    BY <1>7 DEF Claimed
  <2>4. \A p \in Payments : CreditingRows(p) \subseteq CreditingRows(p)'
    BY <2>1, <2>3, <1>1 DEF CreditingRows, RowsOf, TopUpRows
  <2>5. CASE row.status = "completed"
    <3>1. CreditWallet(e.pay)
      BY <1>1, <1>7, <2>5 DEF CommitCredit
    <3>2. credits' = [credits EXCEPT ![e.pay] = @ + 1]
      BY <3>1 DEF CreditWallet
    <3>3. wallet' \in [exists : BOOLEAN, balance : Int, cash : Int]
      BY <3>1, TopUpConstants DEF CreditWallet, TopUpRows
    <3>4. TopUpRows'
      BY <3>2, <3>3, <2>2, <1>1, <1>3, <1>5 DEF TopUpRows
    <3>5. CreditingRows(e.pay) = {}
      BY <1>4, <1>7, <2>5 DEF Claimed
    <3>6. credits[e.pay] = 0
      BY <3>5, <1>1 DEF CreditedHoldsSlot, TopUpRows
    <3>7. e \in CreditingRows(e.pay)'
      BY <2>1, <2>2, <1>1, <1>4, <2>5 DEF CreditingRows, RowsOf, TopUpRows
    <3>8. CreditedHoldsSlot' /\ CreditedAtMostOnce'
      BY <3>2, <3>6, <3>7, <2>4, <1>1
         DEF CreditedHoldsSlot, CreditedAtMostOnce, TopUpRows
    <3>9. QED
      BY <3>4, <3>8
  <2>6. CASE row.status # "completed"
    <3>1. wallet' = wallet /\ credits' = credits
      BY <1>1, <1>7, <2>6 DEF CommitCredit
    <3>2. TopUpRows'
      BY <3>1, <2>2, <1>3, <1>5 DEF TopUpRows
    <3>3. QED
      BY <3>1, <3>2, <2>4 DEF CreditedHoldsSlot, CreditedAtMostOnce
  <2>7. QED
    BY <2>5, <2>6
<1>8. QED
  BY <1>6, <1>7

\* A refund marks the rows it found, and takes the amount of none.
LEMMA CommitRefundInv ==
  ASSUME TopUpInv, NEW h \in Handlers, CommitRefund(h)
  PROVE  TopUpInv'
<1> DEFINE e == handler[h].event
<1> USE DEF TopUpInv
<1>1. /\ e \in RefundEvents /\ e.pay \in Payments /\ e.total \in Nat
      /\ handler[h].reduce \in Int /\ handler[h].cash \in Int
  BY HandlerAt, EventPays DEF CommitRefund
<1>2. handler' \in [Handlers -> HandlerStates]
  BY DEF CommitRefund, Acknowledge, TopUpRows, HandlerStates
<1>3. credits' = credits
  BY DEF CommitRefund
<1>4. \A row \in PurchaseRows :
        /\ Marked(row, e) \in PurchaseRows
        /\ Marked(row, e).lxc = row.lxc
        /\ row.status # "none" => Marked(row, e).status # "none"
  BY <1>1 DEF Marked, PurchaseRows, MaxOf
<1>5. \A c \in CreditEvents :
        purchase'[c] = IF c \in handler[h].marked THEN Marked(purchase[c], e)
                       ELSE purchase[c]
  BY DEF CommitRefund
<1>6. /\ purchase' \in [CreditEvents -> PurchaseRows]
      /\ \A c \in CreditEvents :
           /\ purchase'[c].lxc = purchase[c].lxc
           /\ purchase[c].status # "none" => purchase'[c].status # "none"
  <2>1. \A c \in CreditEvents : purchase[c] \in PurchaseRows
    BY DEF TopUpRows
  <2>2. purchase' = [c \in CreditEvents |-> purchase'[c]]
    BY DEF CommitRefund
  <2>3. QED
    BY <2>1, <2>2, <1>4, <1>5
<1>7. refund' \in [Payments -> RefundRow]
  <2>1. refund[e.pay] \in RefundRow
    BY <1>1 DEF TopUpRows
  <2>2. Merge(refund[e.pay], e) \in RefundRow
    BY <2>1, <1>1, TopUpConstants DEF Merge, RefundRow, MaxOf, Fully
  <2>3. refund' = [refund EXCEPT ![e.pay] = Merge(refund[e.pay], e)]
    BY DEF CommitRefund
  <2>4. QED
    BY <2>2, <2>3 DEF TopUpRows
<1>8. wallet' \in [exists : BOOLEAN, balance : Int, cash : Int]
  <2>1. BackingAfterRefund(handler[h].cash, handler[h].reduce) \in Int
    BY <1>1 DEF BackingAfterRefund, MaxOf
  <2>2. QED
    BY <2>1 DEF CommitRefund, TopUpRows
<1>9. TopUpRows'
  BY <1>2, <1>3, <1>6, <1>7, <1>8 DEF TopUpRows
<1>10. QED
  BY <1>3, <1>6, <1>9, SlotsKept

\* The other steps change no row of a purchase and no credit.
LEMMA TopUpStep ==
  ASSUME TopUpInv, [TopUpsNext]_topUpVars
  PROVE  TopUpInv'
<1> USE DEF TopUpInv
<1>1. ASSUME NEW p \in Payments, NEW kinds \in SUBSET CreditKinds,
             CustomerPays(p, kinds)
      PROVE  TopUpInv'
  <2>1. TopUpRows'
    BY <1>1 DEF CustomerPays, TopUpRows
  <2>2. QED
    BY <1>1, <2>1, SlotsKept DEF CustomerPays
<1>2. ASSUME NEW p \in Payments, NEW n \in 1..Amount, StripeRefunds(p, n)
      PROVE  TopUpInv'
  <2>1. TopUpRows'
    BY <1>2 DEF StripeRefunds, TopUpRows
  <2>2. QED
    BY <1>2, <2>1, SlotsKept DEF StripeRefunds
<1>3. ASSUME NEW h \in Handlers, NEW e, ReceiveCredit(h, e)
      PROVE  TopUpInv'
  <2>1. e \in CreditEvents /\ e.pay \in Payments
    BY <1>3, EventPays DEF ReceiveCredit
  <2>2. [pc |-> "credit", event |-> e, seen |-> refund[e.pay]] \in HandlerStates
    BY <2>1 DEF TopUpRows, HandlerStates
  <2>3. TopUpRows'
    BY <1>3, <2>2 DEF ReceiveCredit, TopUpRows
  <2>4. QED
    BY <1>3, <2>3, SlotsKept DEF ReceiveCredit
<1>4. ASSUME NEW h \in Handlers, NEW e, ReceiveRefund(h, e)
      PROVE  TopUpInv'
  <2>1. [pc |-> "mark", event |-> e] \in HandlerStates
    BY <1>4 DEF ReceiveRefund, HandlerStates
  <2>2. TopUpRows'
    BY <1>4, <2>1 DEF ReceiveRefund, TopUpRows
  <2>3. QED
    BY <1>4, <2>2, SlotsKept DEF ReceiveRefund
<1>5. ASSUME NEW h \in Handlers, MarkRefund(h)
      PROVE  TopUpInv'
  <2>1. /\ handler[h].event \in RefundEvents
        /\ RowsOf(handler[h].event.pay) \in SUBSET CreditEvents
    BY <1>5, HandlerAt DEF MarkRefund, RowsOf
  <2>2. [pc |-> "read", event |-> handler[h].event,
         marked |-> RowsOf(handler[h].event.pay)] \in HandlerStates
    BY <2>1 DEF HandlerStates
  <2>3. TopUpRows'
    BY <1>5, <2>2 DEF MarkRefund, TopUpRows
  <2>4. QED
    BY <1>5, <2>3, SlotsKept DEF MarkRefund
<1>6. ASSUME NEW h \in Handlers, ReadBacking(h)
      PROVE  TopUpInv'
  <2> DEFINE e == handler[h].event
             reduce == IF CreditingRows(e.pay) = {} THEN 0 ELSE Share(e)
  <2>1. e \in RefundEvents /\ handler[h].marked \in SUBSET CreditEvents
        /\ e.total \in Nat
    BY <1>6, HandlerAt, EventPays DEF ReadBacking
  <2>2. reduce \in Int
    BY <2>1, TopUpConstants DEF Share, Fully
  <2>3. wallet.cash \in Int
    BY DEF TopUpRows
  <2>4. handler' = [handler EXCEPT ![h] =
                     [pc |-> "write", event |-> e, marked |-> handler[h].marked,
                      reduce |-> reduce, cash |-> wallet.cash]]
    BY <1>6 DEF ReadBacking
  <2> HIDE DEF reduce
  <2>5. [pc |-> "write", event |-> e, marked |-> handler[h].marked,
         reduce |-> reduce, cash |-> wallet.cash] \in HandlerStates
    BY <2>1, <2>2, <2>3 DEF HandlerStates
  <2>6. TopUpRows'
    BY <1>6, <2>4, <2>5 DEF ReadBacking, TopUpRows
  <2>7. QED
    BY <1>6, <2>6, SlotsKept DEF ReadBacking
<1>7. ASSUME NEW h \in Handlers, RefundError(h) \/ Fail(h)
      PROVE  TopUpInv'
  <2>1. handler' = [handler EXCEPT ![h] = IdleHandler]
    BY <1>7 DEF RefundError, Fail
  <2>2. TopUpRows'
    BY <1>7, <2>1 DEF RefundError, Fail, TopUpRows, HandlerStates
  <2>3. QED
    BY <1>7, <2>2, SlotsKept DEF RefundError, Fail
<1>8. ASSUME NEW n \in Spends, Spend(n)
      PROVE  TopUpInv'
  <2>1. n \in Nat /\ wallet.cash \in Int /\ wallet.balance \in Int
    BY TopUpConstants DEF TopUpRows
  <2>2. FromCash(wallet.cash, wallet.balance, n) \in Int
    BY <2>1 DEF FromCash, MinOf, MaxOf
  <2>3. wallet' \in [exists : BOOLEAN, balance : Int, cash : Int]
    <3> DEFINE cash == FromCash(wallet.cash, wallet.balance, n)
    <3>1. cash \in Int
      BY <2>2
    <3>2. wallet' = [wallet EXCEPT !.balance = @ - n, !.cash = @ - cash]
      BY <1>8 DEF Spend
    <3> HIDE DEF cash
    <3>3. /\ wallet.balance - n \in Int /\ wallet.cash - cash \in Int
          /\ wallet.exists \in BOOLEAN
      BY <3>1, <2>1 DEF TopUpRows
    <3>4. wallet' = [exists |-> wallet.exists, balance |-> wallet.balance - n,
                     cash |-> wallet.cash - cash]
      BY <3>2 DEF TopUpRows
    <3>5. QED
      BY <3>3, <3>4
  <2>4. TopUpRows'
    BY <1>8, <2>3 DEF Spend, TopUpRows
  <2>5. QED
    BY <1>8, <2>4, SlotsKept DEF Spend
<1>9. CASE UNCHANGED topUpVars
  <2>1. TopUpRows'
    BY <1>9 DEF topUpVars, TopUpRows
  <2>2. QED
    BY <1>9, <2>1, SlotsKept DEF topUpVars
<1>10. QED
  BY <1>1, <1>2, <1>3, <1>4, <1>5, <1>6, <1>7, <1>8, <1>9,
     CommitCreditInv, CommitRefundInv DEF TopUpsNext, Deliver, Handle

\* However Stripe's events come, and whatever handlers die with them, no payment
\* is credited twice (handleSessionCredit).
THEOREM PaymentsCreditedOnce == TopUpsSpec => []CreditedAtMostOnce
<1>1. TopUpInv => CreditedAtMostOnce
  BY DEF TopUpInv
<1>2. QED
  BY TopUpInit, TopUpStep, <1>1, PTL DEF TopUpsSpec

-----------------------------------------------------------------------------
(* Held royalties.  The invariant counts mints, and is inductive with the  *)
(* types of the rows: a settle and a clawback both look at the row again   *)
(* when they write.                                                        *)

MintStates == {"none", "held", "cleared", "final", "revoked"}

MintRows ==
  /\ mint \in [Mints -> [status : MintStates, until : Nat]]
  /\ hour \in Nat /\ held \in Nat /\ heldIn \in Nat /\ spendable \in Nat
  /\ bonded \in BOOLEAN

OpenMints == MintsThatAre({"held", "cleared"})

FinalMints == MintsThatAre({"final"})

GoneMints == MintsThatAre({"final", "revoked"})

MintInv == MintRows /\ MintsSettleOnce

\* The mints of any status are finitely many.
LEMMA MintsFinite ==
  \A statuses : /\ IsFiniteSet(MintsThatAre(statuses))
                /\ Cardinality(MintsThatAre(statuses)) \in Nat
<1> SUFFICES ASSUME NEW statuses
             PROVE  /\ IsFiniteSet(MintsThatAre(statuses))
                    /\ Cardinality(MintsThatAre(statuses)) \in Nat
  OBVIOUS
<1>1. MintsThatAre(statuses) \in SUBSET Mints
  BY DEF MintsThatAre
<1>2. QED
  BY <1>1, HeldAssumption, FS_Subset, FS_CardinalityType

\* The products the balances are.
LEMMA MintProducts ==
  ASSUME NEW n \in Nat
  PROVE  /\ MintAmount * n \in Nat
         /\ MintAmount * (n + 1) = MintAmount * n + MintAmount
         /\ n > 0 => /\ MintAmount * n >= MintAmount
                     /\ MintAmount * (n - 1) = MintAmount * n - MintAmount
BY HeldAssumption

\* Nothing is held at first.
LEMMA MintInit == HeldInit => MintInv
<1> SUFFICES ASSUME HeldInit PROVE MintInv
  OBVIOUS
<1>1. MintRows
  BY DEF HeldInit, MintRows, MintStates
<1>2. OpenMints = {} /\ FinalMints = {} /\ GoneMints = {}
  BY DEF HeldInit, OpenMints, FinalMints, GoneMints, MintsThatAre
<1>0. Cardinality({}) = 0 /\ MintAmount * 0 = 0
  BY FS_EmptySet, HeldAssumption
<1>3. MintsSettleOnce
  BY <1>0, <1>2
     DEF HeldInit, MintsSettleOnce, OpenMints, FinalMints, GoneMints
<1>4. QED
  BY <1>1, <1>3 DEF MintInv

\* A step that keeps the balances and which mints are open, final and gone.
LEMMA MintsStay ==
  ASSUME MintInv, MintRows', UNCHANGED <<held, spendable, bondVars>>,
         OpenMints' = OpenMints, FinalMints' = FinalMints,
         GoneMints' = GoneMints
  PROVE  MintInv'
BY DEF MintInv, MintsSettleOnce, OpenMints, FinalMints, GoneMints, bondVars

\* A mint adds one open row, and to the held balance what it credits: its
\* amount, unless the bond is on.
LEMMA MintServedHitInv ==
  ASSUME MintInv, NEW m \in Mints, MintServedHit(m)
  PROVE  MintInv'
<1> USE DEF MintInv
<1>1. PICK credit \in HeldCredits :
        held' = held + credit /\ heldIn' = heldIn + credit
  BY DEF MintServedHit
<1>2. credit \in Nat /\ (~bonded => credit = MintAmount)
  BY HeldAssumption DEF HeldCredits
<1>3. spendable' = spendable /\ bonded' = bonded
  BY DEF MintServedHit
<1>4. MintRows'
  BY <1>1, <1>2, HeldAssumption DEF MintServedHit, MintRows, MintStates
<1>5. m \notin OpenMints /\ OpenMints' = OpenMints \cup {m}
  BY DEF MintServedHit, OpenMints, MintsThatAre, MintRows
<1>6. FinalMints' = FinalMints /\ GoneMints' = GoneMints
  BY DEF MintServedHit, FinalMints, GoneMints, MintsThatAre, MintRows
<1>7. /\ Cardinality(OpenMints') = Cardinality(OpenMints) + 1
      /\ Cardinality(OpenMints) \in Nat /\ Cardinality(GoneMints) \in Nat
  BY <1>5, MintsFinite, FS_AddElement DEF OpenMints, GoneMints
<1>8. /\ MintAmount * (Cardinality(OpenMints) + 1)
           = MintAmount * Cardinality(OpenMints) + MintAmount
      /\ MintAmount * Cardinality(OpenMints) \in Nat
      /\ MintAmount * Cardinality(GoneMints) \in Nat
  BY <1>7, MintProducts
<1>9. /\ held = heldIn - MintAmount * Cardinality(GoneMints)
      /\ ~bonded => held = MintAmount * Cardinality(OpenMints)
      /\ spendable = MintAmount * Cardinality(FinalMints)
      /\ held \in Nat /\ heldIn \in Nat
  BY DEF MintsSettleOnce, OpenMints, FinalMints, GoneMints, MintRows
<1>10. /\ held' = heldIn' - MintAmount * Cardinality(GoneMints')
       /\ held' >= 0
       /\ ~bonded' => held' = MintAmount * Cardinality(OpenMints')
  <2>1. held' = heldIn' - MintAmount * Cardinality(GoneMints) /\ held' >= 0
    BY <1>1, <1>2, <1>8, <1>9
  <2>2. ~bonded => held' = MintAmount * Cardinality(OpenMints')
    BY <1>1, <1>2, <1>7, <1>8, <1>9
  <2>3. QED
    BY <1>3, <1>6, <2>1, <2>2
<1>11. QED
  BY <1>3, <1>4, <1>6, <1>9, <1>10
     DEF MintsSettleOnce, OpenMints, FinalMints, GoneMints

\* A mint leaves the open ones with its amount, settled or clawed back.
LEMMA MintLeaves ==
  ASSUME MintInv, NEW m \in Mints, m \in OpenMints, m \notin GoneMints,
         OpenMints' = OpenMints \ {m}, GoneMints' = GoneMints \cup {m},
         held >= MintAmount, held' = held - MintAmount, UNCHANGED bondVars
  PROVE  /\ held' = heldIn' - MintAmount * Cardinality(GoneMints')
         /\ held' \in Nat
         /\ ~bonded' => held' = MintAmount * Cardinality(OpenMints')
<1>0. heldIn' = heldIn /\ bonded' = bonded
  BY DEF bondVars
<1>1. /\ Cardinality(OpenMints') = Cardinality(OpenMints) - 1
      /\ Cardinality(OpenMints) \in Nat /\ Cardinality(OpenMints) > 0
  <2>1. IsFiniteSet(OpenMints) /\ OpenMints # {}
    BY MintsFinite DEF OpenMints
  <2>2. QED
    BY <2>1, FS_RemoveElement, FS_CardinalityType, FS_EmptySet
<1>2. /\ Cardinality(GoneMints') = Cardinality(GoneMints) + 1
      /\ Cardinality(GoneMints) \in Nat
  BY MintsFinite, FS_AddElement DEF GoneMints
<1>3. /\ held = heldIn - MintAmount * Cardinality(GoneMints)
      /\ ~bonded => held = MintAmount * Cardinality(OpenMints)
      /\ held \in Nat /\ heldIn \in Nat /\ MintAmount \in Nat
  BY HeldAssumption
  DEF MintInv, MintsSettleOnce, OpenMints, GoneMints, MintRows
<1>4. /\ MintAmount * (Cardinality(GoneMints) + 1)
           = MintAmount * Cardinality(GoneMints) + MintAmount
      /\ MintAmount * Cardinality(GoneMints) \in Nat
  BY <1>2, MintProducts
<1>5. /\ MintAmount * (Cardinality(OpenMints) - 1)
           = MintAmount * Cardinality(OpenMints) - MintAmount
      /\ MintAmount * Cardinality(OpenMints) \in Nat
  BY <1>1, MintProducts
<1>6. held' = heldIn - MintAmount * Cardinality(GoneMints') /\ held' \in Nat
  BY <1>2, <1>3, <1>4
<1>7. ~bonded => held' = MintAmount * Cardinality(OpenMints')
  BY <1>1, <1>3, <1>5
<1>8. QED
  BY <1>0, <1>6, <1>7

\* A revocation takes one open row and its amount.
LEMMA RevokeOneInv ==
  ASSUME MintInv, NEW m \in Mints, RevokeOne(m)
  PROVE  MintInv'
<1> USE DEF MintInv
<1>1. CASE MayRevoke(m) /\ held >= MintAmount
  <2>1. /\ mint' = [mint EXCEPT ![m].status = "revoked"]
        /\ held' = held - MintAmount /\ spendable' = spendable /\ hour' = hour
        /\ UNCHANGED bondVars
    BY <1>1 DEF RevokeOne
  <2>2. /\ m \in OpenMints /\ OpenMints' = OpenMints \ {m}
        /\ m \notin GoneMints /\ GoneMints' = GoneMints \cup {m}
        /\ FinalMints' = FinalMints
    BY <1>1, <2>1 DEF MayRevoke, OpenMints, FinalMints, GoneMints,
                      MintsThatAre, MintRows
  <2>3. /\ held' = heldIn' - MintAmount * Cardinality(GoneMints')
        /\ held' \in Nat
        /\ ~bonded' => held' = MintAmount * Cardinality(OpenMints')
    BY <1>1, <2>1, <2>2, MintLeaves
  <2>4. MintRows'
    BY <2>1, <2>3 DEF MintRows, MintStates, bondVars
  <2>5. held' >= 0
    BY <2>3
  <2>6. QED
    BY <2>1, <2>2, <2>3, <2>4, <2>5
       DEF MintsSettleOnce, OpenMints, FinalMints, GoneMints
<1>2. CASE ~ (MayRevoke(m) /\ held >= MintAmount)
  <2>1. UNCHANGED <<mint, held, spendable, bondVars, hour>>
    BY <1>2 DEF RevokeOne
  <2>2. QED
    BY <2>1, MintsStay
       DEF MintRows, OpenMints, FinalMints, GoneMints, MintsThatAre, bondVars
<1>3. QED
  BY <1>1, <1>2

\* A settle moves one open row and its amount.
LEMMA SettleOneInv ==
  ASSUME MintInv, NEW s \in Sweepers, NEW m \in Mints, SettleOne(s, m)
  PROVE  MintInv'
<1> USE DEF MintInv
<1>1. CASE MaySettle(m) /\ held >= MintAmount
  <2>1. /\ mint' = [mint EXCEPT ![m].status = "final"]
        /\ held' = held - MintAmount /\ spendable' = spendable + MintAmount
        /\ hour' = hour /\ UNCHANGED bondVars
    BY <1>1 DEF SettleOne
  <2>2. /\ m \in OpenMints /\ OpenMints' = OpenMints \ {m}
        /\ m \notin GoneMints /\ GoneMints' = GoneMints \cup {m}
        /\ m \notin FinalMints /\ FinalMints' = FinalMints \cup {m}
    BY <1>1, <2>1 DEF MaySettle, SettleStatus, OpenMints, FinalMints,
                      GoneMints, MintsThatAre, MintRows
  <2>3. /\ held' = heldIn' - MintAmount * Cardinality(GoneMints')
        /\ held' \in Nat
        /\ ~bonded' => held' = MintAmount * Cardinality(OpenMints')
    BY <1>1, <2>1, <2>2, MintLeaves
  <2>4. Cardinality(FinalMints') = Cardinality(FinalMints) + 1
        /\ Cardinality(FinalMints) \in Nat
    BY <2>2, MintsFinite, FS_AddElement DEF FinalMints
  <2>5. spendable' = MintAmount * Cardinality(FinalMints')
    BY <2>1, <2>4, MintProducts DEF MintsSettleOnce, FinalMints
  <2>6. MintRows'
    BY <2>1, <2>3, HeldAssumption DEF MintRows, MintStates, bondVars
  <2>7. held' >= 0
    BY <2>3
  <2>8. QED
    BY <2>3, <2>5, <2>6, <2>7
       DEF MintsSettleOnce, OpenMints, FinalMints, GoneMints
<1>2. CASE ~ (MaySettle(m) /\ held >= MintAmount)
  <2>1. UNCHANGED <<mint, held, spendable, bondVars, hour>>
    BY <1>2 DEF SettleOne
  <2>2. QED
    BY <2>1, MintsStay
       DEF MintRows, OpenMints, FinalMints, GoneMints, MintsThatAre, bondVars
<1>3. QED
  BY <1>1, <1>2

\* Every step keeps the invariant.
LEMMA MintStep ==
  ASSUME MintInv, [HeldNext]_heldVars
  PROVE  MintInv'
<1> USE DEF MintInv
<1>1. CASE Clear
  <2>1. \A m \in Mints :
          /\ mint'[m] \in [status : MintStates, until : Nat]
          /\ \/ mint'[m].status = mint[m].status
             \/ mint[m].status = "held" /\ mint'[m].status = "cleared"
    BY <1>1 DEF Clear, MintRows, MintStates
  <2>2. MintRows'
    BY <1>1, <2>1 DEF Clear, MintRows, bondVars
  <2>3. /\ OpenMints' = OpenMints /\ FinalMints' = FinalMints
        /\ GoneMints' = GoneMints
    BY <2>1 DEF OpenMints, FinalMints, GoneMints, MintsThatAre
  <2>4. QED
    BY <1>1, <2>2, <2>3, MintsStay DEF Clear
<1>2. ASSUME UNCHANGED <<mint, held, spendable, bondVars>>, hour' \in Nat
      PROVE  MintInv'
  BY <1>2, MintsStay
     DEF MintRows, OpenMints, FinalMints, GoneMints, MintsThatAre, bondVars
<1>3. CASE NextHour
  BY <1>2, <1>3 DEF NextHour, MintRows
<1>4. CASE \E q \in Requesters : LinkAppears(q)
  BY <1>2, <1>4 DEF LinkAppears, MintRows
<1>5. CASE Examine \/ Detect
  BY <1>2, <1>5 DEF Examine, Detect, MintRows
<1>6. CASE \E s \in Sweepers : SelectDue(s) \/ SweepEnds(s)
  BY <1>2, <1>6 DEF SelectDue, SweepEnds, MintRows
<1>7. CASE UNCHANGED heldVars
  BY <1>2, <1>7 DEF heldVars, MintRows
<1>8. QED
  BY <1>1, <1>3, <1>4, <1>5, <1>6, <1>7, MintServedHitInv, RevokeOneInv,
     SettleOneInv DEF HeldNext

\* Each finalized mint was paid once, each mint left the held balance once and
\* never for more than mints had credited, and while the bond is off the held
\* balance is always what the open mints are owed (settleOne, revokeOne).
THEOREM MintsAlwaysSettleOnce == HeldSpec => []MintsSettleOnce
<1>1. MintInv => MintsSettleOnce
  BY DEF MintInv
<1>2. QED
  BY MintInit, MintStep, <1>1, PTL DEF HeldSpec

-----------------------------------------------------------------------------
(* Node collateral.  The locked balance covers the amounts on record,      *)
(* since each step moves a record and the balances by the same amount, or  *)
(* the record by more.                                                     *)

StakeRow == [status : {"none", "active", "unbonding", "released", "slashed"},
             amount : Nat, slashed : Nat, unbondAt : Nat]

StakeRows ==
  /\ free \in Nat /\ locked \in Nat /\ burned \in Nat /\ today \in Nat
  /\ stake \in [Nodes -> StakeRow]

CollateralInv == StakeRows /\ CollateralReconciles

\* A quotient rounded down is at most q when q + 1 divisors exceed the dividend.
LEMMA QuotientBound ==
  ASSUME NEW x \in Nat, NEW d \in Nat \ {0}, NEW q \in Nat, x < (q + 1) * d
  PROVE  x \div d \in Nat /\ x \div d <= q
<1>1. x \div d \in Int /\ x = d * (x \div d) + (x % d) /\ x % d \in 0..(d - 1)
  OBVIOUS
<1>2. ASSUME x \div d >= q + 1 PROVE FALSE
  <2>1. d * (x \div d) >= d * (q + 1)
    BY <1>1, <1>2
  <2>2. QED
    BY <1>1, <2>1
<1>3. ASSUME x \div d < 0 PROVE FALSE
  <2>1. d * (x \div d) <= d * (-1)
    BY <1>1, <1>3
  <2>2. QED
    BY <1>1, <2>1
<1>4. QED
  BY <1>1, <1>2, <1>3

\* A slash, rounded up, takes no more than there is (mining.MulCeil).
LEMMA SlashWithinAmount ==
  ASSUME NEW amount \in Nat
  PROVE  SlashAmount(amount) \in Nat /\ SlashAmount(amount) <= amount
<1> DEFINE x == amount * SlashNum + SlashDen - 1
<1>1. /\ SlashNum \in Nat /\ SlashDen \in Nat \ {0} /\ SlashNum <= SlashDen
      /\ SlashDen \in Nat
  BY StakeAssumption
<1>2. /\ amount * SlashNum \in Nat
      /\ amount * SlashNum <= amount * SlashDen
  BY <1>1
<1>3. (amount + 1) * SlashDen = amount * SlashDen + SlashDen
  BY <1>1
<1>4. x \in Nat /\ x < (amount + 1) * SlashDen
  BY <1>1, <1>2, <1>3
<1>5. x \div SlashDen \in Nat /\ x \div SlashDen <= amount
  BY <1>1, <1>4, QuotientBound
<1>6. QED
  BY <1>5 DEF SlashAmount

\* The record a slash leaves.
LEMMA SlashRow ==
  ASSUME NEW st \in StakeRow, NEW a \in Nat, a <= st.amount
  PROVE  /\ SlashRecorded(st, a) \in StakeRow
         /\ SlashRecorded(st, a).amount = st.amount - a
<1> DEFINE status == IF st.amount = a THEN "slashed" ELSE st.status
<1>1. SlashRecorded(st, a) = [st EXCEPT !.amount = st.amount - a,
                                        !.slashed = st.slashed + a,
                                        !.status = status]
  BY DEF SlashRecorded, StakeRow
<1>2. /\ st.amount - a \in Nat /\ st.slashed + a \in Nat
      /\ status \in {"none", "active", "unbonding", "released", "slashed"}
  BY DEF StakeRow
<1> HIDE DEF status
<1>3. QED
  BY <1>1, <1>2 DEF StakeRow

\* The collateral moves with the one record a step writes.
LEMMA CollateralMoves ==
  ASSUME StakeRows, NEW n \in Nodes, NEW row \in StakeRow,
         stake' = [stake EXCEPT ![n] = row]
  PROVE  /\ Collateral' = Collateral - stake[n].amount + row.amount
         /\ Collateral \in Nat
<1> DEFINE f == [m \in Nodes |-> stake[m].amount]
           g == [m \in Nodes |-> stake'[m].amount]
<1>1. f \in [Nodes -> Nat] /\ f[n] = stake[n].amount
  BY DEF StakeRows, StakeRow
<1>2. /\ g \in [Nodes -> Nat] /\ g[n] = row.amount
      /\ \A m \in Nodes \ {n} : g[m] = f[m]
  BY DEF StakeRows, StakeRow
<1>3. Collateral = Total(f) /\ Collateral' = Total(g)
  BY DEF Collateral
<1> HIDE DEF f, g
<1>4. Total(g) = Total(f) - f[n] + g[n] /\ Total(f) \in Nat
  BY <1>1, <1>2, StakeAssumption, TotalUpdate, TotalNat
<1>5. QED
  BY <1>1, <1>2, <1>3, <1>4

\* Nothing is staked at first.
LEMMA CollateralInit == StakeInit => CollateralInv
<1> SUFFICES ASSUME StakeInit PROVE CollateralInv
  OBVIOUS
<1>1. StakeRows
  BY StakeAssumption DEF StakeInit, StakeRows, StakeRow, NoStake
<1>2. Collateral = 0
  <2> DEFINE f == [n \in Nodes |-> stake[n].amount]
  <2>1. f \in [Nodes -> Nat] /\ \A n \in Nodes : f[n] = 0
    BY DEF StakeInit, NoStake
  <2> HIDE DEF f
  <2>2. Total(f) = 0
    BY <2>1, TotalZero
  <2>3. QED
    BY <2>2 DEF f, Collateral
<1>3. QED
  BY <1>1, <1>2, StakeAssumption DEF CollateralInv, CollateralReconciles, StakeInit

\* Where a challenger is, by what it has done: a challenger past its claim is
\* the only one past it on its receipt, whose challenge is pending; until it
\* slashes, and when it heard the node pass, the receipt has cost nothing.
PastClaim(c) == challenger[c].pc \in {"ask", "slash", "write"}

ChallengerRow == [pc : {"idle", "claim", "ask", "slash", "write"},
                  receipt : Receipts \cup {NoReceipt},
                  result : {"none", "pass", "fail", "timeout"}, slashed : Nat]

ChallengeRows ==
  /\ challenger \in [Challengers -> ChallengerRow]
  /\ \A c \in Challengers : challenger[c].pc # "idle"
                              => challenger[c].receipt \in Receipts
  /\ challenge \in [Receipts -> [result : {"none", "pending", "pass", "fail",
                                          "timeout"}, slashed : Nat]]
  /\ slashes \in [Receipts -> Nat]

ChallengersInTurn ==
  \A c \in Challengers : PastClaim(c) =>
    /\ challenge[challenger[c].receipt].result = "pending"
    /\ \A d \in Challengers : PastClaim(d) /\ challenger[d].receipt
                                               = challenger[c].receipt => d = c
    /\ challenger[c].pc \in {"ask", "slash"} =>
         slashes[challenger[c].receipt] = 0
    /\ challenger[c].pc = "slash" => challenger[c].result \notin {"none", "pass"}
    /\ challenger[c].pc = "write" => /\ challenger[c].result # "none"
                                     /\ challenger[c].result = "pass" =>
                                          slashes[challenger[c].receipt] = 0

ChallengeInv == ChallengeRows /\ ChallengersInTurn /\ SlashedOncePerReceipt

\* Nobody is challenged at first.
LEMMA ChallengeInit == StakeInit => ChallengeInv
BY StakeAssumption
   DEF StakeInit, ChallengeInv, ChallengeRows, ChallengersInTurn,
       SlashedOncePerReceipt, PastClaim, ChallengerRow, IdleChallenger,
       NotChallenged

\* One challenger moves to row, and the record of its receipt stays.
LEMMA ChallengerMoves ==
  ASSUME ChallengeInv, NEW c \in Challengers, NEW row \in ChallengerRow,
         challenger' = [challenger EXCEPT ![c] = row],
         UNCHANGED <<challenge, slashes>>,
         \/ row.pc = "idle"
         \/ row.pc = "claim" /\ row.receipt \in Receipts
         \/ /\ row.pc \in {"ask", "slash", "write"} /\ PastClaim(c)
            /\ row.receipt = challenger[c].receipt
            /\ slashes[row.receipt] = 0
            /\ row.pc = "slash" => row.result \notin {"none", "pass"}
            /\ row.pc = "write" => row.result # "none"
         \/ /\ row.pc = "write" /\ PastClaim(c)
            /\ row.receipt = challenger[c].receipt
            /\ row.result \notin {"none", "pass"}
  PROVE  ChallengeInv'
<1> USE DEF ChallengeInv
<1>1. /\ challenger'[c] = row
      /\ \A d \in Challengers \ {c} : challenger'[d] = challenger[d]
  BY DEF ChallengeRows
<1>2. challenger' \in [Challengers -> ChallengerRow]
  BY DEF ChallengeRows
<1>3. ChallengeRows'
  BY <1>1, <1>2 DEF ChallengeRows, PastClaim
<1>4. ChallengersInTurn'
  BY <1>1 DEF ChallengersInTurn, PastClaim
<1>5. SlashedOncePerReceipt'
  BY DEF SlashedOncePerReceipt
<1>6. QED
  BY <1>3, <1>4, <1>5

\* Every step keeps the challenges' invariant.
LEMMA ChallengeStep ==
  ASSUME ChallengeInv, StakeRows, [StakeNext]_stakeVars
  PROVE  ChallengeInv'
<1> USE DEF ChallengeInv
<1>1. ASSUME UNCHANGED <<challenge, challenger, slashes>>
      PROVE  ChallengeInv'
  BY <1>1 DEF ChallengeRows, ChallengersInTurn, SlashedOncePerReceipt, PastClaim
<1>2. CASE \E n \in Nodes : (\E a \in StakeAmounts : Stake(n, a))
                             \/ Unbond(n) \/ Release(n)
  BY <1>1, <1>2 DEF Stake, Unbond, Release
<1>3. CASE NextDay \/ UNCHANGED stakeVars
  BY <1>1, <1>3 DEF NextDay, stakeVars
<1>4. IdleChallenger \in ChallengerRow /\ IdleChallenger.pc = "idle"
  BY DEF IdleChallenger, ChallengerRow
<1>5. ASSUME NEW c \in Challengers, NEW r \in Receipts, Look(c, r)
      PROVE  ChallengeInv'
  <2> DEFINE row == [IdleChallenger EXCEPT !.pc = "claim", !.receipt = r]
  <2>1. row \in ChallengerRow /\ row.pc = "claim" /\ row.receipt \in Receipts
    BY DEF IdleChallenger, ChallengerRow
  <2> HIDE DEF row
  <2>2. QED
    BY <1>5, <2>1, ChallengerMoves DEF Look, row
<1>6. ASSUME NEW c \in Challengers, Claim(c)
      PROVE  ChallengeInv'
  <2> DEFINE r == challenger[c].receipt
             row == [challenger[c] EXCEPT !.pc = "ask"]
  <2>1. r \in Receipts /\ challenger[c] \in ChallengerRow
    BY <1>6 DEF Claim, ChallengeRows
  <2>2. CASE AlreadyChallenged(r)
    BY <1>4, <1>6, <2>2, ChallengerMoves DEF Claim, Record
  <2>3. CASE ~AlreadyChallenged(r)
    <3>1. /\ challenge' = [challenge EXCEPT ![r].result = "pending"]
          /\ challenger' = [challenger EXCEPT ![c] = row]
          /\ slashes' = slashes
      BY <1>6, <2>3 DEF Claim, Record, ChallengeRows
    <3>2. challenge[r].result = "none" /\ slashes[r] = 0
      BY <2>1, <2>3 DEF AlreadyChallenged, SlashedOncePerReceipt
    <3>3. row \in ChallengerRow /\ row.pc = "ask" /\ row.receipt = r
      BY <2>1 DEF ChallengerRow
    <3> HIDE DEF row
    <3>4. /\ challenger'[c] = row
          /\ \A d \in Challengers \ {c} : challenger'[d] = challenger[d]
      BY <3>1 DEF ChallengeRows
    <3>5. /\ challenge' \in [Receipts -> [result : {"none", "pending", "pass",
                                    "fail", "timeout"}, slashed : Nat]]
          /\ challenge'[r].result = "pending"
          /\ \A s \in Receipts \ {r} : challenge'[s] = challenge[s]
      BY <3>1, <2>1 DEF ChallengeRows
    <3>6. ChallengeRows'
      BY <3>1, <3>3, <3>4, <3>5, <2>1 DEF ChallengeRows
    <3>7. \A d \in Challengers : PastClaim(d) => challenger[d].receipt # r
      BY <3>2 DEF ChallengersInTurn
    <3>8. \A d \in Challengers \ {c} : PastClaim(d)' <=> PastClaim(d)
      BY <3>4 DEF PastClaim
    <3>9. \A d \in Challengers : PastClaim(d) => challenger[d].receipt \in Receipts
      BY DEF PastClaim, ChallengeRows
    <3>10. ChallengersInTurn'
      BY <3>1, <3>2, <3>3, <3>4, <3>5, <3>7, <3>8, <3>9, <2>1
         DEF ChallengersInTurn
    <3>11. SlashedOncePerReceipt'
      BY <3>1, <3>2, <3>5, <2>1 DEF SlashedOncePerReceipt
    <3>12. QED
      BY <3>6, <3>10, <3>11
  <2>4. QED
    BY <2>2, <2>3
<1>7. ASSUME NEW c \in Challengers, NEW result \in {"pass", "fail", "timeout"},
             Hear(c, result)
      PROVE  ChallengeInv'
  <2> DEFINE row == [challenger[c] EXCEPT
                       !.pc = IF result = "pass" THEN "write" ELSE "slash",
                       !.result = result]
  <2>1. challenger[c] \in ChallengerRow /\ PastClaim(c)
        /\ slashes[challenger[c].receipt] = 0
    BY <1>7 DEF Hear, ChallengeRows, PastClaim, ChallengersInTurn
  <2>2. /\ row \in ChallengerRow /\ row.pc \in {"slash", "write"}
        /\ row.receipt = challenger[c].receipt /\ row.result # "none"
        /\ row.pc = "slash" => row.result # "pass"
    BY <2>1 DEF ChallengerRow
  <2>3. challenger' = [challenger EXCEPT ![c] = row]
        /\ UNCHANGED <<challenge, slashes>>
    BY <1>7 DEF Hear, ChallengeRows
  <2> HIDE DEF row
  <2>4. slashes[row.receipt] = 0 /\ row.pc \in {"ask", "slash", "write"}
    BY <2>1, <2>2
  <2>5. QED
    BY <2>1, <2>2, <2>3, <2>4, ChallengerMoves
<1>8. ASSUME NEW c \in Challengers, Slash(c)
      PROVE  ChallengeInv'
  <2>1. PICK r \in Receipts : r = challenger[c].receipt
    BY <1>8 DEF Slash, ChallengeRows
  <2> DEFINE n == ServedBy[r]
             a == SlashAmount(stake[n].amount)
  <2>2. /\ challenger[c] \in ChallengerRow /\ PastClaim(c)
        /\ slashes[r] = 0 /\ challenge[r].result = "pending"
        /\ challenger[c].result \notin {"none", "pass"}
    BY <1>8, <2>1 DEF Slash, ChallengeRows, PastClaim, ChallengersInTurn
  <2>3. CASE ~ (Slashable(stake[n]) /\ locked >= a)
    <3> DEFINE row == [challenger[c] EXCEPT !.pc = "write"]
    <3>1. row \in ChallengerRow /\ row.pc = "write" /\ row.receipt = r
          /\ row.result # "none"
      BY <2>1, <2>2 DEF ChallengerRow
    <3>2. challenger' = [challenger EXCEPT ![c] = row]
          /\ UNCHANGED <<challenge, slashes>>
      BY <1>8, <2>1, <2>3 DEF Slash, ChallengeRows
    <3> HIDE DEF row
    <3>3. QED
      BY <2>1, <2>2, <3>1, <3>2, ChallengerMoves
  <2>4. CASE Slashable(stake[n]) /\ locked >= a
    <3> DEFINE row == [challenger[c] EXCEPT !.pc = "write", !.slashed = a]
    <3>1. a \in Nat
      BY <2>1, StakeAssumption, SlashWithinAmount DEF StakeRows, StakeRow
    <3>2. row \in ChallengerRow /\ row.pc = "write" /\ row.receipt = r
          /\ row.result \notin {"none", "pass"}
      BY <2>1, <2>2, <3>1 DEF ChallengerRow
    <3>3. /\ challenger' = [challenger EXCEPT ![c] = row]
          /\ challenge' = challenge
          /\ slashes' = [slashes EXCEPT ![r] = @ + 1]
      BY <1>8, <2>1, <2>4 DEF Slash, ChallengeRows
    <3> HIDE DEF row
    <3>4. /\ challenger'[c] = row
          /\ \A d \in Challengers \ {c} : challenger'[d] = challenger[d]
      BY <3>3 DEF ChallengeRows
    <3>5. /\ slashes' \in [Receipts -> Nat] /\ slashes'[r] = 1
          /\ \A s \in Receipts \ {r} : slashes'[s] = slashes[s]
      BY <3>3, <2>2 DEF ChallengeRows
    <3>6. ChallengeRows'
      BY <3>2, <3>3, <3>4, <3>5 DEF ChallengeRows
    <3>7. \A d \in Challengers \ {c} :
            PastClaim(d) => challenger[d].receipt \in Receipts \ {r}
      BY <2>1, <2>2 DEF ChallengersInTurn, ChallengeRows, PastClaim
    <3>8. PastClaim(c)' /\ \A d \in Challengers \ {c} : PastClaim(d)' <=> PastClaim(d)
      BY <3>2, <3>4 DEF PastClaim
    <3>9. ChallengersInTurn'
      BY <2>1, <2>2, <3>2, <3>3, <3>4, <3>5, <3>7, <3>8 DEF ChallengersInTurn
    <3>10. SlashedOncePerReceipt'
      BY <2>2, <3>3, <3>5 DEF SlashedOncePerReceipt
    <3>11. QED
      BY <3>6, <3>9, <3>10
  <2>5. QED
    BY <2>3, <2>4
<1>9. ASSUME NEW c \in Challengers, UpdateResult(c)
      PROVE  ChallengeInv'
  <2>1. PICK r \in Receipts : r = challenger[c].receipt
    BY <1>9 DEF UpdateResult, ChallengeRows
  <2> DEFINE row == [result |-> challenger[c].result,
                     slashed |-> challenger[c].slashed]
  <2>2. /\ challenger[c] \in ChallengerRow /\ PastClaim(c)
        /\ challenger[c].result # "none"
        /\ challenger[c].result = "pass" => slashes[r] = 0
    BY <1>9, <2>1 DEF UpdateResult, ChallengeRows, PastClaim, ChallengersInTurn
  <2>3. /\ challenger' = [challenger EXCEPT ![c] = IdleChallenger]
        /\ challenge' = [challenge EXCEPT ![r] = row]
        /\ slashes' = slashes
    BY <1>9, <2>1 DEF UpdateResult
  <2>4. /\ row \in [result : {"none", "pending", "pass", "fail", "timeout"},
                    slashed : Nat]
        /\ row.result # "none"
        /\ row.result = "pass" => slashes[r] = 0
    BY <2>2 DEF ChallengerRow
  <2> HIDE DEF row
  <2>5. /\ challenger'[c] = IdleChallenger
        /\ \A d \in Challengers \ {c} : challenger'[d] = challenger[d]
    BY <2>3 DEF ChallengeRows
  <2>6. /\ challenge' \in [Receipts -> [result : {"none", "pending", "pass",
                                    "fail", "timeout"}, slashed : Nat]]
        /\ challenge'[r] = row
        /\ \A s \in Receipts \ {r} : challenge'[s] = challenge[s]
    BY <2>3, <2>4 DEF ChallengeRows
  <2>7. ChallengeRows'
    BY <1>4, <2>3, <2>5, <2>6 DEF ChallengeRows
  <2>8. \A d \in Challengers \ {c} :
          PastClaim(d) => challenger[d].receipt \in Receipts \ {r}
    BY <2>1, <2>2 DEF ChallengersInTurn, ChallengeRows, PastClaim
  <2>9. ~PastClaim(c)' /\ \A d \in Challengers \ {c} : PastClaim(d)' <=> PastClaim(d)
    BY <1>4, <2>5 DEF PastClaim
  <2>10. ChallengersInTurn'
    BY <2>3, <2>5, <2>6, <2>8, <2>9 DEF ChallengersInTurn
  <2>11. SlashedOncePerReceipt'
    BY <2>3, <2>4, <2>6 DEF SlashedOncePerReceipt
  <2>12. QED
    BY <2>7, <2>10, <2>11
<1>10. ASSUME NEW c \in Challengers, ChallengerDies(c)
       PROVE  ChallengeInv'
  BY <1>4, <1>10, ChallengerMoves DEF ChallengerDies
<1>11. QED
  BY <1>2, <1>3, <1>5, <1>6, <1>7, <1>8, <1>9, <1>10 DEF StakeNext

\* Every step keeps the collateral.
LEMMA CollateralStep ==
  ASSUME CollateralInv, ChallengeInv, [StakeNext]_stakeVars
  PROVE  CollateralInv'
<1> USE DEF CollateralInv
<1>1. ASSUME NEW n \in Nodes, NEW a \in StakeAmounts, Stake(n, a)
      PROVE  CollateralInv'
  <2> DEFINE row == Staked(stake[n], a)
  <2>1. a \in Nat /\ stake[n] \in StakeRow
    BY StakeAssumption DEF StakeRows
  <2>2. row \in StakeRow /\ row.amount <= stake[n].amount + a
    BY <2>1 DEF Staked, StakeRow
  <2>3. stake' = [stake EXCEPT ![n] = row]
    BY <1>1 DEF Stake
  <2> HIDE DEF row
  <2>4. /\ Collateral' = Collateral - stake[n].amount + row.amount
        /\ Collateral \in Nat
    BY <2>2, <2>3, CollateralMoves
  <2>5. /\ free >= a /\ free' = free - a /\ locked' = locked + a
        /\ burned' = burned /\ today' = today
    BY <1>1 DEF Stake
  <2>6. StakeRows'
    BY <2>1, <2>2, <2>3, <2>5 DEF StakeRows
  <2>7. stake[n].amount \in Nat /\ row.amount \in Nat
    BY <2>1, <2>2 DEF StakeRow
  <2>8. QED
    BY <2>1, <2>2, <2>4, <2>5, <2>6, <2>7, StakeAssumption
       DEF CollateralReconciles, StakeRows
<1>2. ASSUME NEW n \in Nodes, Unbond(n)
      PROVE  CollateralInv'
  <2> DEFINE row == [stake[n] EXCEPT !.status = "unbonding",
                                     !.unbondAt = today + UnbondPeriod]
  <2>1. stake[n] \in StakeRow /\ today + UnbondPeriod \in Nat
    BY StakeAssumption DEF StakeRows
  <2>2. row \in StakeRow /\ row.amount = stake[n].amount
    BY <2>1 DEF StakeRow
  <2>3. stake' = [stake EXCEPT ![n] = row]
    BY <1>2 DEF Unbond, StakeRows
  <2> HIDE DEF row
  <2>4. /\ Collateral' = Collateral - stake[n].amount + row.amount
        /\ Collateral \in Nat
    BY <2>2, <2>3, CollateralMoves
  <2>5. /\ free' = free /\ locked' = locked /\ burned' = burned
        /\ today' = today
    BY <1>2 DEF Unbond
  <2>6. StakeRows'
    BY <2>2, <2>3, <2>5 DEF StakeRows
  <2>7. stake[n].amount \in Nat
    BY <2>1 DEF StakeRow
  <2>8. QED
    BY <2>2, <2>4, <2>5, <2>6, <2>7 DEF CollateralReconciles
<1>3. ASSUME NEW n \in Nodes, Release(n)
      PROVE  CollateralInv'
  <2> DEFINE row == [stake[n] EXCEPT !.status = "released", !.amount = 0]
  <2>1. stake[n] \in StakeRow
    BY DEF StakeRows
  <2>2. row \in StakeRow /\ row.amount = 0
    BY <2>1 DEF StakeRow
  <2>3. stake' = [stake EXCEPT ![n] = row]
    BY <1>3 DEF Release, StakeRows
  <2> HIDE DEF row
  <2>4. /\ Collateral' = Collateral - stake[n].amount + row.amount
        /\ Collateral \in Nat
    BY <2>2, <2>3, CollateralMoves
  <2>5. /\ locked >= stake[n].amount /\ free' = free + stake[n].amount
        /\ locked' = locked - stake[n].amount
        /\ burned' = burned /\ today' = today
    BY <1>3 DEF Release
  <2>6. stake[n].amount \in Nat
    BY <2>1 DEF StakeRow
  <2>7. StakeRows'
    BY <2>2, <2>3, <2>5, <2>6 DEF StakeRows
  <2>8. QED
    BY <2>2, <2>4, <2>5, <2>6, <2>7, StakeAssumption
       DEF CollateralReconciles, StakeRows
<1>4. ASSUME NEW n \in Nodes, NEW a \in Nat, a = SlashAmount(stake[n].amount),
             locked >= a, locked' = locked - a, burned' = burned + a,
             stake' = [stake EXCEPT ![n] = SlashRecorded(@, a)],
             free' = free, today' = today
      PROVE  CollateralInv'
  <2> DEFINE row == SlashRecorded(stake[n], a)
  <2>1. stake[n] \in StakeRow /\ stake[n].amount \in Nat
    BY DEF StakeRows, StakeRow
  <2>2. a <= stake[n].amount
    BY <1>4, <2>1, SlashWithinAmount
  <2>3. row \in StakeRow /\ row.amount = stake[n].amount - a
    BY <2>1, <2>2, SlashRow
  <2>4. stake' = [stake EXCEPT ![n] = row]
    BY <1>4
  <2> HIDE DEF row
  <2>5. /\ Collateral' = Collateral - stake[n].amount + row.amount
        /\ Collateral \in Nat
    BY <2>3, <2>4, CollateralMoves
  <2>6. StakeRows'
    BY <1>4, <2>3, <2>4 DEF StakeRows
  <2>7. QED
    BY <1>4, <2>1, <2>3, <2>5, <2>6, StakeAssumption
       DEF CollateralReconciles, StakeRows
<1>5. ASSUME UNCHANGED <<free, locked, burned, stake>>, today' \in Nat
      PROVE  CollateralInv'
  BY <1>5 DEF StakeRows, CollateralReconciles, Collateral
<1>6. ASSUME NEW c \in Challengers, Slash(c), challenger[c].receipt \in Receipts
      PROVE  CollateralInv'
  <2> DEFINE n == ServedBy[challenger[c].receipt]
             a == SlashAmount(stake[n].amount)
  <2>1. n \in Nodes
    BY <1>6, StakeAssumption
  <2>2. a \in Nat
    BY <2>1, SlashWithinAmount DEF StakeRows, StakeRow
  <2>3. CASE Slashable(stake[n]) /\ locked >= a
    BY <1>4, <1>6, <2>1, <2>2, <2>3 DEF Slash
  <2>4. CASE ~ (Slashable(stake[n]) /\ locked >= a)
    BY <1>5, <1>6, <2>4 DEF Slash, StakeRows
  <2>5. QED
    BY <2>3, <2>4
<1>7. ASSUME NEW c \in Challengers, Slash(c)
      PROVE  CollateralInv'
  <2>1. challenger[c].receipt \in Receipts
    BY <1>7 DEF Slash, ChallengeInv, ChallengeRows
  <2>2. QED
    BY <1>6, <1>7, <2>1
<1>8. CASE NextDay
  BY <1>5, <1>8 DEF NextDay, StakeRows
<1>9. ASSUME NEW c \in Challengers,
             \/ \E r \in Receipts : Look(c, r)
             \/ Claim(c)
             \/ \E result \in {"pass", "fail", "timeout"} : Hear(c, result)
             \/ UpdateResult(c)
             \/ ChallengerDies(c)
      PROVE  CollateralInv'
  BY <1>5, <1>9 DEF Look, Claim, Hear, UpdateResult, ChallengerDies, StakeRows
<1>10. CASE UNCHANGED stakeVars
  BY <1>5, <1>10 DEF stakeVars, StakeRows
<1>11. QED
  BY <1>1, <1>2, <1>3, <1>7, <1>8, <1>9, <1>10 DEF StakeNext

\* A receipt costs its node collateral at most once, whichever servers challenge
\* it and wherever they die (Challenge).
THEOREM ReceiptsSlashedOnce == StakeSpec => []SlashedOncePerReceipt
<1>1. StakeInit => CollateralInv /\ ChallengeInv
  BY CollateralInit, ChallengeInit
<1>2. CollateralInv /\ ChallengeInv /\ [StakeNext]_stakeVars
        => CollateralInv' /\ ChallengeInv'
  BY CollateralStep, ChallengeStep DEF CollateralInv
<1>3. ChallengeInv => SlashedOncePerReceipt
  BY DEF ChallengeInv
<1>4. QED
  BY <1>1, <1>2, <1>3, PTL DEF StakeSpec

\* No LENS is made or lost, and the locked balance always covers every stake on
\* record (stakeInner, Release, Slash).
THEOREM CollateralAlwaysReconciles == StakeSpec => []CollateralReconciles
<1>1. StakeInit => CollateralInv /\ ChallengeInv
  BY CollateralInit, ChallengeInit
<1>2. CollateralInv /\ ChallengeInv /\ [StakeNext]_stakeVars
        => CollateralInv' /\ ChallengeInv'
  BY CollateralStep, ChallengeStep DEF CollateralInv
<1>3. CollateralInv => CollateralReconciles
  BY DEF CollateralInv
<1>4. QED
  BY <1>1, <1>2, <1>3, PTL DEF StakeSpec

-----------------------------------------------------------------------------
(* Payments outside Talyvor.  The partner never takes back a failure or a  *)
(* completion but for a return, so what a call was once told stays true    *)
(* enough to be applied however late; and a payment's row says where its   *)
(* money is.                                                               *)

PayStates == {"none", "pending", "sent", "completed", "failed", "returned"}

PartnerBook == {"none", "pending", "completed", "failed", "returned"}

PaymentRow == [status : PayStates, ref : BOOLEAN]

CallRow == [at : {"idle", "paying", "asking", "answered", "done"},
            key : PayKeys \cup {"none"}, ref : BOOLEAN, result : PartnerBook]

OutsideRows ==
  /\ payment \in [PayKeys -> PaymentRow]
  /\ atPartner \in [PayKeys -> [status : PartnerBook, first : PartnerBook]]
  /\ moneyCall \in [Calls -> CallRow]

\* The partner's first answer binds what may become of the payment.
FirstAnswerBinds(rec) ==
  /\ rec.status = "none" <=> rec.first = "none"
  /\ rec.first \in PartnerStates \cup {"none"}
  /\ rec.first = "failed" => rec.status = "failed"
  /\ rec.first = "completed" => rec.status \in {"completed", "returned"}

\* What the partner's book may hold of a payment once it has given the answer.
Bears(rec, answer) ==
  /\ answer # "none" /\ rec.status # "none"
  /\ answer = "failed" => rec.status = "failed"
  /\ answer = "completed" => rec.status \in {"completed", "returned"}
  /\ answer = "returned" => rec.status = "returned"

\* What a call has heard of its payment is borne out by the book.
HeardTrue(call, book) ==
  /\ call.at # "idle" => call.key \in PayKeys
  /\ call.at = "paying" => ~call.ref
  /\ call.at = "answered" => Bears(book[call.key], call.result)
  /\ call.at = "asking" /\ call.ref => book[call.key].status # "none"

\* So is what the payment's row says became of it.
RecordTrue(row, rec) ==
  /\ row.ref => rec.status # "none"
  /\ row.status \in {"completed", "failed", "returned"} => Bears(rec, row.status)

PartnerInv ==
  /\ OutsideRows
  /\ \A k \in PayKeys : FirstAnswerBinds(atPartner[k])
  /\ \A c \in Calls : HeardTrue(moneyCall[c], atPartner)
  /\ \A k \in PayKeys : RecordTrue(payment[k], atPartner[k])

\* Nothing is paid at first.
LEMMA PartnerInit == OutsideInit => PartnerInv
<1> SUFFICES ASSUME OutsideInit PROVE PartnerInv
  OBVIOUS
<1>1. OutsideRows
  BY DEF OutsideInit, OutsideRows, PaymentRow, CallRow, PayStates, PartnerBook,
         NoPayment, NotSent, IdleCall
<1>2. QED
  BY <1>1 DEF OutsideInit, PartnerInv, HeardTrue, RecordTrue,
              FirstAnswerBinds, NoPayment, NotSent, IdleCall

\* A call goes on while the partner's book and the payments stay.
LEMMA CallMoves ==
  ASSUME PartnerInv, NEW c \in Calls, NEW row \in CallRow,
         moneyCall' = [moneyCall EXCEPT ![c] = row],
         UNCHANGED <<payment, atPartner>>, HeardTrue(row, atPartner)
  PROVE  PartnerInv'
<1>1. OutsideRows'
  BY DEF PartnerInv, OutsideRows
<1>2. \A d \in Calls : moneyCall'[d] = moneyCall[d] \/ moneyCall'[d] = row
  BY DEF PartnerInv, OutsideRows
<1>3. QED
  BY <1>1, <1>2 DEF PartnerInv

\* The partner's book goes on in one payment, and still bears out what was
\* answered before.
LEMMA BookMoves ==
  ASSUME PartnerInv, NEW k \in PayKeys,
         NEW rec \in [status : PartnerBook, first : PartnerBook],
         atPartner' = [atPartner EXCEPT ![k] = rec],
         FirstAnswerBinds(rec), rec.status # "none",
         \A answer \in PartnerBook :
           Bears(atPartner[k], answer) => Bears(rec, answer),
         payment' = payment, moneyCall' \in [Calls -> CallRow],
         \A c \in Calls : \/ moneyCall'[c] = moneyCall[c]
                          \/ HeardTrue(moneyCall'[c], atPartner')
  PROVE  PartnerInv'
<1> USE DEF PartnerInv
<1>1. /\ atPartner'[k] = rec
      /\ \A j \in PayKeys \ {k} : atPartner'[j] = atPartner[j]
      /\ atPartner' \in [PayKeys -> [status : PartnerBook, first : PartnerBook]]
  BY DEF OutsideRows
<1>2. OutsideRows'
  BY <1>1 DEF OutsideRows
<1>3. \A j \in PayKeys : FirstAnswerBinds(atPartner'[j])
  BY <1>1
<1>4. ASSUME NEW c \in Calls
      PROVE  HeardTrue(moneyCall'[c], atPartner')
  <2>1. moneyCall[c].result \in PartnerBook
    BY DEF OutsideRows, CallRow
  <2>2. QED
    BY <1>1, <2>1 DEF HeardTrue
<1>5. ASSUME NEW j \in PayKeys
      PROVE  RecordTrue(payment[j], atPartner'[j])
  <2>1. payment[j].status \in {"completed", "failed", "returned"}
          => payment[j].status \in PartnerBook
    BY DEF PartnerBook
  <2>2. RecordTrue(payment[j], atPartner[j])
    OBVIOUS
  <2>3. QED
    BY <1>1, <2>1, <2>2 DEF RecordTrue
<1>6. QED
  BY <1>2, <1>3, <1>4, <1>5

\* The partner's decision contradicts nothing heard or recorded.
LEMMA PartnerDecidesInv ==
  ASSUME PartnerInv, NEW k \in PayKeys, PartnerDecides(k)
  PROVE  PartnerInv'
<1>1. PICK s \in {"completed", "failed", "returned"} :
        /\ \/ atPartner[k].status = "pending" /\ s # "returned"
           \/ atPartner[k].status = "completed" /\ s = "returned"
        /\ atPartner' = [atPartner EXCEPT ![k].status = s]
  BY DEF PartnerDecides
<1> DEFINE rec == [atPartner[k] EXCEPT !.status = s]
<1>2. /\ atPartner[k] \in [status : PartnerBook, first : PartnerBook]
      /\ FirstAnswerBinds(atPartner[k])
  BY DEF PartnerInv, OutsideRows
<1>3. /\ rec \in [status : PartnerBook, first : PartnerBook]
      /\ rec.status = s /\ rec.first = atPartner[k].first
  BY <1>2 DEF PartnerBook
<1>4. atPartner' = [atPartner EXCEPT ![k] = rec]
  BY <1>1 DEF PartnerInv, OutsideRows
<1> HIDE DEF rec
<1>5. FirstAnswerBinds(rec)
  BY <1>1, <1>2, <1>3 DEF FirstAnswerBinds
<1>6. \A answer \in PartnerBook :
        Bears(atPartner[k], answer) => Bears(rec, answer)
  BY <1>1, <1>3 DEF Bears
<1>7. /\ payment' = payment /\ moneyCall' = moneyCall
      /\ moneyCall \in [Calls -> CallRow]
  BY DEF PartnerDecides, PartnerInv, OutsideRows
<1>8. rec.status # "none"
  BY <1>1, <1>3
<1>9. QED
  BY <1>3, <1>4, <1>5, <1>6, <1>7, <1>8, BookMoves

\* A call that ends, having applied nothing.
LEMMA CallEnds ==
  ASSUME PartnerInv, NEW c \in Calls, moneyCall[c].at # "idle"
  PROVE  LET row == [moneyCall[c] EXCEPT !.at = "done"]
         IN  /\ row \in CallRow /\ \A book : HeardTrue(row, book)
             /\ [moneyCall EXCEPT ![c].at = "done"] = [moneyCall EXCEPT ![c] = row]
<1>1. /\ moneyCall[c] \in CallRow /\ moneyCall[c].key \in PayKeys
      /\ moneyCall \in [Calls -> CallRow]
  BY DEF PartnerInv, OutsideRows, HeardTrue
<1>2. QED
  BY <1>1 DEF CallRow, HeardTrue

\* A call to the partner, answered or not, keeps the invariant.
LEMMA SendPaymentInv ==
  ASSUME PartnerInv, NEW c \in Calls, SendPayment(c)
  PROVE  PartnerInv'
<1>1. PICK k \in PayKeys : k = moneyCall[c].key
  BY DEF SendPayment, PartnerInv, HeardTrue
<1>2. /\ atPartner[k] \in [status : PartnerBook, first : PartnerBook]
      /\ FirstAnswerBinds(atPartner[k]) /\ moneyCall[c] \in CallRow
      /\ moneyCall \in [Calls -> CallRow] /\ moneyCall[c].at = "asking"
  BY DEF PartnerInv, OutsideRows, SendPayment
<1> DEFINE ended == [moneyCall[c] EXCEPT !.at = "done"]
<1>3. /\ ended \in CallRow /\ \A book : HeardTrue(ended, book)
      /\ [moneyCall EXCEPT ![c].at = "done"] = [moneyCall EXCEPT ![c] = ended]
  BY <1>2, CallEnds
<1> HIDE DEF ended
<1>4. CASE NoAnswer(c) /\ UNCHANGED atPartner
  BY <1>3, <1>4, CallMoves DEF NoAnswer, SendPayment
<1>5. ASSUME NEW decided \in PartnerStates,
             atPartner' = [atPartner EXCEPT ![k] = PartnerRecord(k, decided)],
             \/ PartnerAnswers(c, PartnerRecord(k, decided).first)
             \/ NoAnswer(c)
      PROVE  PartnerInv'
  <2> DEFINE rec == PartnerRecord(k, decided)
             answered == [moneyCall[c] EXCEPT !.at = "answered", !.result = rec.first]
  <2>1. /\ rec \in [status : PartnerBook, first : PartnerBook]
        /\ FirstAnswerBinds(rec) /\ rec.status # "none"
    BY <1>2 DEF PartnerRecord, PartnerStates, PartnerBook, FirstAnswerBinds
  <2>2. \A answer \in PartnerBook :
          Bears(atPartner[k], answer) => Bears(rec, answer)
    BY DEF PartnerRecord, Bears
  <2>3. Bears(rec, rec.first)
    BY <2>1 DEF Bears, FirstAnswerBinds, PartnerStates
  <2>4. atPartner'[k] = rec
    BY <1>5 DEF PartnerInv, OutsideRows
  <2> HIDE DEF rec
  <2>5. answered \in CallRow /\ HeardTrue(answered, atPartner')
    BY <1>1, <1>2, <2>1, <2>3, <2>4 DEF CallRow, HeardTrue
  <2>6. moneyCall' = [moneyCall EXCEPT ![c] = answered]
        \/ moneyCall' = [moneyCall EXCEPT ![c] = ended]
    BY <1>2, <1>3, <1>5 DEF PartnerAnswers, NoAnswer, rec
  <2> HIDE DEF answered
  <2>7. /\ moneyCall' \in [Calls -> CallRow]
        /\ \A d \in Calls : \/ moneyCall'[d] = moneyCall[d]
                            \/ HeardTrue(moneyCall'[d], atPartner')
    BY <1>2, <1>3, <2>5, <2>6
  <2>8. payment' = payment
    BY DEF SendPayment
  <2>9. QED
    BY <1>5, <2>1, <2>2, <2>7, <2>8, BookMoves DEF rec
<1>6. QED
  BY <1>1, <1>4, <1>5 DEF SendPayment

\* A question about a payment keeps the invariant.
LEMMA PaymentStatusInv ==
  ASSUME PartnerInv, NEW c \in Calls, PaymentStatus(c)
  PROVE  PartnerInv'
<1>1. PICK k \in PayKeys : k = moneyCall[c].key
  BY DEF PaymentStatus, PartnerInv, HeardTrue
<1>2. /\ atPartner[k] \in [status : PartnerBook, first : PartnerBook]
      /\ atPartner[k].status # "none" /\ moneyCall[c] \in CallRow
      /\ moneyCall \in [Calls -> CallRow] /\ moneyCall[c].at = "asking"
  BY <1>1 DEF PartnerInv, OutsideRows, PaymentStatus, HeardTrue
<1> DEFINE ended == [moneyCall[c] EXCEPT !.at = "done"]
           answered == [moneyCall[c] EXCEPT !.at = "answered",
                                            !.result = atPartner[k].status]
<1>3. /\ ended \in CallRow /\ \A book : HeardTrue(ended, book)
      /\ [moneyCall EXCEPT ![c].at = "done"] = [moneyCall EXCEPT ![c] = ended]
  BY <1>2, CallEnds
<1>4. answered \in CallRow /\ HeardTrue(answered, atPartner)
  BY <1>1, <1>2 DEF CallRow, HeardTrue, Bears
<1>5. moneyCall' = [moneyCall EXCEPT ![c] = answered]
      \/ moneyCall' = [moneyCall EXCEPT ![c] = ended]
  BY <1>1, <1>2, <1>3 DEF PaymentStatus, PartnerAnswers, NoAnswer
<1>6. UNCHANGED <<payment, atPartner>>
  BY DEF PaymentStatus
<1> HIDE DEF ended, answered
<1>7. QED
  BY <1>3, <1>4, <1>5, <1>6, CallMoves

\* Where a payment goes on a result that the partner's book bears out.
LEMMA ReachesTrue ==
  ASSUME PartnerInv, NEW k \in PayKeys, NEW result \in PartnerBook,
         Bears(atPartner[k], result)
  PROVE  /\ Reaches(k, result) \in PayStates
         /\ Reaches(k, result) \in {"completed", "failed", "returned"} =>
              Bears(atPartner[k], Reaches(k, result))
<1>1. payment[k].status \in PayStates /\ RecordTrue(payment[k], atPartner[k])
  BY DEF PartnerInv, OutsideRows, PaymentRow
<1>2. result \in {"pending", "completed", "failed", "returned"}
  BY DEF Bears, PartnerBook
<1>3. QED
  BY <1>1, <1>2 DEF Reaches, StillOpen, PayStates, RecordTrue, Bears

\* An answer applied, old or new, keeps the invariant.
LEMMA ApplyPartnerInv ==
  ASSUME PartnerInv, NEW c \in Calls, ApplyPartnerResult(c)
  PROVE  PartnerInv'
<1>1. PICK k \in PayKeys : k = moneyCall[c].key
  BY DEF ApplyPartnerResult, PartnerInv, HeardTrue
<1> DEFINE result == moneyCall[c].result
           to == Reaches(k, result)
           ended == [moneyCall[c] EXCEPT !.at = "done"]
           known == payment[k].ref \/ atPartner[k].status # "none"
           row == [payment[k] EXCEPT !.status = to, !.ref = known]
<1>2. /\ result \in PartnerBook /\ Bears(atPartner[k], result)
      /\ moneyCall[c].at # "idle"
  BY <1>1 DEF ApplyPartnerResult, PartnerInv, OutsideRows, CallRow, HeardTrue
<1>3. /\ ended \in CallRow /\ \A book : HeardTrue(ended, book)
      /\ [moneyCall EXCEPT ![c].at = "done"] = [moneyCall EXCEPT ![c] = ended]
  BY <1>2, CallEnds
<1>4. atPartner' = atPartner /\ moneyCall' = [moneyCall EXCEPT ![c] = ended]
  BY <1>3 DEF ApplyPartnerResult
<1>5. CASE payment' = payment
  BY <1>3, <1>4, <1>5, CallMoves
<1>6. CASE payment' # payment
  <2>1. payment' = [payment EXCEPT ![k].status = to,
                      ![k].ref = @ \/ atPartner[k].status # "none"]
    BY <1>1, <1>6 DEF ApplyPartnerResult
  <2>2. payment[k] \in PaymentRow /\ payment \in [PayKeys -> PaymentRow]
    BY DEF PartnerInv, OutsideRows
  <2>3. payment' = [payment EXCEPT ![k] = row]
    BY <2>1, <2>2
  <2>4. /\ to \in PayStates
        /\ to \in {"completed", "failed", "returned"} => Bears(atPartner[k], to)
    BY <1>2, ReachesTrue
  <2>5. known \in BOOLEAN
    OBVIOUS
  <2> HIDE DEF to, ended, known
  <2>6. row \in PaymentRow /\ row.status = to
    BY <2>2, <2>4, <2>5 DEF PaymentRow
  <2>7. RecordTrue(row, atPartner[k])
    BY <1>2, <2>4, <2>6 DEF RecordTrue, Bears
  <2> HIDE DEF row
  <2>8. OutsideRows'
    BY <1>3, <1>4, <2>2, <2>3, <2>6 DEF PartnerInv, OutsideRows
  <2>9. \A d \in Calls : moneyCall'[d] = moneyCall[d] \/ moneyCall'[d] = ended
    BY <1>4 DEF PartnerInv, OutsideRows
  <2>10. /\ payment'[k] = row
         /\ \A j \in PayKeys \ {k} : payment'[j] = payment[j]
    BY <2>2, <2>3
  <2>11. QED
    BY <1>3, <1>4, <2>7, <2>8, <2>9, <2>10 DEF PartnerInv
<1>7. QED
  BY <1>5, <1>6

\* A payment held keeps the invariant.
LEMMA HoldPaymentInv ==
  ASSUME PartnerInv, NEW c \in Calls, HoldPayment(c)
  PROVE  PartnerInv'
<1>1. PICK k \in PayKeys : k = moneyCall[c].key
  BY DEF HoldPayment, PartnerInv, HeardTrue
<1>2. /\ moneyCall[c] \in CallRow /\ moneyCall[c].at = "paying"
      /\ moneyCall \in [Calls -> CallRow] /\ atPartner' = atPartner
  BY DEF HoldPayment, PartnerInv, OutsideRows
<1>3. CASE payment[k].status = "none" /\ ~wsFrozen /\ Held(k)
  <2> DEFINE row == [payment[k] EXCEPT !.status = "pending"]
             asking == [moneyCall[c] EXCEPT !.at = "asking"]
  <2>1. payment[k] \in PaymentRow /\ payment \in [PayKeys -> PaymentRow]
    BY DEF PartnerInv, OutsideRows
  <2>2. /\ row \in PaymentRow /\ row.status = "pending"
        /\ row.ref = payment[k].ref
    BY <2>1 DEF PaymentRow, PayStates
  <2>3. /\ payment' = [payment EXCEPT ![k] = row]
        /\ moneyCall' = [moneyCall EXCEPT ![c] = asking]
    BY <1>1, <1>2, <1>3, <2>1 DEF HoldPayment
  <2>4. asking \in CallRow /\ asking.at = "asking" /\ asking.key = k
        /\ asking.ref = moneyCall[c].ref
    BY <1>1, <1>2 DEF CallRow
  <2> HIDE DEF row, asking
  <2>5. RecordTrue(row, atPartner[k])
    BY <2>2 DEF PartnerInv, RecordTrue
  <2>6. HeardTrue(asking, atPartner)
    BY <1>2, <2>4 DEF HeardTrue, PartnerInv
  <2>7. OutsideRows'
    BY <1>2, <2>1, <2>2, <2>3, <2>4 DEF PartnerInv, OutsideRows
  <2>8. /\ \A d \in Calls : moneyCall'[d] = moneyCall[d] \/ moneyCall'[d] = asking
        /\ payment'[k] = row
        /\ \A j \in PayKeys \ {k} : payment'[j] = payment[j]
    BY <1>2, <2>1, <2>3
  <2>9. QED
    BY <1>2, <2>5, <2>6, <2>7, <2>8 DEF PartnerInv
<1>4. CASE ~ (payment[k].status = "none" /\ ~wsFrozen /\ Held(k))
  <2> DEFINE ended == [moneyCall[c] EXCEPT !.at = "done"]
  <2>1. /\ ended \in CallRow /\ \A book : HeardTrue(ended, book)
        /\ [moneyCall EXCEPT ![c].at = "done"] = [moneyCall EXCEPT ![c] = ended]
    BY <1>2, CallEnds
  <2> HIDE DEF ended
  <2>2. payment' = payment /\ moneyCall' = [moneyCall EXCEPT ![c] = ended]
    BY <1>1, <1>4, <2>1 DEF HoldPayment
  <2>3. QED
    BY <1>2, <2>1, <2>2, CallMoves
<1>5. QED
  BY <1>3, <1>4

\* Every step keeps the invariant.
LEMMA PartnerStep ==
  ASSUME PartnerInv, [OutsideNext]_outsideVars
  PROVE  PartnerInv'
<1>1. ASSUME NEW c \in Calls, NEW k \in PayKeys, CheckPrior(c, k)
      PROVE  PartnerInv'
  <2> DEFINE at == IF payment[k].status = "none" THEN "paying" ELSE "done"
             row == [IdleCall EXCEPT !.at = at, !.key = k]
  <2>1. at \in {"paying", "done"}
    OBVIOUS
  <2>2. moneyCall' = [moneyCall EXCEPT ![c] = row]
        /\ UNCHANGED <<payment, atPartner>>
    BY <1>1 DEF CheckPrior
  <2> HIDE DEF at
  <2>3. row \in CallRow /\ HeardTrue(row, atPartner)
    BY <2>1 DEF CallRow, HeardTrue, IdleCall, PartnerBook
  <2> HIDE DEF row
  <2>4. QED
    BY <2>2, <2>3, CallMoves
<1>2. ASSUME NEW c \in Calls, NEW k \in PayKeys, ReadPayment(c, k)
      PROVE  PartnerInv'
  <2> DEFINE row == [IdleCall EXCEPT !.at = "asking", !.key = k,
                                     !.ref = payment[k].ref]
  <2>1. moneyCall' = [moneyCall EXCEPT ![c] = row]
        /\ UNCHANGED <<payment, atPartner>>
    BY <1>2 DEF ReadPayment
  <2>2. payment[k] \in PaymentRow /\ RecordTrue(payment[k], atPartner[k])
    BY DEF PartnerInv, OutsideRows
  <2>3. row \in CallRow /\ HeardTrue(row, atPartner)
    BY <2>2 DEF CallRow, HeardTrue, IdleCall, PartnerBook, PaymentRow, RecordTrue
  <2> HIDE DEF row
  <2>4. QED
    BY <2>1, <2>3, CallMoves
<1>3. ASSUME NEW c \in Calls, CallDies(c)
      PROVE  PartnerInv'
  <2> DEFINE row == [moneyCall[c] EXCEPT !.at = "done"]
  <2>1. /\ row \in CallRow /\ \A book : HeardTrue(row, book)
        /\ [moneyCall EXCEPT ![c].at = "done"] = [moneyCall EXCEPT ![c] = row]
    BY <1>3, CallEnds DEF CallDies
  <2> HIDE DEF row
  <2>2. moneyCall' = [moneyCall EXCEPT ![c] = row]
        /\ UNCHANGED <<payment, atPartner>>
    BY <1>3, <2>1 DEF CallDies
  <2>3. QED
    BY <2>1, <2>2, CallMoves
<1>4. CASE FreezeWorkspace \/ UNCHANGED outsideVars
  BY <1>4 DEF FreezeWorkspace, outsideVars, PartnerInv, OutsideRows
<1>5. QED
  BY <1>1, <1>2, <1>3, <1>4, HoldPaymentInv, SendPaymentInv, PaymentStatusInv,
     ApplyPartnerInv, PartnerDecidesInv DEF OutsideNext

\* Talyvor's record of a payment never contradicts the partner's, whatever
\* answers were lost, repeated or applied late (applyPartnerResult).
THEOREM RecordsAlwaysAgree == OutsideSpec => []RecordAgreesWithPartner
<1>1. PartnerInv => RecordAgreesWithPartner
  BY DEF PartnerInv, RecordAgreesWithPartner, RecordTrue, Bears
<1>2. QED
  BY PartnerInit, PartnerStep, <1>1, PTL DEF OutsideSpec

-----------------------------------------------------------------------------
(* The ledger of the payments: every entry a step posts is what the row it *)
(* writes stops or starts to stand for.                                    *)

MoneyRows == account \in Int

MoneyInv == MoneyRows /\ MoneyIsWherePaymentsSay

\* What a payment of the status counts for among those of a status in states.
Counts(status, states, amount) == IF status \in states THEN amount ELSE 0

\* A total of payments moves with the one row a step writes.
LEMMA StandingMoves ==
  ASSUME OutsideRows, NEW k \in PayKeys, NEW row \in PaymentRow,
         payment' = [payment EXCEPT ![k] = row],
         NEW states, NEW amount \in [PayKeys -> Nat]
  PROVE  /\ Standing(states, amount)' = Standing(states, amount)
              - Counts(payment[k].status, states, amount[k])
              + Counts(row.status, states, amount[k])
         /\ Standing(states, amount) \in Nat
<1> DEFINE f == [j \in PayKeys |->
                   IF payment[j].status \in states THEN amount[j] ELSE 0]
           g == [j \in PayKeys |->
                   IF payment'[j].status \in states THEN amount[j] ELSE 0]
<1>1. f \in [PayKeys -> Nat] /\ f[k] = Counts(payment[k].status, states, amount[k])
  BY DEF Counts
<1>2. /\ g \in [PayKeys -> Nat] /\ g[k] = Counts(row.status, states, amount[k])
      /\ \A j \in PayKeys \ {k} : g[j] = f[j]
  BY DEF OutsideRows, Counts
<1>3. /\ Standing(states, amount) = Total(f)
      /\ Standing(states, amount)' = Total(g)
  BY DEF Standing
<1> HIDE DEF f, g
<1>4. Total(g) = Total(f) - f[k] + g[k] /\ Total(f) \in Nat
  BY <1>1, <1>2, OutsideConstants, TotalUpdate, TotalNat
<1>5. QED
  BY <1>1, <1>2, <1>3, <1>4

\* A step that writes one row, and posts what it counts for.
LEMMA MoneyMoves ==
  ASSUME OutsideRows, MoneyInv, NEW k \in PayKeys, NEW row \in PaymentRow,
         payment' = [payment EXCEPT ![k] = row], account' \in Int,
         holdAcct' = holdAcct
           - Counts(payment[k].status, {"pending", "sent"}, Debit(k))
           + Counts(row.status, {"pending", "sent"}, Debit(k)),
         outAcct' = outAcct - Counts(payment[k].status, {"completed"}, Sends[k])
                            + Counts(row.status, {"completed"}, Sends[k]),
         revenue' = revenue
           - Counts(payment[k].status, {"completed", "returned"}, Fee[k])
           + Counts(row.status, {"completed", "returned"}, Fee[k]),
         account' + holdAcct' + outAcct' + revenue'
           = account + holdAcct + outAcct + revenue
  PROVE  MoneyInv'
<1> DEFINE debits == [j \in PayKeys |-> Debit(j)]
<1>1. debits \in [PayKeys -> Nat] /\ debits[k] = Debit(k)
  BY OutsideConstants DEF Debit
<1>2. Sends \in [PayKeys -> Nat] /\ Fee \in [PayKeys -> Nat]
  BY OutsideConstants
<1>3. /\ holdAcct = Standing({"pending", "sent"}, debits)
      /\ outAcct = Standing({"completed"}, Sends)
      /\ revenue = Standing({"completed", "returned"}, Fee)
      /\ account + holdAcct + outAcct + revenue = Opening
  BY DEF MoneyInv, MoneyIsWherePaymentsSay
<1> HIDE DEF debits
<1>4. holdAcct' = Standing({"pending", "sent"}, debits)'
  BY <1>1, <1>3, StandingMoves
<1>5. outAcct' = Standing({"completed"}, Sends)'
  BY <1>2, <1>3, StandingMoves
<1>6. revenue' = Standing({"completed", "returned"}, Fee)'
  BY <1>2, <1>3, StandingMoves
<1>7. QED
  BY <1>3, <1>4, <1>5, <1>6 DEF MoneyInv, MoneyRows, MoneyIsWherePaymentsSay, debits

\* The balances are integers, and so is what a payment is worth.
LEMMA MoneyTypes ==
  ASSUME MoneyInv, OutsideRows
  PROVE  /\ account \in Int /\ holdAcct \in Int /\ outAcct \in Int
         /\ revenue \in Int
         /\ \A k \in PayKeys : /\ Sends[k] \in Nat /\ Fee[k] \in Nat
                               /\ Debit(k) \in Nat
                               /\ Debit(k) = Sends[k] + Fee[k]
<1>1. \A k \in PayKeys : /\ Sends[k] \in Nat /\ Fee[k] \in Nat
                         /\ Debit(k) \in Nat /\ Debit(k) = Sends[k] + Fee[k]
  BY OutsideConstants DEF Debit
<1>2. ASSUME NEW states, NEW amount \in [PayKeys -> Nat]
      PROVE  Standing(states, amount) \in Nat
  <2> DEFINE f == [j \in PayKeys |->
                     IF payment[j].status \in states THEN amount[j] ELSE 0]
  <2>1. f \in [PayKeys -> Nat]
    OBVIOUS
  <2> HIDE DEF f
  <2>2. Total(f) \in Nat
    BY <2>1, OutsideConstants, TotalNat
  <2>3. QED
    BY <2>2 DEF f, Standing
<1>3. /\ [k \in PayKeys |-> Debit(k)] \in [PayKeys -> Nat]
      /\ Sends \in [PayKeys -> Nat] /\ Fee \in [PayKeys -> Nat]
  BY <1>1, OutsideConstants
<1>4. QED
  BY <1>1, <1>2, <1>3 DEF MoneyInv, MoneyRows, MoneyIsWherePaymentsSay

\* The accounts add up at first.
LEMMA MoneyInit == OutsideInit => MoneyInv
<1> SUFFICES ASSUME OutsideInit PROVE MoneyInv
  OBVIOUS
<1>1. ASSUME NEW states, NEW amount \in [PayKeys -> Nat], "none" \notin states
      PROVE  Standing(states, amount) = 0
  <2> DEFINE f == [j \in PayKeys |->
                     IF payment[j].status \in states THEN amount[j] ELSE 0]
  <2>1. f \in [PayKeys -> Nat] /\ \A j \in PayKeys : f[j] = 0
    BY <1>1 DEF OutsideInit, NoPayment
  <2> HIDE DEF f
  <2>2. Total(f) = 0
    BY <2>1, TotalZero
  <2>3. QED
    BY <2>2 DEF f, Standing
<1>2. /\ [k \in PayKeys |-> Debit(k)] \in [PayKeys -> Nat]
      /\ Sends \in [PayKeys -> Nat] /\ Fee \in [PayKeys -> Nat]
  BY OutsideConstants DEF Debit
<1>3. QED
  BY <1>1, <1>2, OutsideConstants
     DEF OutsideInit, MoneyInv, MoneyRows, MoneyIsWherePaymentsSay

\* A payment held moves its debit to the hold account.
LEMMA HoldPaymentMoney ==
  ASSUME PartnerInv, MoneyInv, NEW c \in Calls, HoldPayment(c)
  PROVE  MoneyInv'
<1>1. PICK k \in PayKeys : k = moneyCall[c].key
  BY DEF HoldPayment, PartnerInv, HeardTrue
<1>2. OutsideRows
  BY DEF PartnerInv
<1>3. CASE payment[k].status = "none" /\ ~wsFrozen /\ Held(k)
  <2> DEFINE row == [payment[k] EXCEPT !.status = "pending"]
  <2>1. payment[k] \in PaymentRow /\ payment \in [PayKeys -> PaymentRow]
    BY <1>2 DEF OutsideRows
  <2>2. row \in PaymentRow /\ row.status = "pending"
    BY <2>1 DEF PaymentRow, PayStates
  <2>3. payment' = [payment EXCEPT ![k] = row]
    BY <1>1, <1>3, <2>1 DEF HoldPayment
  <2> HIDE DEF row
  <2>4. /\ account' = account - Debit(k) /\ holdAcct' = holdAcct + Debit(k)
        /\ outAcct' = outAcct /\ revenue' = revenue
    BY <1>1, <1>3 DEF HoldPayment
  <2>5. /\ Counts(payment[k].status, {"pending", "sent"}, Debit(k)) = 0
        /\ Counts(row.status, {"pending", "sent"}, Debit(k)) = Debit(k)
        /\ Counts(payment[k].status, {"completed"}, Sends[k]) = 0
        /\ Counts(row.status, {"completed"}, Sends[k]) = 0
        /\ Counts(payment[k].status, {"completed", "returned"}, Fee[k]) = 0
        /\ Counts(row.status, {"completed", "returned"}, Fee[k]) = 0
    BY <1>3, <2>2 DEF Counts
  <2>6. /\ account \in Int /\ holdAcct \in Int /\ outAcct \in Int
        /\ revenue \in Int /\ Debit(k) \in Nat
    BY <1>2, MoneyTypes
  <2>7. /\ holdAcct' = holdAcct
             - Counts(payment[k].status, {"pending", "sent"}, Debit(k))
             + Counts(row.status, {"pending", "sent"}, Debit(k))
        /\ outAcct' = outAcct - Counts(payment[k].status, {"completed"}, Sends[k])
                              + Counts(row.status, {"completed"}, Sends[k])
        /\ revenue' = revenue
             - Counts(payment[k].status, {"completed", "returned"}, Fee[k])
             + Counts(row.status, {"completed", "returned"}, Fee[k])
        /\ account' \in Int
        /\ account' + holdAcct' + outAcct' + revenue'
             = account + holdAcct + outAcct + revenue
    BY <2>4, <2>5, <2>6
  <2>8. QED
    BY <1>2, <2>2, <2>3, <2>7, MoneyMoves
<1>4. CASE ~ (payment[k].status = "none" /\ ~wsFrozen /\ Held(k))
  BY <1>1, <1>4
     DEF HoldPayment, MoneyInv, MoneyRows, MoneyIsWherePaymentsSay, Standing
<1>5. QED
  BY <1>3, <1>4

\* An answer applied moves what its status says.
LEMMA ApplyPartnerMoney ==
  ASSUME PartnerInv, MoneyInv, NEW c \in Calls, ApplyPartnerResult(c)
  PROVE  MoneyInv'
<1>1. PICK k \in PayKeys : k = moneyCall[c].key
  BY DEF ApplyPartnerResult, PartnerInv, HeardTrue
<1> DEFINE st == payment[k].status
           result == moneyCall[c].result
           to == Reaches(k, result)
           fails == result = "failed" /\ StillOpen(k)
           goes == result \in {"completed", "returned"} /\ StillOpen(k)
           returns == to = "returned" /\ payment[k].status # "returned"
           back == IF returns THEN ComesBack(k) ELSE 0
           known == payment[k].ref \/ atPartner[k].status # "none"
           row == [payment[k] EXCEPT !.status = to, !.ref = known]
<1>2. /\ OutsideRows /\ payment[k] \in PaymentRow /\ st \in PayStates
      /\ payment \in [PayKeys -> PaymentRow]
      /\ result \in PartnerBook /\ Bears(atPartner[k], result)
  BY <1>1 DEF ApplyPartnerResult, PartnerInv, OutsideRows, PaymentRow, CallRow,
              HeardTrue
<1>3. CASE wsFrozen /\ (fails \/ goes \/ returns)
  BY <1>1, <1>3
     DEF ApplyPartnerResult, ledger, MoneyInv, MoneyRows,
         MoneyIsWherePaymentsSay, Standing
<1>4. CASE ~ (wsFrozen /\ (fails \/ goes \/ returns))
  <2>1. /\ payment' = [payment EXCEPT ![k].status = to,
                           ![k].ref = @ \/ atPartner[k].status # "none"]
        /\ holdAcct' = holdAcct - (IF fails \/ goes THEN Debit(k) ELSE 0)
        /\ account' = account + (IF fails THEN Debit(k) ELSE 0) + back
        /\ outAcct' = outAcct + (IF goes THEN Sends[k] ELSE 0) - back
        /\ revenue' = revenue + (IF goes THEN Fee[k] ELSE 0)
    BY <1>1, <1>4 DEF ApplyPartnerResult
  <2>2. payment' = [payment EXCEPT ![k] = row]
    BY <1>2, <2>1
  <2>3. to \in PayStates
    BY <1>2, ReachesTrue
  <2>4. known \in BOOLEAN
    OBVIOUS
  <2>5. /\ fails => st \in {"pending", "sent"} /\ to = "failed" /\ ~goes /\ ~returns
        /\ goes => /\ st \in {"pending", "sent"} /\ ~fails
                   /\ \/ to = "completed" /\ ~returns
                      \/ to = "returned" /\ returns
        /\ ~fails /\ ~goes => \/ st = "completed" /\ to = "returned" /\ returns
                              \/ to = st /\ ~returns
                              \/ st = "pending" /\ to = "sent" /\ ~returns
    BY <1>2 DEF Reaches, StillOpen, Bears, PartnerBook, PayStates
  <2>6. back = IF returns THEN Sends[k] ELSE 0
    BY DEF ComesBack
  <2>7. /\ account \in Int /\ holdAcct \in Int /\ outAcct \in Int
        /\ revenue \in Int /\ Debit(k) \in Nat /\ Sends[k] \in Nat
        /\ Fee[k] \in Nat /\ Debit(k) = Sends[k] + Fee[k]
    BY <1>2, MoneyTypes
  <2> HIDE DEF st, to, fails, goes, returns, back, known
  <2>8. row \in PaymentRow /\ row.status = to
    BY <1>2, <2>3, <2>4 DEF PaymentRow
  <2> HIDE DEF row
  <2>9. /\ holdAcct' = holdAcct - Counts(st, {"pending", "sent"}, Debit(k))
                                + Counts(to, {"pending", "sent"}, Debit(k))
        /\ outAcct' = outAcct - Counts(st, {"completed"}, Sends[k])
                              + Counts(to, {"completed"}, Sends[k])
        /\ revenue' = revenue - Counts(st, {"completed", "returned"}, Fee[k])
                              + Counts(to, {"completed", "returned"}, Fee[k])
        /\ account' \in Int
        /\ account' + holdAcct' + outAcct' + revenue'
             = account + holdAcct + outAcct + revenue
    <3>1. CASE fails
      BY <2>1, <2>5, <2>6, <2>7, <3>1 DEF Counts
    <3>2. CASE goes
      BY <2>1, <2>5, <2>6, <2>7, <3>2 DEF Counts
    <3>3. CASE ~fails /\ ~goes
      BY <2>1, <2>5, <2>6, <2>7, <3>3 DEF Counts
    <3>4. QED
      BY <3>1, <3>2, <3>3
  <2>10. QED
    BY <1>2, <2>2, <2>8, <2>9, MoneyMoves DEF st
<1>5. QED
  BY <1>3, <1>4

\* Every step keeps the accounts.
LEMMA MoneyStep ==
  ASSUME PartnerInv, MoneyInv, [OutsideNext]_outsideVars
  PROVE  MoneyInv'
<1>1. ASSUME UNCHANGED <<ledger, payment>>
      PROVE  MoneyInv'
  BY <1>1 DEF ledger, MoneyInv, MoneyRows, MoneyIsWherePaymentsSay, Standing
<1>2. ASSUME NEW c \in Calls, NEW k \in PayKeys,
             CheckPrior(c, k) \/ ReadPayment(c, k)
      PROVE  MoneyInv'
  BY <1>1, <1>2 DEF CheckPrior, ReadPayment
<1>3. ASSUME NEW c \in Calls, SendPayment(c) \/ PaymentStatus(c) \/ CallDies(c)
      PROVE  MoneyInv'
  BY <1>1, <1>3 DEF SendPayment, PaymentStatus, CallDies
<1>4. ASSUME NEW k \in PayKeys, PartnerDecides(k)
      PROVE  MoneyInv'
  BY <1>1, <1>4 DEF PartnerDecides
<1>5. CASE FreezeWorkspace \/ UNCHANGED outsideVars
  BY <1>1, <1>5 DEF FreezeWorkspace, outsideVars, ledger
<1>6. QED
  BY <1>2, <1>3, <1>4, <1>5, HoldPaymentMoney, ApplyPartnerMoney DEF OutsideNext

\* The hold account is always what the open payments hold, the partner account
\* what completed, and no money is made or lost (payOutside,
\* applyPartnerResult).
THEOREM MoneyAlwaysWherePaymentsSay == OutsideSpec => []MoneyIsWherePaymentsSay
<1>1. OutsideInit => PartnerInv /\ MoneyInv
  BY PartnerInit, MoneyInit
<1>2. PartnerInv /\ MoneyInv /\ [OutsideNext]_outsideVars => PartnerInv' /\ MoneyInv'
  BY PartnerStep, MoneyStep
<1>3. MoneyInv => MoneyIsWherePaymentsSay
  BY DEF MoneyInv
<1>4. QED
  BY <1>1, <1>2, <1>3, PTL DEF OutsideSpec

-----------------------------------------------------------------------------
(* The lock order keeps the money transactions from waiting in a circle,   *)
(* for any number of agents, workspaces and transactions.  Every path but  *)
(* an archiving's schedules rises in one order of all rows; so a           *)
(* transaction that waits wants a row before the one its holder wants, and *)
(* among finitely many transactions one waits for none of them.            *)

Kinds == {"request", "escrow", "schedule", "key", "agent", "line", "balance"}

Rows == Kinds \X Nat

Class(row) ==
  IF row[1] \in {"request", "escrow", "schedule"} THEN 0
  ELSE IF row[1] = "key" THEN 1
  ELSE IF row[1] = "agent" THEN 2
  ELSE IF row[1] = "line" THEN 3 ELSE 4

Before(x, y) == Class(x) < Class(y) \/ (Class(x) = Class(y) /\ x[2] < y[2])

\* A path takes each row after all those it took before, schedules excepted.
Rises(p) ==
  \A i, j \in 1..Len(p) : i < j /\ p[j][1] # "schedule" => Before(p[i], p[j])

RisingPaths == {p \in Seq(Rows) : Rises(p)}

\* Before is a strict order on the rows.
LEMMA BeforeIsAnOrder ==
  /\ \A x \in Rows : ~Before(x, x)
  /\ \A x, y, z \in Rows : Before(x, y) /\ Before(y, z) => Before(x, z)
<1>1. \A x \in Rows : Class(x) \in Nat /\ x[2] \in Nat
  BY DEF Class, Rows
<1>2. QED
  BY <1>1 DEF Before

\* Agents and workspaces have numbers.
LEMMA Ids ==
  \A a \in LockAgents : a \in Nat /\ WorkspaceOf[a] \in Nat
BY LockAssumption

\* The rows named by the paths are rows.
LEMMA RowsOfKinds ==
  ASSUME NEW n \in Nat
  PROVE  /\ Request(n) \in Rows /\ SubBudget(n) \in Rows /\ Agent(n) \in Rows
         /\ Line(n) \in Rows /\ Balance(n) \in Rows /\ Escrow(n) \in Rows
         /\ Schedule(n) \in Rows
BY DEF Request, SubBudget, Agent, Line, Balance, Escrow, Schedule, Rows, Kinds

-----------------------------------------------------------------------------
(* Every path rises.                                                       *)

\* A rising path followed by later rows, or by schedules, rises.
LEMMA RisingConcat ==
  ASSUME NEW s \in RisingPaths, NEW t \in RisingPaths,
         \A i \in 1..Len(s), j \in 1..Len(t) :
           t[j][1] # "schedule" => Before(s[i], t[j])
  PROVE  s \o t \in RisingPaths
<1>1. s \in Seq(Rows) /\ t \in Seq(Rows) /\ Rises(s) /\ Rises(t)
  BY DEF RisingPaths
<1>2. /\ s \o t \in Seq(Rows) /\ Len(s \o t) = Len(s) + Len(t)
      /\ Len(s) \in Nat /\ Len(t) \in Nat
      /\ \A i \in 1..Len(s) : (s \o t)[i] = s[i]
      /\ \A i \in (Len(s) + 1)..(Len(s) + Len(t)) : (s \o t)[i] = t[i - Len(s)]
  BY <1>1
<1> DEFINE u == s \o t
<1> HIDE DEF u
<1>3. ASSUME NEW i \in 1..Len(u), NEW j \in 1..Len(u), i < j,
             u[j][1] # "schedule"
      PROVE  Before(u[i], u[j])
  <2>1. CASE j <= Len(s)
    BY <1>1, <1>2, <1>3, <2>1 DEF Rises, u
  <2>2. CASE i <= Len(s) /\ j > Len(s)
    <3>1. j - Len(s) \in 1..Len(t) /\ u[j] = t[j - Len(s)] /\ u[i] = s[i]
          /\ i \in 1..Len(s)
      BY <1>2, <1>3, <2>2 DEF u
    <3>2. QED
      BY <1>3, <3>1
  <2>3. CASE i > Len(s)
    <3>1. /\ j - Len(s) \in 1..Len(t) /\ u[j] = t[j - Len(s)]
          /\ i - Len(s) \in 1..Len(t) /\ u[i] = t[i - Len(s)]
          /\ i - Len(s) < j - Len(s)
      BY <1>2, <1>3, <2>3 DEF u
    <3>2. QED
      BY <1>1, <1>3, <3>1 DEF Rises
  <2>4. QED
    BY <1>2, <1>3, <2>1, <2>2, <2>3
<1>4. QED
  BY <1>2, <1>3 DEF RisingPaths, Rises, u

\* One row or two, in the order of their ids.
LEMMA RisingOne ==
  ASSUME NEW x \in Rows
  PROVE  /\ <<x>> \in RisingPaths /\ Len(<<x>>) = 1 /\ <<x>>[1] = x
BY DEF RisingPaths, Rises

\* Two rows rise when the second is a later row, or a schedule.
LEMMA RisingTwo ==
  ASSUME NEW x \in Rows, NEW y \in Rows, y[1] # "schedule" => Before(x, y)
  PROVE  <<x, y>> \in RisingPaths
<1>1. <<x, y>> \in Seq(Rows) /\ Len(<<x, y>>) = 2
  OBVIOUS
<1>2. QED
  BY <1>1 DEF RisingPaths, Rises

\* The rows of one kind of two ids, in the order of the ids.
KindRows(kind, x, y) == [i \in DOMAIN Ordered(x, y) |-> <<kind, Ordered(x, y)[i]>>]

\* Two rows of a kind, taken in the order of their ids, rise.
LEMMA OrderedRows ==
  ASSUME NEW kind \in Kinds, NEW x \in Nat, NEW y \in Nat
  PROVE  /\ KindRows(kind, x, y) \in RisingPaths
         /\ \A i \in 1..Len(KindRows(kind, x, y)) :
              KindRows(kind, x, y)[i][1] = kind
<1>1. ASSUME NEW m \in Nat
      PROVE  <<kind, m>> \in Rows /\ <<kind, m>>[1] = kind
  BY DEF Rows
<1>2. CASE x = y
  <2>1. Ordered(x, y) = <<x>>
    BY <1>2 DEF Ordered
  <2>2. KindRows(kind, x, y) = << <<kind, x>> >>
    BY <2>1 DEF KindRows
  <2>3. << <<kind, x>> >> \in RisingPaths
    BY <1>1, RisingOne
  <2>4. QED
    BY <1>1, <2>2, <2>3
<1>3. ASSUME NEW m \in Nat, NEW n \in Nat, m < n, Ordered(x, y) = <<m, n>>
      PROVE  /\ KindRows(kind, x, y) \in RisingPaths
             /\ \A i \in 1..Len(KindRows(kind, x, y)) :
                  KindRows(kind, x, y)[i][1] = kind
  <2>1. KindRows(kind, x, y) = << <<kind, m>>, <<kind, n>> >>
    BY <1>3 DEF KindRows
  <2>2. Before(<<kind, m>>, <<kind, n>>)
    BY <1>3 DEF Before, Class
  <2>3. << <<kind, m>>, <<kind, n>> >> \in RisingPaths
    BY <1>1, <2>2, RisingTwo
  <2>4. QED
    BY <1>1, <2>1, <2>3
<1>4. CASE x < y
  <2>1. Ordered(x, y) = <<x, y>>
    BY <1>4 DEF Ordered
  <2>2. QED
    BY <1>3, <1>4, <2>1
<1>5. CASE y < x
  <2>1. Ordered(x, y) = <<y, x>>
    BY <1>5 DEF Ordered
  <2>2. QED
    BY <1>3, <1>5, <2>1
<1>6. QED
  BY <1>2, <1>4, <1>5

\* Both rows of a kind are the two taken in the order of their ids.
LEMMA BothRows ==
  ASSUME NEW x \in Nat, NEW y \in Nat
  PROVE  /\ Both(Agent, x, y) = KindRows("agent", x, y)
         /\ Both(Balance, x, y) = KindRows("balance", x, y)
         /\ Both(Schedule, x, y) = KindRows("schedule", x, y)
BY DEF Both, KindRows, Agent, Balance, Schedule

\* A path of one agent.
LEMMA OneAgentRises ==
  ASSUME NEW a \in LockAgents
  PROVE  {HoldRows(a), LentHoldRows(a), SettleRows(a), FundRows(a),
          OwnSpendRows(WorkspaceOf[a])} \subseteq RisingPaths
<1>1. PICK w \in Nat : w = WorkspaceOf[a]
  BY Ids
<1>2. /\ a \in Nat /\ Request(a) \in Rows /\ SubBudget(a) \in Rows
      /\ Agent(a) \in Rows /\ Line(w) \in Rows /\ Balance(w) \in Rows
  BY Ids, RowsOfKinds
<1>3. /\ Class(Request(a)) = 0 /\ Class(SubBudget(a)) = 1 /\ Class(Agent(a)) = 2
      /\ Class(Line(w)) = 3 /\ Class(Balance(w)) = 4
  BY DEF Class, Request, SubBudget, Agent, Line, Balance
<1>4. ASSUME NEW p \in Seq(Rows),
             \A i, j \in 1..Len(p) : i < j => Class(p[i]) < Class(p[j])
      PROVE  p \in RisingPaths
  BY <1>4 DEF RisingPaths, Rises, Before
<1>5. OwnSpendRows(w) \in RisingPaths
  BY <1>2, RisingOne DEF OwnSpendRows
<1>6. FundRows(a) \in RisingPaths
  BY <1>1, <1>2, <1>3, RisingTwo DEF FundRows, Before
<1>7. HoldRows(a) \in RisingPaths
  <2> DEFINE p == HoldRows(a)
  <2>1. /\ p \in Seq(Rows) /\ Len(p) = 4
        /\ Class(p[1]) = 0 /\ Class(p[2]) = 1 /\ Class(p[3]) = 2 /\ Class(p[4]) = 4
    BY <1>1, <1>2, <1>3 DEF HoldRows
  <2> HIDE DEF p
  <2>2. \A i, j \in 1..Len(p) : i < j => Class(p[i]) < Class(p[j])
    BY <2>1
  <2>3. QED
    BY <1>4, <2>1, <2>2 DEF p
<1>8. SettleRows(a) \in RisingPaths
  BY <1>7 DEF SettleRows, HoldRows
<1>9. LentHoldRows(a) \in RisingPaths
  <2> DEFINE p == LentHoldRows(a)
  <2>1. /\ p \in Seq(Rows) /\ Len(p) = 5
        /\ Class(p[1]) = 0 /\ Class(p[2]) = 1 /\ Class(p[3]) = 2
        /\ Class(p[4]) = 3 /\ Class(p[5]) = 4
    BY <1>1, <1>2, <1>3 DEF LentHoldRows
  <2> HIDE DEF p
  <2>2. \A i, j \in 1..Len(p) : i < j => Class(p[i]) < Class(p[j])
    BY <2>1
  <2>3. QED
    BY <1>4, <2>1, <2>2 DEF p
<1>10. QED
  BY <1>1, <1>5, <1>6, <1>7, <1>8, <1>9

\* A path of two agents.
LEMMA TwoAgentsRise ==
  ASSUME NEW a \in LockAgents, NEW b \in LockAgents
  PROVE  {PayRows(a, b), TransferRows(a, b), EscrowRows(a, b),
          SettleEscrowRows(a, b), TickRows(a, b), ArchiveRows(a, b)}
           \subseteq RisingPaths
<1>1. PICK v \in Nat, w \in Nat : v = WorkspaceOf[a] /\ w = WorkspaceOf[b]
  BY Ids
<1>2. a \in Nat /\ b \in Nat
  BY Ids
<1> DEFINE agents == KindRows("agent", a, b)
           balances == KindRows("balance", v, w)
           schedules == KindRows("schedule", a, b)
<1>3. /\ agents \in RisingPaths /\ balances \in RisingPaths
      /\ schedules \in RisingPaths
      /\ \A i \in 1..Len(agents) : agents[i][1] = "agent"
      /\ \A i \in 1..Len(balances) : balances[i][1] = "balance"
      /\ \A i \in 1..Len(schedules) : schedules[i][1] = "schedule"
  <2>1. {"agent", "balance", "schedule"} \subseteq Kinds
    BY DEF Kinds
  <2>2. agents \in RisingPaths /\ \A i \in 1..Len(agents) : agents[i][1] = "agent"
    BY <1>2, <2>1, OrderedRows
  <2>3. /\ balances \in RisingPaths
        /\ \A i \in 1..Len(balances) : balances[i][1] = "balance"
    BY <1>2, <2>1, OrderedRows
  <2>4. /\ schedules \in RisingPaths
        /\ \A i \in 1..Len(schedules) : schedules[i][1] = "schedule"
    BY <1>2, <2>1, OrderedRows
  <2>5. QED
    BY <2>2, <2>3, <2>4
<1>4. /\ Schedule(a) \in Rows /\ Agent(a) \in Rows /\ Balance(v) \in Rows
      /\ Escrow(a) \in Rows /\ Agent(b) \in Rows /\ Balance(w) \in Rows
  BY <1>2, RowsOfKinds
<1>5. PayRows(a, b) \in RisingPaths
  BY <1>2, <1>3, BothRows DEF PayRows
<1>6. TransferRows(a, b) = agents \o balances
  BY <1>1, <1>2, BothRows DEF TransferRows
<1>7. EscrowRows(a, b) = agents \o <<Balance(v)>>
  BY <1>1, <1>2, BothRows DEF EscrowRows
<1>8. TickRows(a, b) = <<Schedule(a)>> \o TransferRows(a, b)
  BY DEF TickRows
<1>9. ArchiveRows(a, b) = <<Agent(a)>> \o schedules
  BY <1>2, BothRows DEF ArchiveRows
<1> HIDE DEF agents, balances, schedules
<1>10. ASSUME NEW x, NEW y,
              \/ x[1] = "agent" /\ y[1] = "balance"
              \/ x[1] \in {"schedule", "escrow"} /\ y[1] \in {"agent", "balance"}
       PROVE  Before(x, y)
  <2>1. CASE x[1] = "agent" /\ y[1] = "balance"
    BY <2>1 DEF Before, Class
  <2>2. CASE x[1] \in {"schedule", "escrow"} /\ y[1] \in {"agent", "balance"}
    BY <2>2 DEF Before, Class
  <2>3. QED
    BY <1>10, <2>1, <2>2
<1>11. TransferRows(a, b) \in RisingPaths
  <2>1. \A i \in 1..Len(agents), j \in 1..Len(balances) :
          Before(agents[i], balances[j])
    BY <1>3, <1>10
  <2>2. QED
    BY <1>3, <1>6, <2>1, RisingConcat
<1>12. EscrowRows(a, b) \in RisingPaths
  <2>1. Balance(v)[1] = "balance"
    BY DEF Balance
  <2>2. /\ <<Balance(v)>> \in RisingPaths /\ Len(<<Balance(v)>>) = 1
        /\ <<Balance(v)>>[1] = Balance(v)
    BY <1>4, RisingOne
  <2>3. \A i \in 1..Len(agents) : Before(agents[i], Balance(v))
    BY <1>3, <1>10, <2>1
  <2>4. QED
    BY <1>3, <1>7, <2>2, <2>3, RisingConcat
<1>13. ArchiveRows(a, b) \in RisingPaths
  <2>1. <<Agent(a)>> \in RisingPaths
    BY <1>4, RisingOne
  <2>2. QED
    BY <1>3, <1>9, <2>1, RisingConcat
<1>14. TickRows(a, b) \in RisingPaths
  <2> DEFINE u == TransferRows(a, b)
  <2>1. \A i \in 1..Len(u) : u[i][1] \in {"agent", "balance"}
    <3>1. agents \in Seq(Rows) /\ balances \in Seq(Rows)
      BY <1>3 DEF RisingPaths
    <3>2. \A i \in 1..Len(u) :
            \/ i \in 1..Len(agents) /\ u[i] = agents[i]
            \/ i - Len(agents) \in 1..Len(balances) /\ u[i] = balances[i - Len(agents)]
      BY <1>6, <3>1
    <3>3. QED
      BY <1>3, <3>2
  <2>2. Schedule(a)[1] = "schedule"
    BY DEF Schedule
  <2>3. /\ <<Schedule(a)>> \in RisingPaths /\ Len(<<Schedule(a)>>) = 1
        /\ <<Schedule(a)>>[1] = Schedule(a)
    BY <1>4, RisingOne
  <2> HIDE DEF u
  <2>4. \A j \in 1..Len(u) : Before(Schedule(a), u[j])
    BY <1>10, <2>1, <2>2
  <2>5. u \in RisingPaths
    BY <1>11 DEF u
  <2>6. <<Schedule(a)>> \o u \in RisingPaths
    BY <2>3, <2>4, <2>5, RisingConcat
  <2>7. QED
    BY <1>8, <2>6 DEF u
<1>15. SettleEscrowRows(a, b) \in RisingPaths
  <2> DEFINE p == SettleEscrowRows(a, b)
  <2>1. /\ p \in Seq(Rows) /\ Len(p) = 3
        /\ p[1] = Escrow(a) /\ p[2] = Agent(b) /\ p[3] = Balance(w)
    BY <1>1, <1>4 DEF SettleEscrowRows
  <2>2. Escrow(a)[1] = "escrow" /\ Agent(b)[1] = "agent" /\ Balance(w)[1] = "balance"
    BY DEF Escrow, Agent, Balance
  <2> HIDE DEF p
  <2>3. /\ Before(Escrow(a), Agent(b)) /\ Before(Escrow(a), Balance(w))
        /\ Before(Agent(b), Balance(w))
    BY <1>10, <2>2
  <2>4. \A i, j \in 1..3 : i < j => Before(p[i], p[j])
    BY <2>1, <2>3
  <2>5. QED
    BY <2>1, <2>4 DEF RisingPaths, Rises, p
<1>16. QED
  BY <1>5, <1>11, <1>12, <1>13, <1>14, <1>15

\* Every money transaction takes its rows in the order.
LEMMA PathsRise == Paths \subseteq RisingPaths
<1> SUFFICES ASSUME NEW p \in Paths PROVE p \in RisingPaths
  OBVIOUS
<1> DEFINE One(a) == {HoldRows(a), LentHoldRows(a), SettleRows(a), FundRows(a),
                      OwnSpendRows(WorkspaceOf[a])}
           Two(a, b) == {PayRows(a, b), TransferRows(a, b), EscrowRows(a, b),
                         SettleEscrowRows(a, b), TickRows(a, b),
                         ArchiveRows(a, b)}
           Pairs == {q \in LockAgents \X LockAgents : q[1] # q[2]}
<1>1. \/ p \in UNION {One(a) : a \in LockAgents}
      \/ p \in UNION {Two(q[1], q[2]) : q \in Pairs}
  BY DEF Paths
<1>2. CASE p \in UNION {One(a) : a \in LockAgents}
  <2>1. PICK a \in LockAgents : p \in One(a)
    BY <1>2
  <2>2. One(a) \subseteq RisingPaths
    BY OneAgentRises
  <2>3. QED
    BY <2>1, <2>2
<1>3. CASE p \in UNION {Two(q[1], q[2]) : q \in Pairs}
  <2>1. PICK q \in Pairs : p \in Two(q[1], q[2])
    BY <1>3
  <2>2. Two(q[1], q[2]) \subseteq RisingPaths
    BY TwoAgentsRise
  <2>3. QED
    BY <2>1, <2>2
<1>4. QED
  BY <1>1, <1>2, <1>3

-----------------------------------------------------------------------------
(* Who waits wants a row before the one that its holder wants.             *)

LockInv ==
  /\ path \in [Clients -> Paths \cup {NoneYet}]
  /\ taken \in [Clients -> Nat]
  /\ \A c \in Clients : path[c] = NoneYet => taken[c] = 0
  /\ \A c \in Clients : path[c] # NoneYet => taken[c] <= Len(path[c])

\* Nobody holds anything at first.
LEMMA LockInvInit == LockInit => LockInv
BY DEF LockInit, LockInv

\* A client never holds more than its path.
LEMMA LockInvStep ==
  ASSUME LockInv, [LockNext]_lockVars
  PROVE  LockInv'
<1> USE DEF LockInv
<1>1. ASSUME NEW p \in Paths
      PROVE  p \in Seq(Rows) /\ Len(p) \in Nat
  BY PathsRise DEF RisingPaths
<1>2. ASSUME NEW c \in Clients, Begin(c)
      PROVE  LockInv'
  <2>1. PICK p \in Paths : path' = [path EXCEPT ![c] = p]
    BY <1>2 DEF Begin
  <2>2. Len(p) \in Nat /\ taken[c] = 0 /\ taken' = taken
    BY <1>1, <1>2 DEF Begin
  <2>3. \A d \in Clients : path'[d] = IF d = c THEN p ELSE path[d]
    BY <2>1
  <2>4. \A d \in Clients : path'[d] = NoneYet => taken'[d] = 0
    BY <2>2, <2>3
  <2>5. \A d \in Clients : path'[d] # NoneYet => taken'[d] <= Len(path'[d])
    BY <2>2, <2>3
  <2>6. QED
    BY <2>1, <2>2, <2>4, <2>5
<1>3. ASSUME NEW c \in Clients, TakeLock(c)
      PROVE  LockInv'
  <2>1. /\ path[c] \in Paths /\ taken[c] < Len(path[c]) /\ path' = path
        /\ taken' = [taken EXCEPT ![c] = @ + 1]
    BY <1>3 DEF TakeLock, HasMore
  <2>2. Len(path[c]) \in Nat
    BY <1>1, <2>1
  <2>3. \A d \in Clients : path'[d] # NoneYet => taken'[d] <= Len(path'[d])
    BY <2>1, <2>2
  <2>4. path[c] # NoneYet
    BY <1>3 DEF TakeLock, HasMore
  <2>5. \A d \in Clients : path'[d] = NoneYet => taken'[d] = 0
    BY <2>1, <2>4
  <2>6. QED
    BY <2>1, <2>3, <2>5
<1>4. ASSUME NEW c \in Clients, Commit(c)
      PROVE  LockInv'
  BY <1>4 DEF Commit
<1>5. CASE UNCHANGED lockVars
  BY <1>5 DEF lockVars
<1>6. QED
  BY <1>2, <1>3, <1>4, <1>5 DEF LockNext

\* A client that has more to take wants a row of its path.
LEMMA WantsRow ==
  ASSUME LockInv, NEW c \in Clients, HasMore(c)
  PROVE  /\ path[c] \in Seq(Rows) /\ Rises(path[c])
         /\ taken[c] \in Nat /\ taken[c] + 1 \in 1..Len(path[c])
         /\ Wants(c) \in Rows
<1>1. /\ path[c] \in Paths /\ taken[c] < Len(path[c]) /\ taken[c] \in Nat
  BY DEF LockInv, HasMore
<1>2. path[c] \in Seq(Rows) /\ Rises(path[c]) /\ Len(path[c]) \in Nat
  BY <1>1, PathsRise DEF RisingPaths
<1>3. taken[c] + 1 \in 1..Len(path[c])
  BY <1>1, <1>2
<1>4. QED
  BY <1>1, <1>2, <1>3 DEF Wants

\* The rows a client holds come before the row it wants, unless that is a
\* schedule's.
LEMMA WaitsForLater ==
  ASSUME LockInv, NEW c \in Clients, NEW d \in Clients,
         WaitsFor(c, d), HasMore(d), ~WaitsForSchedule(d)
  PROVE  Before(Wants(c), Wants(d))
<1>1. /\ path[d] \in Seq(Rows) /\ Rises(path[d])
      /\ taken[d] \in Nat /\ taken[d] + 1 \in 1..Len(path[d])
  BY WantsRow
<1>2. PICK i \in 1..taken[d] : Wants(c) = path[d][i]
  BY DEF WaitsFor, Holds, HasMore
<1>3. i \in 1..Len(path[d]) /\ i < taken[d] + 1
  BY <1>1
<1>4. path[d][taken[d] + 1][1] # "schedule"
  BY DEF WaitsForSchedule, Wants
<1>5. QED
  BY <1>1, <1>2, <1>3, <1>4 DEF Rises, Wants

\* A nonempty set of naturals has a least element.
LEMMA LeastNatural ==
  ASSUME NEW T, T \subseteq Nat, T # {}
  PROVE  \E m \in T : \A n \in T : m <= n
<1>1. PICK m \in T : \A n \in T : ~ (<<n, m>> \in OpToRel(<, Nat))
  BY NatLessThanWellFounded, WFMin
<1>2. \A n \in T : ~ (n < m)
  BY <1>1 DEF OpToRel
<1>3. m \in Nat /\ \A n \in T : n \in Nat
  BY <1>1
<1>4. QED
  BY <1>2, <1>3

\* In a circle, take a client with the fewest members that want a later row;
\* the one it waits for would have fewer still.
LEMMA NobodyInACircle == LockInv => NobodyWaitsInACircle
<1> SUFFICES ASSUME LockInv,
                    NEW S \in SUBSET {c \in Clients : ~ WaitsForSchedule(c)},
                    S # {}, \A c \in S : \E d \in S : WaitsFor(c, d)
             PROVE  FALSE
  BY DEF NobodyWaitsInACircle
<1> DEFINE Later(c) == {d \in S : Before(Wants(c), Wants(d))}
<1>1. IsFiniteSet(S)
  BY LockAssumption, FS_Subset
<1>2. ASSUME NEW c \in S
      PROVE  IsFiniteSet(Later(c)) /\ Cardinality(Later(c)) \in Nat
  <2>1. Later(c) \in SUBSET S
    OBVIOUS
  <2>2. QED
    BY <1>1, <2>1, FS_Subset, FS_CardinalityType
<1>3. \A c \in S : c \in Clients /\ ~WaitsForSchedule(c) /\ HasMore(c)
  BY DEF WaitsFor
<1>4. \A c \in S : Wants(c) \in Rows
  BY <1>3, WantsRow
<1>5. PICK c \in S : \A e \in S : Cardinality(Later(c)) <= Cardinality(Later(e))
  <2> DEFINE T == {Cardinality(Later(c)) : c \in S}
  <2>1. T \subseteq Nat /\ T # {}
    BY <1>2
  <2>2. PICK m \in T : \A n \in T : m <= n
    BY <2>1, LeastNatural
  <2>3. PICK c \in S : m = Cardinality(Later(c))
    BY <2>2
  <2>4. \A e \in S : Cardinality(Later(e)) \in T
    OBVIOUS
  <2> HIDE DEF T, Later
  <2>5. QED
    BY <2>2, <2>3, <2>4
<1>6. PICK d \in S : WaitsFor(c, d)
  OBVIOUS
<1>7. Before(Wants(c), Wants(d))
  BY <1>3, <1>6, WaitsForLater
<1>8. d \in Later(c) /\ Later(d) \in SUBSET (Later(c) \ {d})
  BY <1>4, <1>7, BeforeIsAnOrder
<1>9. /\ IsFiniteSet(Later(c) \ {d})
      /\ Cardinality(Later(c) \ {d}) = Cardinality(Later(c)) - 1
  BY <1>2, <1>8, FS_RemoveElement
<1>10. Cardinality(Later(d)) <= Cardinality(Later(c) \ {d})
  BY <1>8, <1>9, FS_Subset
<1> HIDE DEF Later
<1>11. QED
  BY <1>2, <1>5, <1>9, <1>10

\* The money transactions never wait on each other in a circle, so Postgres has
\* none to cancel, but for an archiving's wait for a schedule's row
\* (lockAgent, lockKeyAndAgent, lockTwoAgents and their callers).
THEOREM NobodyEverWaitsInACircle == LockSpec => []NobodyWaitsInACircle
BY LockInvInit, LockInvStep, NobodyInACircle, PTL DEF LockSpec
=============================================================================
