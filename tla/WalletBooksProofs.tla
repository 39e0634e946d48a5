------------------------- MODULE WalletBooksProofs -------------------------
(***************************************************************************)
(* The wallet's books: what is stored beside the ledger, the rows and the  *)
(* agents' balances agrees with them after every step.  The proofs rest on *)
(* the inductive invariant of AgentWalletProofs and on the facts about     *)
(* totals of TotalsProofs: a step changes one row of a table, or two.      *)
(***************************************************************************)
EXTENDS AgentWalletProofs, TotalsProofs

-----------------------------------------------------------------------------
(* The agents' book.                                                       *)

\* Every step of the wallet leaves the agents' balances alone, moves one
\* agent's and what is allocated together, or is a payment between two.
LEMMA AgentsMove ==
  ASSUME WalletInv, [Next]_vars
  PROVE  \/ UNCHANGED agentVars
         \/ \E a \in Agents, delta \in Int :
              /\ agentBal' = [agentBal EXCEPT ![a] = @ + delta]
              /\ allocated' = allocated + delta
         \/ \E a, b \in Agents, n \in Amounts : PayAgent(a, b, n)
<1> DEFINE One == \E a \in Agents, delta \in Int :
                    /\ agentBal' = [agentBal EXCEPT ![a] = @ + delta]
                    /\ allocated' = allocated + delta
<1>0. /\ WalletTyped /\ RowsKeyed /\ Amounts \subseteq Nat
      /\ FeeRates \subseteq 0..FeeDenominator
  BY WalletConstants DEF WalletInv
<1>1. ASSUME NEW k \in Keys, NEW delta \in Int, AgentMovement(k, delta)
      PROVE  UNCHANGED agentVars \/ One
  BY <1>1, AgentOfKey DEF AgentMovement
<1>2. CASE Credit \/ OwnSpend \/ Refund
  BY <1>2 DEF Credit, OwnSpend, Refund, CreditLXC, SpendLXC,
              ReadForRefund, WriteForRefund, DropRefund
<1>3. ASSUME NEW k \in Keys, NEW amount \in Nat, Take(k, amount)
      PROVE  UNCHANGED agentVars \/ One
  <2>1. DrawFor(k, amount) \in Nat
    BY <1>0, DrawNat
  <2>2. DrawFor(k, amount) - amount \in Int
    BY <2>1
  <2>3. AgentMovement(k, DrawFor(k, amount) - amount)
    BY <1>3 DEF Take
  <2>4. QED
    BY <1>1, <2>2, <2>3
<1>4. CASE Reserve \/ PreServeDebit
  <2>1. PICK k \in Keys, n \in Amounts, bps \in FeeRates : Take(k, Gross(n, bps))
    BY <1>4 DEF Reserve, PreServeDebit, ReserveLXCForAgent, SpendLXCForAgent
  <2>2. Gross(n, bps) \in Nat
    BY <1>0, GrossNat
  <2>3. QED
    BY <1>3, <2>1, <2>2
<1>5. CASE Settle
  <2>1. PICK r \in Reservations, n \in Delivered : SettleLXCReservation(r, n)
    BY <1>5 DEF Settle
  <2>2. PICK charge \in Nat : Settled(r, charge)
    BY <2>1, SettleInv
  <2>3. /\ res[r].key \in Keys /\ res[r].held \in Nat
        /\ PlatformFee(charge, res[r].bps) \in Nat
    BY <1>0, <2>2 DEF Settled, IsHeld, RowsKeyed, WalletTyped, Reservation
  <2>4. AgentMovement(res[r].key, res[r].held - charge - PlatformFee(charge, res[r].bps))
    BY <2>2 DEF Settled
  <2>5. QED
    BY <1>1, <2>3, <2>4
<1>6. CASE Release
  <2>1. PICK r \in Reservations : ReleaseLXCReservation(r)
    BY <1>6 DEF Release
  <2>2. res[r].key \in Keys /\ res[r].held \in Int
    BY <1>0, <2>1 DEF ReleaseLXCReservation, IsHeld, RowsKeyed, WalletTyped,
                      Reservation
  <2>3. QED
    BY <1>1, <2>1, <2>2 DEF ReleaseLXCReservation
<1>7. CASE DebitSettle
  <2>1. PICK d \in Debits, n \in Delivered, rules \in Delivered :
          SettleAgentDebit(d, n, rules)
    BY <1>7 DEF DebitSettle
  <2>2. PICK draw \in Nat, charge \in Nat : Brought(d, draw, charge)
    BY <2>1, SettleAgentDebitInv
  <2> DEFINE fee == PlatformFee(charge, debit[d].bps)
             taken == Gross(debit[d].amount, debit[d].bps)
  <2>3. /\ debit[d].key \in Keys /\ fee \in Nat /\ taken \in Nat
        /\ AgentMovement(debit[d].key, draw - (charge + fee - taken))
    BY <1>0, <2>2 DEF Brought, RowsKeyed
  <2>4. draw - (charge + fee - taken) \in Int
    BY <2>3
  <2>5. QED
    BY <1>1, <2>3, <2>4
<1>8. CASE MoveFunds \/ Archive
  BY <1>0, <1>8 DEF MoveFunds, Archive, FundAgent, WithdrawAgent, ArchiveAgent,
                    Allocate, WalletTyped
<1>9. CASE Scheduled
  <2>1. PICK a \in Agents : TopUpAgent(a)
    BY <1>9 DEF Scheduled
  <2> DEFINE n == MinOf(TopUp[a].to - agentBal[a], balance - allocated)
  <2>2. n \in Int
    BY <1>0, WalletConstants DEF WalletTyped, MinOf
  <2>3. Allocate(a, n)
    BY <2>1 DEF TopUpAgent
  <2>4. QED
    BY <2>2, <2>3 DEF Allocate
<1>10. CASE Operate \/ UNCHANGED vars
  BY <1>10 DEF Operate, SetAgentCeiling, SetCreditLineOpen,
               PayCreditLineInvoice, vars
<1>11. CASE Pay
  BY <1>11 DEF Pay
<1>12. QED
  BY <1>2, <1>4, <1>5, <1>6, <1>7, <1>8, <1>9, <1>10, <1>11 DEF Next

\* What the model keeps in a variable of its own, allocated, is the SUM that
\* allocatedSQL computes when it is asked.
THEOREM AllocatedIsAlwaysTheSum == Spec => []AllocatedIsTheSum
<1>1. Init => AllocatedIsTheSum
  <2> SUFFICES ASSUME Init PROVE AllocatedIsTheSum
    OBVIOUS
  <2>1. agentBal \in [Agents -> Nat] /\ \A a \in Agents : agentBal[a] = 0
    BY DEF Init
  <2>2. Total(agentBal) = 0
    BY <2>1, TotalZero
  <2>3. QED
    BY <2>2 DEF Init, AllocatedIsTheSum
<1>2. ASSUME WalletInv, WalletInv', AllocatedIsTheSum, [Next]_vars
      PROVE  AllocatedIsTheSum'
  <2>0. WalletTyped /\ WalletTyped'
    BY <1>2 DEF WalletInv
  <2>a. agentBal \in [Agents -> Nat] /\ agentBal' \in [Agents -> Nat]
    BY <2>0 DEF WalletTyped
  <2>1. ASSUME NEW a \in Agents, NEW delta \in Int,
               agentBal'[a] = agentBal[a] + delta,
               \A b \in Agents \ {a} : agentBal'[b] = agentBal[b]
        PROVE  Total(agentBal') = Total(agentBal) + delta
    BY <2>a, <2>1, WalletRows, TotalMoves
  <2>2. ASSUME NEW a \in Agents, NEW b \in Agents, NEW n \in Nat, a # b,
               agentBal'[a] = agentBal[a] - n, agentBal'[b] = agentBal[b] + n,
               \A c \in Agents \ {a, b} : agentBal'[c] = agentBal[c]
        PROVE  Total(agentBal') = Total(agentBal)
    BY <2>a, <2>2, WalletRows, TotalStays
  <2>3. CASE UNCHANGED agentVars
    BY <1>2, <2>3 DEF agentVars, AllocatedIsTheSum
  <2>4. ASSUME NEW a \in Agents, NEW delta \in Int,
               agentBal' = [agentBal EXCEPT ![a] = @ + delta],
               allocated' = allocated + delta
        PROVE  AllocatedIsTheSum'
    <3>1. /\ agentBal'[a] = agentBal[a] + delta
          /\ \A b \in Agents \ {a} : agentBal'[b] = agentBal[b]
      BY <2>0, <2>4 DEF WalletTyped
    <3>2. Total(agentBal') = Total(agentBal) + delta
      BY <2>1, <3>1
    <3>3. QED
      BY <1>2, <2>4, <3>2 DEF AllocatedIsTheSum
  <2>5. ASSUME NEW a \in Agents, NEW b \in Agents, NEW n \in Amounts,
               PayAgent(a, b, n)
        PROVE  AllocatedIsTheSum'
    <3>1. /\ n \in Nat /\ a # b /\ allocated' = allocated
          /\ agentBal'[a] = agentBal[a] - n /\ agentBal'[b] = agentBal[b] + n
          /\ \A c \in Agents \ {a, b} : agentBal'[c] = agentBal[c]
      BY <2>0, <2>5, WalletConstants DEF PayAgent, WalletTyped
    <3>2. Total(agentBal') = Total(agentBal)
      BY <2>2, <3>1
    <3>3. QED
      BY <1>2, <3>1, <3>2 DEF AllocatedIsTheSum
  <2>6. QED
    BY <1>2, <2>3, <2>4, <2>5, AgentsMove
<1>3. QED
  BY WalletInvHolds, <1>1, <1>2, PTL DEF Spec

-----------------------------------------------------------------------------
(* The ledger.                                                             *)

\* The net of the ledger's rows.
LedgerSum ==
  ledger["purchase"] + ledger["admin_grant"] + ledger["credit_line_draw"]
  + ledger["spend"] + ledger["platform_fee"] + ledger["reservation_hold"]
  + ledger["reservation_release"]

\* Every entry of the ledger is an integer.
LEMMA LedgerInts ==
  ASSUME WalletTyped
  PROVE  /\ ledger \in [LedgerTypes -> Int]
         /\ ledger["purchase"] \in Int /\ ledger["admin_grant"] \in Int
         /\ ledger["credit_line_draw"] \in Int /\ ledger["spend"] \in Int
         /\ ledger["platform_fee"] \in Int
         /\ ledger["reservation_hold"] \in Int
         /\ ledger["reservation_release"] \in Int
         /\ balance \in Int /\ minted \in Int /\ wsSpent \in Int
BY LedgerTypeNames DEF WalletTyped

\* What a hold or a debit of amount does to the balance and its counters.
LEMMA TakeMovesBalance ==
  ASSUME WalletTyped, NEW k \in Keys, NEW amount \in Nat, Take(k, amount)
  PROVE  /\ DrawFor(k, amount) \in Nat
         /\ balance' = balance + DrawFor(k, amount) - amount
         /\ minted' = minted + DrawFor(k, amount)
         /\ wsSpent' = wsSpent + amount
<1>1. DrawFor(k, amount) \in Nat
  BY DrawNat
<1>2. QED
  BY <1>1 DEF Take, MoveBalance

\* A step that moves the balance, the counters and the ledger by the same
\* amount keeps them in agreement.
LEMMA SameMove ==
  ASSUME WalletTyped, LedgerReconciles, NEW n \in Int, balance' = balance + n,
         minted' - wsSpent' = minted - wsSpent + n,
         LedgerSum' = LedgerSum + n
  PROVE  LedgerReconciles'
<1>1. LedgerReconciles <=> balance = LedgerSum /\ balance = minted - wsSpent
  BY DEF LedgerReconciles, LedgerSum
<1>2. LedgerReconciles' <=> /\ balance' = LedgerSum'
                            /\ balance' = minted' - wsSpent'
  BY DEF LedgerReconciles, LedgerSum
<1>3. QED
  BY <1>1, <1>2

\* Holds, debits and their settles book what they take.
LEMMA QuestionsReconcile ==
  ASSUME WalletInv, LedgerReconciles,
         Reserve \/ Settle \/ Release \/ PreServeDebit \/ DebitSettle
  PROVE  LedgerReconciles'
<1>0. /\ WalletTyped /\ RowsKeyed /\ Amounts \subseteq Nat
      /\ FeeRates \subseteq 0..FeeDenominator
  BY WalletConstants DEF WalletInv
<1>1. CASE Reserve
  <2>1. PICK k \in Keys, r \in Reservations, n \in Amounts, bps \in FeeRates :
          ReserveLXCForAgent(k, r, n, bps)
    BY <1>1 DEF Reserve
  <2> DEFINE held == Gross(n, bps)
             draw == DrawFor(k, held)
  <2>2. held \in Nat
    BY <1>0, GrossNat
  <2>3. /\ draw \in Nat /\ balance' = balance + draw - held
        /\ minted' = minted + draw /\ wsSpent' = wsSpent + held
    BY <1>0, <2>1, <2>2, TakeMovesBalance DEF ReserveLXCForAgent
  <2>4. ledger' = [ledger EXCEPT !["reservation_hold"] = @ - held,
                                 !["credit_line_draw"] = @ + draw]
    BY <2>1 DEF ReserveLXCForAgent
  <2> HIDE DEF held, draw
  <2>5. LedgerSum' = LedgerSum + (draw - held)
    BY <1>0, <2>2, <2>3, <2>4, LedgerInts, LedgerTypeNames DEF LedgerSum
  <2>6. QED
    BY <1>0, <2>2, <2>3, <2>5, LedgerInts, SameMove
<1>2. CASE Settle
  <2>1. PICK r \in Reservations, delivered \in Delivered :
          SettleLXCReservation(r, delivered)
    BY <1>2 DEF Settle
  <2>2. PICK charge \in Nat : Settled(r, charge)
    BY <2>1, SettleInv
  <2> DEFINE held == res[r].held
             fee  == PlatformFee(charge, res[r].bps)
  <2>3. /\ held \in Nat /\ fee \in Nat
        /\ MoveBalance(0, charge + fee - held)
        /\ ledger' = SettleRows(held, charge, fee)
    BY <1>0, <2>2 DEF Settled, WalletTyped, Reservation
  <2> HIDE DEF held, fee
  <2>4. LedgerSum' = LedgerSum + (held - charge - fee)
    BY <1>0, <2>3, LedgerInts, LedgerTypeNames DEF LedgerSum, SettleRows
  <2>5. QED
    BY <1>0, <2>3, <2>4, LedgerInts, SameMove DEF MoveBalance
<1>3. CASE Release
  <2>1. PICK r \in Reservations : ReleaseLXCReservation(r)
    BY <1>3 DEF Release
  <2> DEFINE held == res[r].held
  <2>2. held \in Nat
    BY <1>0 DEF WalletTyped, Reservation
  <2>3. /\ MoveBalance(0, -held)
        /\ ledger' = [ledger EXCEPT !["reservation_release"] = @ + held]
    BY <2>1 DEF ReleaseLXCReservation
  <2> HIDE DEF held
  <2>4. LedgerSum' = LedgerSum + held
    BY <1>0, <2>2, <2>3, LedgerInts, LedgerTypeNames DEF LedgerSum
  <2>5. QED
    BY <1>0, <2>2, <2>3, <2>4, LedgerInts, SameMove DEF MoveBalance
<1>4. CASE PreServeDebit
  <2>1. PICK k \in Keys, d \in Debits, n \in Amounts, bps \in FeeRates :
          SpendLXCForAgent(k, d, n, bps)
    BY <1>4 DEF PreServeDebit
  <2> DEFINE fee == PlatformFee(n, bps)
             gross == Gross(n, bps)
             draw == DrawFor(k, gross)
  <2>2. n \in Nat /\ fee \in Nat /\ gross \in Nat /\ gross = n + fee
    BY <1>0, GrossNat DEF Gross
  <2>3. /\ draw \in Nat /\ balance' = balance + draw - gross
        /\ minted' = minted + draw /\ wsSpent' = wsSpent + gross
    BY <1>0, <2>1, <2>2, TakeMovesBalance DEF SpendLXCForAgent
  <2>4. ledger' = [ledger EXCEPT !["spend"] = @ - n,
                                 !["platform_fee"] = @ - fee,
                                 !["credit_line_draw"] = @ + draw]
    BY <2>1 DEF SpendLXCForAgent
  <2> HIDE DEF fee, gross, draw
  <2>5. LedgerSum' = LedgerSum + (draw - gross)
    BY <1>0, <2>2, <2>3, <2>4, LedgerInts, LedgerTypeNames DEF LedgerSum
  <2>6. QED
    BY <1>0, <2>2, <2>3, <2>5, LedgerInts, SameMove
<1>5. CASE DebitSettle
  <2>1. PICK d \in Debits, n \in Delivered, rules \in Delivered :
          SettleAgentDebit(d, n, rules)
    BY <1>5 DEF DebitSettle
  <2>2. PICK draw \in Nat, charge \in Nat : Brought(d, draw, charge)
    BY <2>1, SettleAgentDebitInv
  <2> DEFINE old == debit[d].amount
             oldfee == PlatformFee(old, debit[d].bps)
             fee == PlatformFee(charge, debit[d].bps)
             taken == Gross(old, debit[d].bps)
             more == charge + fee - taken
  <2>3. /\ old \in Nat /\ debit[d].bps \in 0..FeeDenominator
    BY <1>0 DEF WalletTyped, DebitRow
  <2>4. oldfee \in Nat /\ taken = old + oldfee
    BY <2>3, GrossNat DEF Gross
  <2>5. /\ fee \in Nat /\ MoveBalance(draw, more)
        /\ ledger' = [ledger EXCEPT !["spend"] = @ - (charge - old),
                                    !["platform_fee"] = @ - (fee - oldfee),
                                    !["credit_line_draw"] = @ + draw]
    BY <2>2 DEF Brought
  <2>6. more \in Int /\ more = charge + fee - old - oldfee
    BY <2>3, <2>4, <2>5
  <2> HIDE DEF old, oldfee, fee, taken, more
  <2>7. LedgerSum' = LedgerSum + (draw - more)
    BY <1>0, <2>3, <2>4, <2>5, <2>6, LedgerInts, LedgerTypeNames DEF LedgerSum
  <2>8. QED
    BY <1>0, <2>5, <2>6, <2>7, LedgerInts, SameMove DEF MoveBalance
<1>6. QED
  BY <1>1, <1>2, <1>3, <1>4, <1>5

\* The stored balance is the sum of the ledger's rows and the difference of the
\* lifetime counters after every purchase, grant, hold, settle, release, debit
\* and draw on the credit line.
THEOREM LedgerAlwaysReconciles == Spec => []LedgerReconciles
<1>1. Init => LedgerReconciles
  BY LedgerTypeNames DEF Init, LedgerReconciles
<1>2. ASSUME WalletInv, LedgerReconciles, [Next]_vars
      PROVE  LedgerReconciles'
  <2>0. /\ WalletTyped /\ Amounts \subseteq Nat
        /\ FeeRates \subseteq 0..FeeDenominator
    BY <1>2, WalletConstants DEF WalletInv
  <2>1. CASE Credit
    <3>1. PICK n \in Amounts, t \in {"purchase", "admin_grant"} :
            CreditLXC(t, n)
      BY <2>1 DEF Credit
    <3>2. n \in Nat
      BY <2>0
    <3>3. LedgerSum' = LedgerSum + n
      BY <2>0, <3>1, <3>2, LedgerInts, LedgerTypeNames
         DEF CreditLXC, LedgerSum
    <3>4. QED
      BY <1>2, <2>0, <3>1, <3>2, <3>3, LedgerInts, SameMove
         DEF CreditLXC, MoveBalance
  <2>2. CASE OwnSpend
    <3>1. PICK n \in Amounts, bps \in FeeRates : SpendLXC(n, bps)
      BY <2>2 DEF OwnSpend
    <3> DEFINE fee == PlatformFee(n, bps)
    <3>2. n \in Nat /\ fee \in Nat
      BY <2>0, GrossNat
    <3>3. /\ MoveBalance(0, n + fee)
          /\ ledger' = [ledger EXCEPT !["spend"] = @ - n,
                                      !["platform_fee"] = @ - fee]
      BY <3>1 DEF SpendLXC
    <3> HIDE DEF fee
    <3>4. LedgerSum' = LedgerSum + (-(n + fee))
      BY <2>0, <3>2, <3>3, LedgerInts, LedgerTypeNames DEF LedgerSum
    <3>5. QED
      BY <1>2, <2>0, <3>2, <3>3, <3>4, LedgerInts, SameMove DEF MoveBalance
  <2>3. CASE Reserve \/ Settle \/ Release \/ PreServeDebit \/ DebitSettle
    BY <1>2, <2>3, QuestionsReconcile
  <2>4. CASE \/ Refund \/ MoveFunds \/ Scheduled \/ Pay \/ Archive \/ Operate
             \/ UNCHANGED vars
    <3>1. UNCHANGED <<balance, minted, wsSpent, ledger>>
      BY <2>4 DEF Refund, ReadForRefund, WriteForRefund, DropRefund, MoveFunds,
                  Scheduled, Pay, Archive, Operate, FundAgent, WithdrawAgent,
                  TopUpAgent, PayAgent, ArchiveAgent, SetAgentCeiling, SetCreditLineOpen,
                  PayCreditLineInvoice, vars, moneyVars
    <3>2. QED
      BY <1>2, <3>1 DEF LedgerReconciles
  <2>5. QED
    BY <1>2, <2>1, <2>2, <2>3, <2>4 DEF Next
<1>3. QED
  BY WalletInvHolds, <1>1, <1>2, PTL DEF Spec

-----------------------------------------------------------------------------
(* Holds.                                                                  *)

\* What a hold keeps is a natural number, and so is the total.
LEMMA HeldNat ==
  ASSUME WalletTyped
  PROVE  /\ \A r \in Reservations : HeldBy(r) \in Nat
         /\ HeldTotal \in Nat
<1>1. \A r \in Reservations : HeldBy(r) \in Nat
  BY DEF HeldBy, WalletTyped, Reservation
<1>2. [r \in Reservations |-> HeldBy(r)] \in [Reservations -> Nat]
  BY <1>1
<1>3. QED
  BY <1>1, <1>2, WalletRows, TotalNat DEF HeldTotal

\* When one reservation changes, the total of the holds follows it.
LEMMA HeldTotalMoves ==
  ASSUME WalletTyped, WalletTyped', NEW r \in Reservations,
         \A q \in Reservations \ {r} : res'[q] = res[q]
  PROVE  HeldTotal' = HeldTotal + (HeldBy(r)' - HeldBy(r))
<1> DEFINE f == [q \in Reservations |-> HeldBy(q)]
           g == [q \in Reservations |-> HeldBy(q)']
           delta == HeldBy(r)' - HeldBy(r)
<1>1. \A q \in Reservations : HeldBy(q) \in Nat
  BY HeldNat
<1>2. \A q \in Reservations : HeldBy(q)' \in Nat
  BY DEF HeldBy, WalletTyped, Reservation
<1>3. \A q \in Reservations \ {r} : HeldBy(q)' = HeldBy(q)
  BY DEF HeldBy
<1>4. /\ f \in [Reservations -> Nat] /\ g \in [Reservations -> Nat]
      /\ delta \in Int /\ g[r] = f[r] + delta
      /\ \A q \in Reservations \ {r} : g[q] = f[q]
  BY <1>1, <1>2, <1>3
<1>5. HeldTotal = Total(f) /\ HeldTotal' = Total(g)
  BY DEF HeldTotal
<1> HIDE DEF f, g, delta
<1>6. Total(g) = Total(f) + delta
  BY <1>4, WalletRows, TotalMoves
<1>7. QED
  BY <1>5, <1>6 DEF delta

\* The steps that leave the hold and release rows of the ledger and every
\* reservation alone.
LEMMA HoldsKept ==
  ASSUME WalletInv,
         \/ Credit \/ OwnSpend \/ Refund \/ PreServeDebit \/ DebitSettle
         \/ MoveFunds \/ Scheduled \/ Pay \/ Archive \/ Operate
         \/ UNCHANGED vars
  PROVE  /\ res' = res
         /\ ledger'["reservation_hold"] = ledger["reservation_hold"]
         /\ ledger'["reservation_release"] = ledger["reservation_release"]
<1>0. ledger \in [LedgerTypes -> Int]
  BY LedgerInts DEF WalletInv
<1>1. res' = res
  BY ReservationsKept
<1>2. CASE Credit \/ OwnSpend \/ Refund \/ PreServeDebit
  BY <1>0, <1>1, <1>2, LedgerTypeNames
     DEF Credit, OwnSpend, Refund, PreServeDebit, CreditLXC, SpendLXC,
         ReadForRefund, WriteForRefund, DropRefund, SpendLXCForAgent
<1>3. CASE DebitSettle
  <2>1. PICK d \in Debits, n \in Delivered, rules \in Delivered :
          SettleAgentDebit(d, n, rules)
    BY <1>3 DEF DebitSettle
  <2>2. QED
    BY <1>0, <1>1, <2>1, LedgerTypeNames DEF SettleAgentDebit
<1>4. CASE MoveFunds \/ Scheduled \/ Pay \/ Archive \/ Operate
  BY <1>1, <1>4
     DEF MoveFunds, Scheduled, Pay, Archive, Operate, FundAgent,
         WithdrawAgent, TopUpAgent, PayAgent, ArchiveAgent,
         SetAgentCeiling, SetCreditLineOpen, PayCreditLineInvoice
<1>5. CASE UNCHANGED vars
  BY <1>1, <1>5 DEF vars
<1>6. QED
  BY <1>2, <1>3, <1>4, <1>5

\* What the steps on a reservation do to what it holds: a hold opens with its
\* row in the ledger, and a settle or a release closes it with the opposite one.
LEMMA HoldSteps ==
  ASSUME WalletInv, WalletInv', Reserve \/ Settle \/ Release
  PROVE  \E r \in Reservations :
           /\ \A q \in Reservations \ {r} : res'[q] = res[q]
           /\ (ledger["reservation_hold"] + ledger["reservation_release"])'
                = ledger["reservation_hold"] + ledger["reservation_release"]
                  - (HeldBy(r)' - HeldBy(r))
<1>0. /\ WalletTyped /\ RowsKeyed /\ Amounts \subseteq Nat
      /\ FeeRates \subseteq 0..FeeDenominator
  BY WalletConstants DEF WalletInv
<1>1. CASE Reserve
  <2>1. PICK k \in Keys, r \in Reservations, n \in Amounts, bps \in FeeRates :
          ReserveLXCForAgent(k, r, n, bps)
    BY <1>1 DEF Reserve
  <2> DEFINE held == Gross(n, bps)
  <2>2. held \in Nat
    BY <1>0, GrossNat
  <2>3. /\ ledger' = [ledger EXCEPT !["reservation_hold"] = @ - held,
                                    !["credit_line_draw"] = @ + DrawFor(k, held)]
        /\ res' = [res EXCEPT ![r] = [status |-> "held", key |-> k,
                                      held |-> held, bps |-> bps, settled |-> 0]]
        /\ res[r].status = "none"
    BY <2>1 DEF ReserveLXCForAgent
  <2> HIDE DEF held
  <2>4. HeldBy(r) = 0 /\ HeldBy(r)' = held
    BY <1>0, <2>3 DEF HeldBy, WalletTyped
  <2>5. /\ ledger'["reservation_hold"] = ledger["reservation_hold"] - held
        /\ ledger'["reservation_release"] = ledger["reservation_release"]
    BY <1>0, <2>3, LedgerInts, LedgerTypeNames
  <2>6. \A q \in Reservations \ {r} : res'[q] = res[q]
    BY <1>0, <2>3 DEF WalletTyped
  <2>7. QED
    BY <1>0, <2>2, <2>4, <2>5, <2>6, LedgerInts
<1>2. ASSUME NEW r \in Reservations, NEW row, row.status # "held", IsHeld(r),
             res' = [res EXCEPT ![r] = row],
             ledger'["reservation_hold"] = ledger["reservation_hold"],
             ledger'["reservation_release"]
               = ledger["reservation_release"] + res[r].held
      PROVE  /\ \A q \in Reservations \ {r} : res'[q] = res[q]
             /\ (ledger["reservation_hold"] + ledger["reservation_release"])'
                  = ledger["reservation_hold"] + ledger["reservation_release"]
                    - (HeldBy(r)' - HeldBy(r))
  <2>1. HeldBy(r) = res[r].held /\ HeldBy(r)' = 0 /\ res[r].held \in Nat
    BY <1>0, <1>2 DEF HeldBy, IsHeld, WalletTyped, Reservation
  <2>2. \A q \in Reservations \ {r} : res'[q] = res[q]
    BY <1>0, <1>2 DEF WalletTyped
  <2>3. QED
    BY <1>0, <1>2, <2>1, <2>2, LedgerInts
<1>3. CASE Settle
  <2>1. PICK r \in Reservations, n \in Delivered : SettleLXCReservation(r, n)
    BY <1>3 DEF Settle
  <2>2. PICK charge \in Nat : Settled(r, charge)
    BY <2>1, SettleInv
  <2> DEFINE row == [res[r] EXCEPT !.status = "settled", !.settled = charge]
  <2>3. IsHeld(r) /\ res' = [res EXCEPT ![r] = row] /\ row.status # "held"
    BY <1>0, <2>2 DEF Settled, WalletTyped, Reservation
  <2>4. /\ ledger'["reservation_hold"] = ledger["reservation_hold"]
        /\ ledger'["reservation_release"]
             = ledger["reservation_release"] + res[r].held
    BY <1>0, <2>2, LedgerInts, LedgerTypeNames DEF Settled, SettleRows
  <2> HIDE DEF row
  <2>5. QED
    BY <1>2, <2>3, <2>4
<1>4. CASE Release
  <2>1. PICK r \in Reservations : ReleaseLXCReservation(r)
    BY <1>4 DEF Release
  <2> DEFINE row == [res[r] EXCEPT !.status = "released"]
  <2>2. IsHeld(r) /\ res' = [res EXCEPT ![r] = row] /\ row.status # "held"
    BY <1>0, <2>1 DEF ReleaseLXCReservation, WalletTyped, Reservation
  <2>3. /\ ledger'["reservation_hold"] = ledger["reservation_hold"]
        /\ ledger'["reservation_release"]
             = ledger["reservation_release"] + res[r].held
    BY <1>0, <2>1, LedgerInts, LedgerTypeNames DEF ReleaseLXCReservation
  <2> HIDE DEF row
  <2>4. QED
    BY <1>2, <2>2, <2>3
<1>5. QED
  BY <1>1, <1>3, <1>4

\* The hold rows and the release rows of the ledger net to exactly the holds
\* still open, however settles, releases and the sweeper are ordered.
THEOREM HoldsAlwaysNetOut == Spec => []HoldsNetOut
<1>1. Init => HoldsNetOut
  <2> SUFFICES ASSUME Init PROVE HoldsNetOut
    OBVIOUS
  <2>1. \A r \in Reservations : HeldBy(r) = 0
    BY DEF Init, HeldBy, NoReservation
  <2>2. HeldTotal = 0
    BY <2>1, TotalZero DEF HeldTotal
  <2>3. ledger["reservation_hold"] = 0 /\ ledger["reservation_release"] = 0
    BY LedgerTypeNames DEF Init
  <2>4. QED
    BY <2>2, <2>3 DEF HoldsNetOut
<1>2. ASSUME WalletInv, WalletInv', HoldsNetOut, [Next]_vars
      PROVE  HoldsNetOut'
  <2>0. WalletTyped /\ WalletTyped'
    BY <1>2 DEF WalletInv
  <2>1. CASE Reserve \/ Settle \/ Release
    <3>1. PICK r \in Reservations :
            /\ \A q \in Reservations \ {r} : res'[q] = res[q]
            /\ (ledger["reservation_hold"] + ledger["reservation_release"])'
                 = ledger["reservation_hold"] + ledger["reservation_release"]
                   - (HeldBy(r)' - HeldBy(r))
      BY <1>2, <2>1, HoldSteps
    <3>2. HeldTotal' = HeldTotal + (HeldBy(r)' - HeldBy(r))
      BY <2>0, <3>1, HeldTotalMoves
    <3>3. HeldTotal \in Nat /\ HeldBy(r) \in Nat /\ HeldBy(r)' \in Nat
      BY <2>0, HeldNat DEF HeldBy, WalletTyped, Reservation
    <3>4. QED
      BY <1>2, <2>0, <3>1, <3>2, <3>3, LedgerInts DEF HoldsNetOut
  <2>2. CASE \/ Credit \/ OwnSpend \/ Refund \/ PreServeDebit \/ DebitSettle
             \/ MoveFunds \/ Scheduled \/ Pay \/ Archive \/ Operate
             \/ UNCHANGED vars
    <3>1. HeldTotal' = HeldTotal
      BY <1>2, <2>2, HoldsKept DEF HeldTotal, HeldBy
    <3>2. QED
      BY <1>2, <2>2, <3>1, HoldsKept DEF HoldsNetOut
  <2>3. QED
    BY <1>2, <2>1, <2>2 DEF Next
<1>3. QED
  BY WalletInvHolds, <1>1, <1>2, PTL DEF Spec

-----------------------------------------------------------------------------
(* Budgets.                                                                *)

\* A question that was charged nothing took nothing.
LEMMA GrossZero ==
  ASSUME NEW bps \in 0..FeeDenominator
  PROVE  Gross(0, bps) = 0
BY DEF Gross, PlatformFee

\* What rows have taken is a natural number.
LEMMA TakenNat ==
  ASSUME WalletTyped
  PROVE  /\ \A r \in Reservations : ReservationTaken(r) \in Nat
         /\ \A d \in Debits : DebitTaken(d) \in Nat
<1>1. ASSUME NEW r \in Reservations
      PROVE  ReservationTaken(r) \in Nat
  <2>1. /\ res[r].held \in Nat /\ res[r].settled \in Nat
        /\ res[r].bps \in 0..FeeDenominator
    BY DEF WalletTyped, Reservation
  <2>2. QED
    BY <2>1, GrossNat DEF ReservationTaken
<1>2. ASSUME NEW d \in Debits
      PROVE  DebitTaken(d) \in Nat
  <2>1. debit[d].charge \in Nat /\ debit[d].bps \in 0..FeeDenominator
    BY DEF WalletTyped, DebitRow
  <2>2. QED
    BY <2>1, GrossNat DEF DebitTaken
<1>3. QED
  BY <1>1, <1>2

\* The same of the next state.
LEMMA TakenNatNext ==
  ASSUME WalletTyped'
  PROVE  /\ \A r \in Reservations : ReservationTaken(r)' \in Nat
         /\ \A d \in Debits : DebitTaken(d)' \in Nat
<1>1. ASSUME NEW r \in Reservations
      PROVE  ReservationTaken(r)' \in Nat
  <2>1. /\ res'[r].held \in Nat /\ res'[r].settled \in Nat
        /\ res'[r].bps \in 0..FeeDenominator
    BY DEF WalletTyped, Reservation
  <2>2. QED
    BY <2>1, GrossNat DEF ReservationTaken
<1>2. ASSUME NEW d \in Debits
      PROVE  DebitTaken(d)' \in Nat
  <2>1. debit'[d].charge \in Nat /\ debit'[d].bps \in 0..FeeDenominator
    BY DEF WalletTyped, DebitRow
  <2>2. QED
    BY <2>1, GrossNat DEF DebitTaken
<1>3. QED
  BY <1>1, <1>2

\* A step that changes what one reservation has taken, and its key's spent_lxc
\* by as much, keeps the budgets in agreement with the rows.
LEMMA ReservationBudget ==
  ASSUME WalletTyped, WalletTyped', BudgetReconciles, NEW r \in Reservations,
         NEW k \in Keys, NEW delta \in Int, BumpSpent(k, delta),
         \A q \in Reservations \ {r} : res'[q] = res[q], debit' = debit,
         res'[r].key = k, res[r].key = k \/ ReservationTaken(r) = 0,
         ReservationTaken(r)' = ReservationTaken(r) + delta
  PROVE  BudgetReconciles'
<1> SUFFICES ASSUME NEW j \in Keys
             PROVE  budget'[j].spent
                      = Total([q \in Reservations |-> ReservationTakenFrom(j, q)'])
                        + Total([d \in Debits |-> DebitTakenFrom(j, d)'])
  BY DEF BudgetReconciles
<1> DEFINE f == [q \in Reservations |-> ReservationTakenFrom(j, q)]
           g == [q \in Reservations |-> ReservationTakenFrom(j, q)']
           h == [d \in Debits |-> DebitTakenFrom(j, d)]
           n == IF j = k THEN delta ELSE 0
<1>1. /\ \A q \in Reservations : ReservationTaken(q) \in Nat
      /\ \A q \in Reservations : ReservationTaken(q)' \in Nat
      /\ \A d \in Debits : DebitTaken(d) \in Nat
  BY TakenNat, TakenNatNext
<1>2. /\ f \in [Reservations -> Nat] /\ g \in [Reservations -> Nat]
      /\ h \in [Debits -> Nat] /\ n \in Int
  BY <1>1 DEF ReservationTakenFrom, DebitTakenFrom
<1>3. \A q \in Reservations \ {r} : g[q] = f[q]
  BY DEF ReservationTakenFrom, ReservationTaken
<1>4. g[r] = f[r] + n
  BY <1>1 DEF ReservationTakenFrom
<1>5. Total([d \in Debits |-> DebitTakenFrom(j, d)']) = Total(h)
  BY DEF DebitTakenFrom, DebitTaken
<1>6. budget[j].spent = Total(f) + Total(h)
  BY DEF BudgetReconciles
<1>7. budget'[j].spent = budget[j].spent + n /\ budget[j].spent \in Int
  BY DEF BumpSpent, WalletTyped
<1> HIDE DEF f, g, h, n
<1>8. Total(g) = Total(f) + n /\ Total(f) \in Nat /\ Total(h) \in Nat
  BY <1>2, <1>3, <1>4, WalletRows, TotalMoves, TotalNat
<1>9. budget'[j].spent = Total(g) + Total(h)
  BY <1>2, <1>6, <1>7, <1>8
<1>10. QED
  BY <1>5, <1>9 DEF g

\* The same for a debit.
LEMMA DebitBudget ==
  ASSUME WalletTyped, WalletTyped', BudgetReconciles, NEW d \in Debits,
         NEW k \in Keys, NEW delta \in Int, BumpSpent(k, delta),
         \A e \in Debits \ {d} : debit'[e] = debit[e], res' = res,
         debit'[d].key = k, debit[d].key = k \/ DebitTaken(d) = 0,
         DebitTaken(d)' = DebitTaken(d) + delta
  PROVE  BudgetReconciles'
<1> SUFFICES ASSUME NEW j \in Keys
             PROVE  budget'[j].spent
                      = Total([r \in Reservations |-> ReservationTakenFrom(j, r)'])
                        + Total([e \in Debits |-> DebitTakenFrom(j, e)'])
  BY DEF BudgetReconciles
<1> DEFINE f == [e \in Debits |-> DebitTakenFrom(j, e)]
           g == [e \in Debits |-> DebitTakenFrom(j, e)']
           h == [r \in Reservations |-> ReservationTakenFrom(j, r)]
           n == IF j = k THEN delta ELSE 0
<1>1. /\ \A e \in Debits : DebitTaken(e) \in Nat
      /\ \A e \in Debits : DebitTaken(e)' \in Nat
      /\ \A r \in Reservations : ReservationTaken(r) \in Nat
  BY TakenNat, TakenNatNext
<1>2. /\ f \in [Debits -> Nat] /\ g \in [Debits -> Nat]
      /\ h \in [Reservations -> Nat] /\ n \in Int
  BY <1>1 DEF ReservationTakenFrom, DebitTakenFrom
<1>3. \A e \in Debits \ {d} : g[e] = f[e]
  BY DEF DebitTakenFrom, DebitTaken
<1>4. g[d] = f[d] + n
  BY <1>1 DEF DebitTakenFrom
<1>5. Total([r \in Reservations |-> ReservationTakenFrom(j, r)']) = Total(h)
  BY DEF ReservationTakenFrom, ReservationTaken
<1>6. budget[j].spent = Total(h) + Total(f)
  BY DEF BudgetReconciles
<1>7. budget'[j].spent = budget[j].spent + n /\ budget[j].spent \in Int
  BY DEF BumpSpent, WalletTyped
<1> HIDE DEF f, g, h, n
<1>8. Total(g) = Total(f) + n /\ Total(f) \in Nat /\ Total(h) \in Nat
  BY <1>2, <1>3, <1>4, WalletRows, TotalMoves, TotalNat
<1>9. budget'[j].spent = Total(h) + Total(g)
  BY <1>2, <1>6, <1>7, <1>8
<1>10. QED
  BY <1>5, <1>9 DEF g

\* The steps on a reservation keep the rows and the budgets.
LEMMA ReservationsReconcile ==
  ASSUME WalletInv, WalletInv', RowsCharged, BudgetReconciles,
         Reserve \/ Settle \/ Release
  PROVE  RowsCharged' /\ BudgetReconciles'
<1>0. /\ WalletTyped /\ WalletTyped' /\ RowsKeyed /\ Amounts \subseteq Nat
      /\ FeeRates \subseteq 0..FeeDenominator
  BY WalletConstants DEF WalletInv
<1>1. CASE Reserve
  <2>1. PICK k \in Keys, r \in Reservations, n \in Amounts, bps \in FeeRates :
          ReserveLXCForAgent(k, r, n, bps)
    BY <1>1 DEF Reserve
  <2> DEFINE held == Gross(n, bps)
             row == [status |-> "held", key |-> k, held |-> held, bps |-> bps,
                     settled |-> 0]
  <2>2. /\ res[r].status = "none" /\ BumpSpent(k, held) /\ debit' = debit
        /\ res' = [res EXCEPT ![r] = row]
    BY <2>1 DEF ReserveLXCForAgent, Take
  <2>3. held \in Nat
    BY <1>0, GrossNat
  <2> HIDE DEF held
  <2>4. res'[r] = row /\ \A q \in Reservations \ {r} : res'[q] = res[q]
    BY <1>0, <2>2 DEF WalletTyped
  <2>5. RowsCharged'
    BY <2>2, <2>4 DEF RowsCharged
  <2>6. ReservationTaken(r) = 0
    <3>1. res[r].settled = 0 /\ res[r].bps \in 0..FeeDenominator
      BY <1>0, <2>2 DEF RowsCharged, WalletTyped, Reservation
    <3>2. QED
      BY <2>2, <3>1, GrossZero DEF ReservationTaken
  <2>7. ReservationTaken(r)' = held
    BY <2>4 DEF ReservationTaken
  <2>8. res'[r].key = k
    BY <2>4
  <2>9. QED
    BY <1>0, <2>2, <2>3, <2>4, <2>5, <2>6, <2>7, <2>8, ReservationBudget
<1>2. CASE Settle
  <2>1. PICK r \in Reservations, n \in Delivered : SettleLXCReservation(r, n)
    BY <1>2 DEF Settle
  <2>2. PICK charge \in Nat : Settled(r, charge)
    BY <2>1, SettleInv
  <2> DEFINE k    == res[r].key
             held == res[r].held
             fee  == PlatformFee(charge, res[r].bps)
             row  == [res[r] EXCEPT !.status = "settled", !.settled = charge]
  <2>3. /\ res[r] \in Reservation /\ k \in Keys /\ held \in Nat /\ fee \in Nat
        /\ res[r].status = "held" /\ BumpSpent(k, charge + fee - held)
        /\ res' = [res EXCEPT ![r] = row] /\ debit' = debit
    BY <1>0, <2>2 DEF Settled, IsHeld, RowsKeyed, WalletTyped, Reservation
  <2>4. /\ row.status = "settled" /\ row.key = k /\ row.settled = charge
        /\ row.bps = res[r].bps
    BY <2>3 DEF Reservation
  <2> HIDE DEF row
  <2>5. res'[r] = row /\ \A q \in Reservations \ {r} : res'[q] = res[q]
    BY <1>0, <2>3 DEF WalletTyped
  <2>6. RowsCharged'
    BY <2>3, <2>4, <2>5 DEF RowsCharged
  <2>7. ReservationTaken(r) = held
    BY <2>3 DEF ReservationTaken
  <2>8. ReservationTaken(r)' = charge + fee
    BY <2>4, <2>5 DEF ReservationTaken, Gross
  <2>9. res'[r].key = k
    BY <2>4, <2>5
  <2> HIDE DEF k, held, fee
  <2>10. charge + fee - held \in Int /\ charge + fee = held + (charge + fee - held)
    BY <2>3
  <2>11. res[r].key = k
    BY DEF k
  <2>12. ReservationTaken(r)' = ReservationTaken(r) + (charge + fee - held)
    BY <2>7, <2>8, <2>10
  <2>13. BudgetReconciles'
    BY <1>0, <2>3, <2>5, <2>9, <2>10, <2>11, <2>12, ReservationBudget
  <2>14. QED
    BY <2>6, <2>13
<1>3. CASE Release
  <2>1. PICK r \in Reservations : ReleaseLXCReservation(r)
    BY <1>3 DEF Release
  <2> DEFINE k    == res[r].key
             held == res[r].held
             row  == [res[r] EXCEPT !.status = "released"]
  <2>2. /\ res[r] \in Reservation /\ k \in Keys /\ held \in Nat
        /\ res[r].status = "held" /\ BumpSpent(k, -held)
        /\ res' = [res EXCEPT ![r] = row] /\ debit' = debit
    BY <1>0, <2>1
       DEF ReleaseLXCReservation, IsHeld, RowsKeyed, WalletTyped, Reservation
  <2>3. /\ row.status = "released" /\ row.key = k /\ row.settled = 0
        /\ row.bps \in 0..FeeDenominator
    BY <2>2 DEF Reservation, RowsCharged
  <2> HIDE DEF row
  <2>4. res'[r] = row /\ \A q \in Reservations \ {r} : res'[q] = res[q]
    BY <1>0, <2>2 DEF WalletTyped
  <2>5. RowsCharged'
    BY <2>2, <2>3, <2>4 DEF RowsCharged
  <2>6. ReservationTaken(r) = held
    BY <2>2 DEF ReservationTaken
  <2>7. ReservationTaken(r)' = 0
    BY <2>3, <2>4, GrossZero DEF ReservationTaken
  <2>8. res'[r].key = k
    BY <2>3, <2>4
  <2>9. res[r].key = k
    OBVIOUS
  <2> HIDE DEF k, held
  <2>10. -held \in Int /\ ReservationTaken(r)' = ReservationTaken(r) + (-held)
    BY <2>2, <2>6, <2>7
  <2>11. BudgetReconciles'
    BY <1>0, <2>2, <2>4, <2>8, <2>9, <2>10, ReservationBudget
  <2>12. QED
    BY <2>5, <2>11
<1>4. QED
  BY <1>1, <1>2, <1>3

\* The steps on a debit keep the rows and the budgets.
LEMMA DebitsReconcile ==
  ASSUME WalletInv, WalletInv', RowsCharged, BudgetReconciles,
         PreServeDebit \/ DebitSettle
  PROVE  RowsCharged' /\ BudgetReconciles'
<1>0. /\ WalletTyped /\ WalletTyped' /\ RowsKeyed /\ Amounts \subseteq Nat
      /\ FeeRates \subseteq 0..FeeDenominator
  BY WalletConstants DEF WalletInv
<1>1. CASE PreServeDebit
  <2>1. PICK k \in Keys, d \in Debits, n \in Amounts, bps \in FeeRates :
          SpendLXCForAgent(k, d, n, bps)
    BY <1>1 DEF PreServeDebit
  <2> DEFINE gross == Gross(n, bps)
             row == [status |-> "debited", key |-> k, amount |-> n,
                     bps |-> bps, charge |-> n]
  <2>2. /\ debit[d].status = "none" /\ BumpSpent(k, gross) /\ res' = res
        /\ debit' = [debit EXCEPT ![d] = row]
    BY <2>1 DEF SpendLXCForAgent, Take
  <2>3. gross \in Nat
    BY <1>0, GrossNat
  <2>4. debit'[d] = row /\ \A e \in Debits \ {d} : debit'[e] = debit[e]
    BY <1>0, <2>2 DEF WalletTyped
  <2>5. RowsCharged'
    BY <2>2, <2>4 DEF RowsCharged
  <2>6. DebitTaken(d) = 0
    <3>1. debit[d].charge = 0 /\ debit[d].bps \in 0..FeeDenominator
      BY <1>0, <2>2 DEF RowsCharged, WalletTyped, DebitRow
    <3>2. QED
      BY <3>1, GrossZero DEF DebitTaken
  <2>7. DebitTaken(d)' = gross
    BY <2>4 DEF DebitTaken
  <2>8. debit'[d].key = k
    BY <2>4
  <2> HIDE DEF gross
  <2>9. QED
    BY <1>0, <2>2, <2>3, <2>4, <2>5, <2>6, <2>7, <2>8, DebitBudget
<1>2. CASE DebitSettle
  <2>1. PICK d \in Debits, n \in Delivered, rules \in Delivered :
          SettleAgentDebit(d, n, rules)
    BY <1>2 DEF DebitSettle
  <2>2. PICK draw \in Nat, charge \in Nat : Brought(d, draw, charge)
    BY <2>1, SettleAgentDebitInv
  <2> DEFINE k     == debit[d].key
             fee   == PlatformFee(charge, debit[d].bps)
             taken == Gross(debit[d].amount, debit[d].bps)
             row   == [debit[d] EXCEPT !.status = "settled", !.charge = charge]
  <2>3. /\ debit[d] \in DebitRow /\ k \in Keys /\ fee \in Nat /\ taken \in Nat
        /\ debit[d].status = "debited"
        /\ BumpSpent(k, charge + fee - taken)
        /\ debit' = [debit EXCEPT ![d] = row] /\ res' = res
    BY <1>0, <2>2 DEF Brought, RowsKeyed, WalletTyped, DebitRow
  <2>4. /\ row.status = "settled" /\ row.key = k /\ row.charge = charge
        /\ row.bps = debit[d].bps
    BY <2>3 DEF DebitRow
  <2> HIDE DEF row
  <2>5. debit'[d] = row /\ \A e \in Debits \ {d} : debit'[e] = debit[e]
    BY <1>0, <2>3 DEF WalletTyped
  <2>6. RowsCharged'
    BY <2>3, <2>4, <2>5 DEF RowsCharged
  <2>7. DebitTaken(d) = taken
    BY <2>3 DEF DebitTaken, RowsCharged
  <2>8. DebitTaken(d)' = charge + fee
    BY <2>4, <2>5 DEF DebitTaken, Gross
  <2>9. debit'[d].key = k /\ debit[d].key = k
    BY <2>4, <2>5
  <2> HIDE DEF k, fee, taken
  <2>10. /\ charge + fee - taken \in Int
         /\ DebitTaken(d)' = DebitTaken(d) + (charge + fee - taken)
    BY <2>3, <2>7, <2>8
  <2>11. BudgetReconciles'
    BY <1>0, <2>3, <2>5, <2>9, <2>10, DebitBudget
  <2>12. QED
    BY <2>6, <2>11
<1>3. QED
  BY <1>1, <1>2

\* The steps that touch no question leave what keys have spent alone.
LEMMA SpentKept ==
  ASSUME WalletInv,
         \/ Credit \/ OwnSpend \/ Refund \/ MoveFunds \/ Scheduled \/ Pay
         \/ Archive \/ Operate \/ UNCHANGED vars
  PROVE  /\ \A k \in Keys : budget'[k].spent = budget[k].spent
         /\ res' = res /\ debit' = debit
<1>1. res' = res /\ debit' = debit
  BY ReservationsKept, DebitsKept
<1>2. CASE budget' = budget
  BY <1>1, <1>2
<1>3. CASE Operate
  <2>1. ASSUME NEW k \in Keys, NEW c \in Ceilings, SetAgentCeiling(k, c)
        PROVE  \A j \in Keys : budget'[j].spent = budget[j].spent
    BY <2>1 DEF SetAgentCeiling, WalletInv, WalletTyped
  <2>2. QED
    BY <1>1, <1>2, <1>3, <2>1
       DEF Operate, SetCreditLineOpen, PayCreditLineInvoice
<1>4. QED
  BY <1>1, <1>2, <1>3
     DEF Credit, OwnSpend, Refund, CreditLXC, SpendLXC,
         ReadForRefund, WriteForRefund, DropRefund, MoveFunds, Scheduled, Pay,
         Archive, FundAgent, WithdrawAgent, TopUpAgent, PayAgent, ArchiveAgent, vars

\* The rows say what their questions were charged.
BudgetInv == RowsCharged /\ BudgetReconciles

\* Rows and budgets agree in every reachable state.
LEMMA BudgetInvHolds == Spec => []BudgetInv
<1>1. Init => BudgetInv
  <2> SUFFICES ASSUME Init PROVE BudgetInv
    OBVIOUS
  <2>1. RowsCharged
    BY DEF Init, RowsCharged, NoReservation, NoDebit
  <2>2. ASSUME NEW k \in Keys
        PROVE  budget[k].spent
                 = Total([r \in Reservations |-> ReservationTakenFrom(k, r)])
                   + Total([d \in Debits |-> DebitTakenFrom(k, d)])
    <3> DEFINE f == [r \in Reservations |-> ReservationTakenFrom(k, r)]
               h == [d \in Debits |-> DebitTakenFrom(k, d)]
    <3>1. Gross(0, 0) = 0
      BY WalletConstants, GrossZero
    <3>2. /\ \A r \in Reservations : ReservationTakenFrom(k, r) = 0
          /\ \A d \in Debits : DebitTakenFrom(k, d) = 0
      BY <3>1 DEF Init, NoReservation, NoDebit, ReservationTakenFrom,
                  ReservationTaken, DebitTakenFrom, DebitTaken
    <3>3. Total(f) = 0 /\ Total(h) = 0
      BY <3>2, TotalZero
    <3>4. budget[k].spent = 0
      BY DEF Init
    <3>5. QED
      BY <3>3, <3>4
  <2>3. QED
    BY <2>1, <2>2 DEF BudgetInv, BudgetReconciles
<1>2. ASSUME WalletInv, WalletInv', BudgetInv, [Next]_vars
      PROVE  BudgetInv'
  <2>1. CASE Reserve \/ Settle \/ Release
    BY <1>2, <2>1, ReservationsReconcile DEF BudgetInv
  <2>2. CASE PreServeDebit \/ DebitSettle
    BY <1>2, <2>2, DebitsReconcile DEF BudgetInv
  <2>3. CASE \/ Credit \/ OwnSpend \/ Refund \/ MoveFunds \/ Scheduled \/ Pay
             \/ Archive \/ Operate \/ UNCHANGED vars
    <3>1. /\ \A k \in Keys : budget'[k].spent = budget[k].spent
          /\ res' = res /\ debit' = debit
      BY <1>2, <2>3, SpentKept
    <3>2. RowsCharged'
      BY <1>2, <3>1 DEF BudgetInv, RowsCharged
    <3>3. ASSUME NEW k \in Keys
          PROVE  /\ [r \in Reservations |-> ReservationTakenFrom(k, r)']
                     = [r \in Reservations |-> ReservationTakenFrom(k, r)]
                 /\ [d \in Debits |-> DebitTakenFrom(k, d)']
                     = [d \in Debits |-> DebitTakenFrom(k, d)]
      BY <3>1 DEF ReservationTakenFrom, ReservationTaken, DebitTakenFrom,
                  DebitTaken
    <3>4. BudgetReconciles'
      BY <1>2, <3>1, <3>3 DEF BudgetInv, BudgetReconciles
    <3>5. QED
      BY <3>2, <3>4 DEF BudgetInv
  <2>4. QED
    BY <1>2, <2>1, <2>2, <2>3 DEF Next
<1>3. QED
  BY WalletInvHolds, <1>1, <1>2, PTL DEF Spec

\* A key's spent_lxc is exactly what its open holds keep plus what its settled
\* questions were charged with their fees: no retry, late settle, release or
\* sweep counts a question twice or gives headroom back twice.
THEOREM BudgetsAlwaysReconcile == Spec => []BudgetReconciles
<1>1. BudgetInv => BudgetReconciles
  BY DEF BudgetInv
<1>2. QED
  BY BudgetInvHolds, <1>1, PTL

\* Whatever a key attached to no agent takes -- a hold, a debit or a settle
\* above its estimate -- leaves it within the ceiling in force.
THEOREM KeysStayWithinCeiling == Spec => KeyWithinCeiling
<1> DEFINE Within == \A k \in Keys :
             AgentOf[k] = NoAgent /\ budget'[k].spent > budget[k].spent =>
               budget'[k].spent <= budget[k].ceiling
<1>1. ASSUME WalletInv, [Next]_vars
      PROVE  Within
  <2>0. /\ WalletTyped /\ RowsKeyed /\ Amounts \subseteq Nat
        /\ FeeRates \subseteq 0..FeeDenominator
    BY <1>1, WalletConstants DEF WalletInv
  <2>1. ASSUME NEW k \in Keys, NEW delta \in Int, BumpSpent(k, delta),
               AgentOf[k] = NoAgent /\ delta > 0 =>
                 delta <= budget[k].ceiling - budget[k].spent
        PROVE  Within
    <3>1. /\ budget'[k].spent = budget[k].spent + delta
          /\ budget[k].spent \in Int /\ budget[k].ceiling \in Nat
          /\ \A j \in Keys \ {k} : budget'[j] = budget[j]
      BY <2>0, <2>1 DEF BumpSpent, WalletTyped
    <3>2. \A j \in Keys : budget[j].spent \in Int
      BY <2>0 DEF WalletTyped
    <3>3. QED
      BY <2>1, <3>1, <3>2
  <2>2. CASE Reserve \/ PreServeDebit
    <3>1. PICK k \in Keys, n \in Amounts, bps \in FeeRates :
            MayTake(k, Gross(n, bps)) /\ Take(k, Gross(n, bps))
      BY <2>2 DEF Reserve, PreServeDebit, ReserveLXCForAgent, SpendLXCForAgent
    <3>2. Gross(n, bps) \in Nat
      BY <2>0, GrossNat
    <3>3. QED
      BY <2>1, <3>1, <3>2 DEF Take, MayTake, WithinCeiling
  <2>3. CASE Settle
    <3>1. PICK r \in Reservations, n \in Delivered : SettleLXCReservation(r, n)
      BY <2>3 DEF Settle
    <3>2. PICK charge \in Nat : Settled(r, charge)
      BY <1>1, <3>1, SettleInv
    <3> DEFINE fee == PlatformFee(charge, res[r].bps)
               held == res[r].held
    <3>3. /\ res[r].key \in Keys /\ held \in Nat /\ fee \in Nat
          /\ charge + fee <= held /\ BumpSpent(res[r].key, charge + fee - held)
      BY <2>0, <3>2 DEF Settled, IsHeld, RowsKeyed, WalletTyped, Reservation
    <3> HIDE DEF fee, held
    <3>4. charge + fee - held \in Int /\ ~(charge + fee - held > 0)
      BY <3>3
    <3>5. QED
      BY <2>1, <3>3, <3>4
  <2>4. CASE Release
    <3>1. PICK r \in Reservations : ReleaseLXCReservation(r)
      BY <2>4 DEF Release
    <3>2. /\ res[r].key \in Keys /\ res[r].held \in Nat
          /\ BumpSpent(res[r].key, -res[r].held)
      BY <2>0, <3>1
         DEF ReleaseLXCReservation, IsHeld, RowsKeyed, WalletTyped, Reservation
    <3>3. -res[r].held \in Int /\ ~(-res[r].held > 0)
      BY <3>2
    <3>4. QED
      BY <2>1, <3>2, <3>3
  <2>5. CASE DebitSettle
    <3>1. PICK d \in Debits, n \in Delivered, rules \in Delivered :
            SettleAgentDebit(d, n, rules)
      BY <2>5 DEF DebitSettle
    <3>2. PICK draw \in Nat, charge \in Nat : Brought(d, draw, charge)
      BY <1>1, <3>1, SettleAgentDebitInv
    <3> DEFINE k == debit[d].key
               more == charge + PlatformFee(charge, debit[d].bps)
                       - Gross(debit[d].amount, debit[d].bps)
    <3>3. /\ k \in Keys /\ more \in Int /\ BumpSpent(k, more)
          /\ AgentOf[k] = NoAgent /\ more > 0 =>
               more <= budget[k].ceiling - budget[k].spent
      BY <2>0, <3>2 DEF Brought, RowsKeyed
    <3> HIDE DEF k, more
    <3>4. QED
      BY <2>1, <3>3
  <2>6. CASE \/ Credit \/ OwnSpend \/ Refund \/ MoveFunds \/ Scheduled \/ Pay
             \/ Archive \/ Operate \/ UNCHANGED vars
    <3>1. \A k \in Keys : budget'[k].spent = budget[k].spent
                          /\ budget[k].spent \in Int
      BY <1>1, <2>0, <2>6, SpentKept DEF WalletTyped
    <3>2. QED
      BY <3>1
  <2>7. QED
    BY <1>1, <2>2, <2>3, <2>4, <2>5, <2>6 DEF Next
<1>2. WalletInv /\ [Next]_vars => [Within]_vars
  BY <1>1
<1>3. QED
  BY WalletInvHolds, <1>2, PTL DEF Spec, KeyWithinCeiling
=============================================================================
