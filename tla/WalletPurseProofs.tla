------------------------- MODULE WalletPurseProofs -------------------------
(***************************************************************************)
(* Every behaviour of the wallet is a behaviour of the purse, for every    *)
(* set of agents, keys, questions, amounts, fees and credit lines.  With   *)
(* the wallet's inductive invariant each operation is one step of the      *)
(* purse, or changes nothing the purse sees.                               *)
(***************************************************************************)
EXTENDS WalletPurse, AgentWalletProofs

Places == Agents \cup {NoAgent}

-----------------------------------------------------------------------------
(* What the mapping says.                                                  *)

\* The money at each place.
LEMMA MoneyAt ==
  /\ PurseMoney[NoAgent] = balance - allocated
  /\ \A a \in Agents : PurseMoney[a] = agentBal[a]
BY WalletConstants DEF PurseMoney

\* The question of a reservation, and of a debit.
LEMMA QuestionOf ==
  /\ \A r \in Reservations : /\ <<"hold", r>> \in PurseQuestions
                             /\ PurseQuestion[<<"hold", r>>] = HoldQuestion(r)
  /\ \A d \in Debits : /\ <<"debit", d>> \in PurseQuestions
                       /\ PurseQuestion[<<"debit", d>>] = DebitQuestion(d)
BY DEF PurseQuestions, PurseQuestion

\* Every question is one of the two kinds.
LEMMA QuestionKinds ==
  \A q \in PurseQuestions : \/ \E r \in Reservations : q = <<"hold", r>>
                            \/ \E d \in Debits : q = <<"debit", d>>
BY DEF PurseQuestions

\* In a state of the invariant no place is overdrawn, and every question holds
\* a natural number of some place.
LEMMA PurseTyped ==
  WalletInv => /\ PurseMoney \in [Places -> Nat]
               /\ PurseQuestion \in [PurseQuestions -> P!Question]
               /\ line.used \in Nat
<1> SUFFICES ASSUME WalletInv
             PROVE  /\ PurseMoney \in [Places -> Nat]
                    /\ PurseQuestion \in [PurseQuestions -> P!Question]
                    /\ line.used \in Nat
  OBVIOUS
<1>1. WalletTyped /\ AgentsCovered /\ RowsKeyed
  BY DEF WalletInv
<1>2. PurseMoney \in [Places -> Nat]
  BY <1>1, WalletConstants DEF PurseMoney, Places, WalletTyped, AgentsCovered
<1>3. ASSUME NEW r \in Reservations
      PROVE  HoldQuestion(r) \in P!Question
  BY <1>1, WalletConstants
     DEF HoldQuestion, NewQuestion, ClosedQuestion, OpenQuestion, P!Question,
         WalletTyped, Reservation, RowsKeyed
<1>4. ASSUME NEW d \in Debits
      PROVE  DebitQuestion(d) \in P!Question
  <2>1. /\ debit[d].amount \in Nat /\ debit[d].bps \in 0..FeeDenominator
        /\ debit[d].status # "none" => debit[d].key \in Keys
    BY <1>1 DEF WalletTyped, DebitRow, RowsKeyed
  <2>2. Gross(debit[d].amount, debit[d].bps) \in Nat
    BY <2>1, GrossNat
  <2>3. QED
    BY <2>1, <2>2, WalletConstants
       DEF DebitQuestion, NewQuestion, ClosedQuestion, OpenQuestion, P!Question
<1>5. PurseQuestion \in [PurseQuestions -> P!Question]
  BY <1>3, <1>4 DEF PurseQuestion, PurseQuestions
<1>6. QED
  BY <1>1, <1>2, <1>5 DEF WalletTyped

-----------------------------------------------------------------------------
(* What the operations' shared writes do to the purse.                     *)

\* A movement of key k's money, in the workspace's balance and in its agent's,
\* is a movement at one place.
LEMMA PlaceMoves ==
  ASSUME WalletTyped, NEW k \in Keys, NEW delta \in Int,
         AgentMovement(k, delta),
         balance' = balance + delta
  PROVE  /\ PurseMoney'[AgentOf[k]] = PurseMoney[AgentOf[k]] + delta
         /\ \A p \in Places \ {AgentOf[k]} : PurseMoney'[p] = PurseMoney[p]
<1>1. CASE AgentOf[k] = NoAgent
  BY <1>1, WalletConstants
     DEF AgentMovement, agentVars, PurseMoney, Places, WalletTyped
<1>2. CASE AgentOf[k] # NoAgent
  <2>1. AgentOf[k] \in Agents
    BY <1>2, AgentOfKey
  <2>2. /\ agentBal' = [agentBal EXCEPT ![AgentOf[k]] = @ + delta]
        /\ allocated' = allocated + delta
    BY <1>2 DEF AgentMovement
  <2>3. QED
    BY <2>1, <2>2, WalletConstants DEF PurseMoney, Places, WalletTyped
<1>3. QED
  BY <1>1, <1>2

\* A step that writes one reservation moves one question.
LEMMA OneHold ==
  ASSUME WalletTyped, NEW r \in Reservations, NEW row,
         res' = [res EXCEPT ![r] = row], debit' = debit
  PROVE  /\ \A q \in PurseQuestions \ {<<"hold", r>>} :
              PurseQuestion'[q] = PurseQuestion[q]
         /\ PurseQuestion'[<<"hold", r>>] = HoldQuestion(r)'
<1>1. res \in [Reservations -> Reservation]
  BY DEF WalletTyped
<1>2. \A s \in Reservations \ {r} : HoldQuestion(s)' = HoldQuestion(s)
  BY <1>1 DEF HoldQuestion
<1>3. \A d \in Debits : DebitQuestion(d)' = DebitQuestion(d)
  BY DEF DebitQuestion
<1>4. QED
  BY <1>2, <1>3 DEF PurseQuestion, PurseQuestions

\* A step that writes one debit moves one question.
LEMMA OneDebit ==
  ASSUME WalletTyped, NEW d \in Debits, NEW row,
         debit' = [debit EXCEPT ![d] = row], res' = res
  PROVE  /\ \A q \in PurseQuestions \ {<<"debit", d>>} :
              PurseQuestion'[q] = PurseQuestion[q]
         /\ PurseQuestion'[<<"debit", d>>] = DebitQuestion(d)'
<1>1. debit \in [Debits -> DebitRow]
  BY DEF WalletTyped
<1>2. \A s \in Debits \ {d} : DebitQuestion(s)' = DebitQuestion(s)
  BY <1>1 DEF DebitQuestion
<1>3. \A r \in Reservations : HoldQuestion(r)' = HoldQuestion(r)
  BY DEF HoldQuestion
<1>4. QED
  BY <1>2, <1>3 DEF PurseQuestion, PurseQuestions

\* A step that writes no reservation and no debit moves no question.
LEMMA NoQuestion ==
  ASSUME res' = res, debit' = debit
  PROVE  PurseQuestion' = PurseQuestion
BY DEF PurseQuestion, HoldQuestion, DebitQuestion

\* What the credit line lends for a key, it lends to an agent and within its
\* limit.
LEMMA LineLends ==
  ASSUME WalletTyped, NEW k \in Keys, NEW need \in Int, NEW draw,
         draw = DrawFor(k, need) \/ draw = 0,
         line' = [line EXCEPT !.used = @ + draw]
  PROVE  /\ draw \in Nat
         /\ line'.used - line.used = draw
         /\ P!Lends(AgentOf[k])
<1>1. /\ line.used \in Int /\ line \in [open : BOOLEAN, used : Nat]
      /\ LineLimit \in Nat
  BY WalletConstants DEF WalletTyped
<1>2. /\ draw \in Nat
      /\ draw > 0 => AgentOf[k] # NoAgent /\ line.used + draw <= LineLimit
  BY DrawNat DEF Draw
<1>3. line'.used = line.used + draw
  BY <1>1
<1>4. QED
  BY <1>1, <1>2, <1>3 DEF P!Lends

\* The writes of a hold or a debit: money leaves one place for the question.
LEMMA TakeMoves ==
  ASSUME WalletTyped, NEW k \in Keys, NEW amount \in Nat, Take(k, amount)
  PROVE  /\ PurseMoney'[AgentOf[k]] + amount
              = PurseMoney[AgentOf[k]] + (line'.used - line.used)
         /\ P!OnlyAt({AgentOf[k]})
         /\ P!Lends(AgentOf[k])
<1> DEFINE draw == DrawFor(k, amount)
<1>1. /\ draw \in Nat /\ line'.used - line.used = draw
      /\ P!Lends(AgentOf[k])
  BY LineLends DEF Take
<1>2. /\ balance' = balance + (draw - amount)
      /\ AgentMovement(k, draw - amount)
  BY <1>1 DEF Take, MoveBalance, WalletTyped
<1>3. draw - amount \in Int
  BY <1>1
<1>4. /\ PurseMoney'[AgentOf[k]] = PurseMoney[AgentOf[k]] + (draw - amount)
      /\ \A p \in Places \ {AgentOf[k]} : PurseMoney'[p] = PurseMoney[p]
  <2> HIDE DEF draw
  <2>1. QED
    BY <1>2, <1>3, PlaceMoves
<1>5. PurseMoney[AgentOf[k]] \in Int
  BY MoneyAt, AgentOfKey DEF WalletTyped
<1>6. QED
  <2> HIDE DEF draw
  <2>1. QED
    BY <1>1, <1>4, <1>5 DEF P!OnlyAt, Places

-----------------------------------------------------------------------------
(* One lemma per operation.                                                *)

\* A hold opens its question.
LEMMA ReserveOpens ==
  ASSUME WalletInv, NEW k \in Keys, NEW r \in Reservations,
         NEW estimate \in Amounts, NEW bps \in FeeRates,
         ReserveLXCForAgent(k, r, estimate, bps)
  PROVE  P!Open(<<"hold", r>>, AgentOf[k])
<1> DEFINE held == Gross(estimate, bps)
<1>0. WalletTyped /\ held \in Nat
  BY GrossNat, WalletConstants DEF WalletInv
<1>1. /\ res[r].status = "none" /\ debit' = debit /\ Take(k, held)
      /\ res' = [res EXCEPT ![r] = [status |-> "held", key |-> k,
                                    held |-> held, bps |-> bps, settled |-> 0]]
  BY DEF ReserveLXCForAgent
<1> HIDE DEF held
<1>2. PurseQuestion[<<"hold", r>>] = P!Unasked
  BY <1>1, QuestionOf DEF HoldQuestion, NewQuestion, P!Unasked
<1>3. HoldQuestion(r)' = OpenQuestion(k, held)
  BY <1>0, <1>1 DEF HoldQuestion, WalletTyped
<1>4. /\ PurseQuestion'[<<"hold", r>>] = OpenQuestion(k, held)
      /\ P!OnlyQuestion(<<"hold", r>>)
  BY <1>0, <1>1, <1>3, OneHold DEF P!OnlyQuestion
<1>5. /\ PurseMoney'[AgentOf[k]] + held
          = PurseMoney[AgentOf[k]] + (line'.used - line.used)
      /\ P!OnlyAt({AgentOf[k]})
      /\ P!Lends(AgentOf[k])
  BY <1>0, <1>1, TakeMoves
<1>6. QED
  BY <1>2, <1>4, <1>5 DEF P!Open, P!Lent, OpenQuestion

\* A pre-serve debit opens its question.
LEMMA DebitOpens ==
  ASSUME WalletInv, NEW k \in Keys, NEW d \in Debits,
         NEW amount \in Amounts, NEW bps \in FeeRates,
         SpendLXCForAgent(k, d, amount, bps)
  PROVE  P!Open(<<"debit", d>>, AgentOf[k])
<1> DEFINE gross == Gross(amount, bps)
<1>0. WalletTyped /\ gross \in Nat
  BY GrossNat, WalletConstants DEF WalletInv
<1>1. /\ debit[d].status = "none" /\ res' = res /\ Take(k, gross)
      /\ debit' = [debit EXCEPT ![d] = [status |-> "debited", key |-> k,
                                        amount |-> amount, bps |-> bps,
                                        charge |-> amount]]
  BY DEF SpendLXCForAgent
<1>2. PurseQuestion[<<"debit", d>>] = P!Unasked
  BY <1>1, QuestionOf DEF DebitQuestion, NewQuestion, P!Unasked
<1>3. DebitQuestion(d)' = OpenQuestion(k, gross)
  BY <1>0, <1>1 DEF DebitQuestion, WalletTyped
<1> HIDE DEF gross
<1>4. /\ PurseQuestion'[<<"debit", d>>] = OpenQuestion(k, gross)
      /\ P!OnlyQuestion(<<"debit", d>>)
  BY <1>0, <1>1, <1>3, OneDebit DEF P!OnlyQuestion
<1>5. /\ PurseMoney'[AgentOf[k]] + gross
          = PurseMoney[AgentOf[k]] + (line'.used - line.used)
      /\ P!OnlyAt({AgentOf[k]})
      /\ P!Lends(AgentOf[k])
  BY <1>0, <1>1, TakeMoves
<1>6. QED
  BY <1>2, <1>4, <1>5 DEF P!Open, P!Lent, OpenQuestion

\* A hold that is resolved, with a refund of at most what was held, closes its
\* question.
LEMMA ResolveCloses ==
  ASSUME WalletInv, NEW r \in Reservations, NEW refund \in Int, NEW row,
         IsHeld(r), 0 <= refund, refund <= res[r].held,
         balance' = balance + refund, AgentMovement(res[r].key, refund),
         res' = [res EXCEPT ![r] = row], debit' = debit, line' = line,
         row.status \notin {"none", "held"}
  PROVE  P!Close(<<"hold", r>>)
<1> DEFINE k == res[r].key
           q == <<"hold", r>>
<1>0. /\ WalletTyped /\ k \in Keys /\ res[r].held \in Nat
      /\ res[r].status = "held" /\ line.used \in Nat
  BY DEF WalletInv, WalletTyped, RowsKeyed, Reservation, IsHeld
<1>1. PurseQuestion[q] = OpenQuestion(k, res[r].held)
  BY <1>0, QuestionOf DEF HoldQuestion
<1>2. HoldQuestion(r)' = ClosedQuestion
  BY <1>0 DEF HoldQuestion, WalletTyped
<1>3. PurseQuestion'[q] = ClosedQuestion /\ P!OnlyQuestion(q)
  BY <1>0, <1>2, OneHold DEF P!OnlyQuestion
<1>4. /\ PurseMoney'[AgentOf[k]] = PurseMoney[AgentOf[k]] + refund
      /\ P!OnlyAt({AgentOf[k]})
  BY <1>0, PlaceMoves DEF P!OnlyAt, Places
<1>5. PurseMoney[AgentOf[k]] \in Int
  BY <1>0, MoneyAt, AgentOfKey DEF WalletTyped
<1>6. P!Lent = 0 /\ P!Lends(AgentOf[k])
  BY <1>0 DEF P!Lent, P!Lends
<1> HIDE DEF k, q
<1>7. PurseQuestion[q].place = AgentOf[k] /\ PurseQuestion[q].phase = "open"
      /\ PurseQuestion[q].held = res[r].held
  BY <1>1 DEF OpenQuestion
<1>8. line.used' = line.used
  OBVIOUS
<1>9. P!Close(q)
  BY <1>0, <1>3, <1>4, <1>5, <1>6, <1>7, <1>8
     DEF P!Close, P!Closed, ClosedQuestion
<1>10. QED
  BY <1>9 DEF q

\* A settle closes the question of its hold.
LEMMA SettleCloses ==
  ASSUME WalletInv, NEW r \in Reservations, NEW delivered \in Delivered,
         SettleLXCReservation(r, delivered)
  PROVE  P!Close(<<"hold", r>>)
<1> DEFINE held   == res[r].held
           bps    == res[r].bps
           charge == MinOf(delivered, SpendWithin(held, bps))
           fee    == PlatformFee(charge, bps)
           refund == held - charge - fee
<1>0. /\ WalletTyped /\ delivered \in Nat /\ held \in Nat
      /\ bps \in 0..FeeDenominator
  BY WalletConstants DEF WalletInv, WalletTyped, Reservation
<1>1. /\ charge \in Nat /\ charge <= SpendWithin(held, bps)
  <2>1. SpendWithin(held, bps) \in Nat
    BY <1>0, SpendWithinFits
  <2>2. QED
    BY <1>0, <2>1 DEF MinOf
<1>2. Gross(charge, bps) <= held /\ fee \in Nat
  <2> HIDE DEF charge
  <2>1. QED
    BY <1>0, <1>1, SpendWithinFits, GrossNat
<1>3. refund \in Int /\ 0 <= refund /\ refund <= held
  <2>1. Gross(charge, bps) = charge + fee
    BY DEF Gross
  <2> HIDE DEF charge, fee
  <2>2. QED
    BY <1>0, <1>1, <1>2, <2>1
<1>4. /\ IsHeld(r) /\ MoveBalance(0, -refund)
      /\ AgentMovement(res[r].key, refund)
      /\ debit' = debit /\ line' = line
      /\ res' = [res EXCEPT ![r].status = "settled", ![r].settled = charge]
  BY DEF SettleLXCReservation
<1> HIDE DEF charge, fee, refund
<1>5. balance' = balance + refund
  BY <1>0, <1>3, <1>4 DEF MoveBalance, WalletTyped
<1> DEFINE row == [res[r] EXCEPT !.status = "settled", !.settled = charge]
<1>6. res' = [res EXCEPT ![r] = row] /\ row.status = "settled"
  BY <1>0, <1>4 DEF WalletTyped, Reservation
<1> HIDE DEF row
<1>7. QED
  BY <1>3, <1>4, <1>5, <1>6, ResolveCloses DEF held

\* A release, in-band or by the sweeper, closes the question of its hold.
LEMMA ReleaseCloses ==
  ASSUME WalletInv, NEW r \in Reservations, ReleaseLXCReservation(r)
  PROVE  P!Close(<<"hold", r>>)
<1> DEFINE row == [res[r] EXCEPT !.status = "released"]
           held == res[r].held
<1>1. WalletTyped /\ held \in Nat /\ res[r] \in Reservation
  BY DEF WalletInv, WalletTyped, Reservation
<1>2. /\ IsHeld(r) /\ balance' = balance + held
      /\ AgentMovement(res[r].key, held)
      /\ debit' = debit /\ line' = line
  BY <1>1 DEF ReleaseLXCReservation, MoveBalance, WalletTyped
<1>3. res' = [res EXCEPT ![r] = row] /\ row.status = "released"
  BY <1>1 DEF ReleaseLXCReservation, WalletTyped, Reservation
<1>4. held \in Int /\ 0 <= held /\ held <= res[r].held
  BY <1>1
<1> HIDE DEF row, held
<1>5. QED
  BY <1>2, <1>3, <1>4, ResolveCloses

\* The settle of a debit closes its question.
LEMMA DebitSettleCloses ==
  ASSUME WalletInv, NEW d \in Debits, NEW delivered \in Delivered,
         NEW rules \in Delivered, SettleAgentDebit(d, delivered, rules)
  PROVE  P!Close(<<"debit", d>>)
<1> DEFINE k      == debit[d].key
           bps    == debit[d].bps
           taken  == Gross(debit[d].amount, bps)
           diff   == Gross(delivered, bps) - taken
           want   == IF AgentOf[k] = NoAgent THEN diff ELSE MinOf(diff, rules)
           draw   == IF want > 0 THEN DrawFor(k, want) ELSE 0
           extra  == MinOf(Allowance(k, want, draw), Reach(k, draw))
           charge == IF diff > 0
                       THEN MinOf(delivered, SpendWithin(taken + extra, bps))
                       ELSE delivered
           fee    == PlatformFee(charge, bps)
           more   == charge + fee - taken
           q      == <<"debit", d>>
           row    == [debit[d] EXCEPT !.status = "settled", !.charge = charge]
<1>0. /\ WalletTyped /\ k \in Keys /\ debit[d].amount \in Nat
      /\ bps \in 0..FeeDenominator /\ debit[d].status = "debited"
      /\ delivered \in Nat /\ rules \in Nat /\ debit[d] \in DebitRow
  BY WalletConstants
     DEF WalletInv, WalletTyped, RowsKeyed, DebitRow, SettleAgentDebit
<1>1. taken \in Nat /\ diff \in Int
  BY <1>0, GrossNat
<1>2. want \in Int
  <2> HIDE DEF diff
  <2>1. QED
    BY <1>0, <1>1 DEF MinOf
<1>3. draw \in Nat
  <2> HIDE DEF want
  <2>1. QED
    BY <1>0, <1>2, DrawNat
<1>4. /\ MoveBalance(draw, more) /\ AgentMovement(k, draw - more)
      /\ line' = [line EXCEPT !.used = @ + draw]
      /\ res' = res
      /\ debit' = [debit EXCEPT ![d].status = "settled", ![d].charge = charge]
  BY DEF SettleAgentDebit
<1>5. /\ line'.used - line.used = draw /\ P!Lends(AgentOf[k])
  <2>1. draw = DrawFor(k, want) \/ draw = 0
    OBVIOUS
  <2> HIDE DEF draw, want
  <2>2. QED
    BY <1>0, <1>2, <1>4, <2>1, LineLends
<1> HIDE DEF taken, diff, want, draw, charge
<1>6. charge \in Nat /\ fee \in Nat
  <2>1. debit'[d] \in DebitRow
    BY SettleAgentDebitInv DEF WalletInv, WalletTyped
  <2>2. debit'[d].charge = charge
    BY <1>0, <1>4 DEF WalletTyped, DebitRow
  <2>3. charge \in Nat
    BY <2>1, <2>2 DEF DebitRow
  <2>4. QED
    BY <1>0, <2>3, GrossNat
<1> HIDE DEF fee
<1>7. draw - more \in Int /\ draw - more <= taken + draw
  BY <1>1, <1>3, <1>6
<1> HIDE DEF more
<1>8. balance' = balance + (draw - more)
  <2>1. more \in Int
    BY <1>1, <1>6 DEF more
  <2>2. QED
    BY <1>0, <1>3, <1>4, <2>1 DEF MoveBalance, WalletTyped
<1>9. /\ PurseMoney'[AgentOf[k]] = PurseMoney[AgentOf[k]] + (draw - more)
      /\ P!OnlyAt({AgentOf[k]})
  BY <1>0, <1>4, <1>7, <1>8, PlaceMoves DEF P!OnlyAt, Places
<1>10. PurseQuestion[q] = OpenQuestion(k, taken)
  BY <1>0, QuestionOf DEF DebitQuestion, taken
<1>11. debit' = [debit EXCEPT ![d] = row] /\ row.status = "settled"
  BY <1>0, <1>4 DEF WalletTyped, DebitRow
<1>12. DebitQuestion(d)' = ClosedQuestion
  BY <1>0, <1>11 DEF DebitQuestion, WalletTyped
<1> HIDE DEF row
<1>13. PurseQuestion'[q] = ClosedQuestion /\ P!OnlyQuestion(q)
  BY <1>0, <1>4, <1>11, <1>12, OneDebit DEF P!OnlyQuestion
<1>14. q \notin {"hold"} \X Reservations
  OBVIOUS
<1>15. PurseMoney[AgentOf[k]] \in Int
  BY <1>0, MoneyAt, AgentOfKey DEF WalletTyped
<1> HIDE DEF k, q
<1>16. PurseQuestion[q].place = AgentOf[k] /\ PurseQuestion[q].phase = "open"
       /\ PurseQuestion[q].held = taken
  BY <1>10 DEF OpenQuestion
<1>17. P!Close(q)
  BY <1>1, <1>3, <1>5, <1>7, <1>9, <1>13, <1>14, <1>15, <1>16
     DEF P!Close, P!Closed, P!Lent, ClosedQuestion
<1>18. QED
  BY <1>17 DEF q

\* Money moved between the workspace and an agent.
LEMMA AllocateMoves ==
  ASSUME WalletTyped, NEW a \in Agents, NEW amount \in Int, Allocate(a, amount),
         balance' = balance, res' = res, debit' = debit, line' = line
  PROVE  P!Move(a, NoAgent)
<1>1. /\ agentBal \in [Agents -> Nat] /\ balance \in Int /\ allocated \in Int
      /\ agentBal' = [agentBal EXCEPT ![a] = @ + amount]
      /\ allocated' = allocated + amount
  BY DEF WalletTyped, Allocate
<1>2. /\ PurseMoney'[a] = PurseMoney[a] + amount
      /\ PurseMoney'[NoAgent] = PurseMoney[NoAgent] - amount
      /\ PurseMoney[a] \in Int /\ PurseMoney[NoAgent] \in Int
      /\ \A p \in Places \ {a, NoAgent} : PurseMoney'[p] = PurseMoney[p]
  BY <1>1, WalletConstants DEF PurseMoney, Places
<1>3. PurseQuestion' = PurseQuestion
  BY NoQuestion
<1>4. QED
  BY <1>2, <1>3 DEF P!Move, P!OnlyAt, Places

\* Payments, funding, withdrawals, top-ups and archives move money from one
\* place to another.
LEMMA AccountsMove ==
  ASSUME WalletInv, MoveFunds \/ Scheduled \/ Pay \/ Archive
  PROVE  \E p, q \in Places : p # q /\ P!Move(p, q)
<1>0. WalletTyped /\ Amounts \subseteq Nat
  BY WalletConstants DEF WalletInv
<1>1. ASSUME NEW a \in Agents, NEW amount \in Int, Allocate(a, amount),
             balance' = balance, res' = res, debit' = debit, line' = line
      PROVE  \E p, q \in Places : p # q /\ P!Move(p, q)
  BY <1>0, <1>1, AllocateMoves, WalletConstants DEF Places
<1>2. CASE MoveFunds
  <2>1. PICK a \in Agents, n \in Amounts : FundAgent(a, n) \/ WithdrawAgent(a, n)
    BY <1>2 DEF MoveFunds
  <2>2. n \in Int /\ -n \in Int
    BY <1>0
  <2>3. QED
    BY <1>1, <2>1, <2>2 DEF FundAgent, WithdrawAgent, moneyVars
<1>3. CASE Scheduled
  <2>1. PICK a \in Agents : TopUpAgent(a)
    BY <1>3 DEF Scheduled
  <2> DEFINE n == MinOf(TopUp[a].to - agentBal[a], balance - allocated)
  <2>2. n \in Int
    BY <1>0, WalletConstants DEF WalletTyped, MinOf
  <2>3. /\ Allocate(a, n) /\ balance' = balance /\ res' = res
        /\ debit' = debit /\ line' = line
    BY <2>1 DEF TopUpAgent, moneyVars
  <2> HIDE DEF n
  <2>4. QED
    BY <1>1, <2>2, <2>3
<1>4. CASE Pay
  <2>1. PICK a \in Agents, b \in Agents, n \in Amounts : PayAgent(a, b, n)
    BY <1>4 DEF Pay
  <2>2. /\ a # b /\ n \in Nat /\ allocated' = allocated /\ balance' = balance
        /\ agentBal' = [agentBal EXCEPT ![a] = @ - n, ![b] = @ + n]
        /\ line' = line
        /\ res' = res /\ debit' = debit
    BY <1>0, <2>1 DEF PayAgent, moneyVars
  <2>3. /\ PurseMoney'[a] = PurseMoney[a] - n
        /\ PurseMoney'[b] = PurseMoney[b] + n
        /\ PurseMoney[a] \in Int /\ PurseMoney[b] \in Int
        /\ \A p \in Places \ {a, b} : PurseMoney'[p] = PurseMoney[p]
    BY <1>0, <2>2, WalletConstants DEF PurseMoney, Places, WalletTyped
  <2>4. P!Move(a, b)
    BY <2>2, <2>3, NoQuestion DEF P!Move, P!OnlyAt, Places
  <2>5. QED
    BY <2>2, <2>4 DEF Places
<1>5. CASE Archive
  <2>1. PICK a \in Agents : ArchiveAgent(a)
    BY <1>5 DEF Archive
  <2>2. -agentBal[a] \in Int
    BY <1>0 DEF WalletTyped
  <2>3. QED
    BY <1>1, <2>1, <2>2 DEF ArchiveAgent, moneyVars
<1>6. QED
  BY <1>2, <1>3, <1>4, <1>5

\* Credits and the workspace's own spending touch the workspace's money only.
LEMMA OwnMoneyMoves ==
  ASSUME Credit \/ OwnSpend
  PROVE  P!OwnMoney
<1>1. /\ agentBal' = agentBal /\ allocated' = allocated
      /\ res' = res /\ debit' = debit /\ line' = line
  BY DEF Credit, OwnSpend, CreditLXC, SpendLXC, agentVars
<1>2. \A p \in Places \ {NoAgent} : PurseMoney'[p] = PurseMoney[p]
  BY <1>1 DEF PurseMoney, Places
<1>3. QED
  BY <1>1, <1>2, NoQuestion DEF P!OwnMoney, P!OnlyAt, Places

\* Refunds, ceilings and the line's switch are nothing to the purse; paying the
\* line's invoice lowers the debt.
LEMMA OperateRepays ==
  ASSUME WalletInv, Operate \/ Refund
  PROVE  P!Repay \/ UNCHANGED P!purseVars
<1>0. line \in [open : BOOLEAN, used : Nat] /\ Amounts \subseteq Nat \ {0}
  BY WalletConstants DEF WalletInv, WalletTyped
<1>1. /\ agentBal' = agentBal /\ allocated' = allocated /\ balance' = balance
      /\ res' = res /\ debit' = debit
  BY DEF Operate, Refund, SetAgentCeiling, SetCreditLineOpen,
         PayCreditLineInvoice, ReadForRefund, WriteForRefund, DropRefund,
         agentVars, moneyVars
<1>2. PurseMoney' = PurseMoney /\ PurseQuestion' = PurseQuestion
  BY <1>1, NoQuestion DEF PurseMoney
<1>3. line.used' = line.used \/ line.used' < line.used
  <2>1. CASE Refund \/ \E k \in Keys, c \in Ceilings : SetAgentCeiling(k, c)
    BY <2>1 DEF Refund, SetAgentCeiling, ReadForRefund, WriteForRefund,
                DropRefund
  <2>2. CASE \E open \in BOOLEAN : SetCreditLineOpen(open)
    BY <1>0, <2>2 DEF SetCreditLineOpen
  <2>3. CASE \E n \in Amounts : PayCreditLineInvoice(n)
    BY <1>0, <2>3 DEF PayCreditLineInvoice
  <2>4. QED
    BY <2>1, <2>2, <2>3 DEF Operate
<1>4. QED
  BY <1>2, <1>3 DEF P!Repay, P!purseVars

\* A stuttering step of the wallet is one of the purse.
LEMMA StutterPurse ==
  ASSUME UNCHANGED vars
  PROVE  UNCHANGED P!purseVars
BY NoQuestion DEF vars, moneyVars, agentVars, P!purseVars, PurseMoney

\* Every step of the wallet is a step of the purse, or none.
LEMMA StepsOfThePurse ==
  ASSUME WalletInv, [Next]_vars
  PROVE  P!PurseStep \/ UNCHANGED P!purseVars
<1>0. /\ \A k \in Keys : AgentOf[k] \in Agents \cup {NoAgent}
      /\ Places = Agents \cup {NoAgent}
  BY WalletConstants DEF Places
<1>1. CASE Credit \/ OwnSpend
  BY <1>1, OwnMoneyMoves DEF P!PurseStep
<1>2. CASE Operate \/ Refund
  BY <1>2, OperateRepays DEF P!PurseStep
<1>3. CASE Reserve
  <2>1. PICK k \in Keys, r \in Reservations, n \in Amounts, bps \in FeeRates :
          ReserveLXCForAgent(k, r, n, bps)
    BY <1>3 DEF Reserve
  <2>2. P!Open(<<"hold", r>>, AgentOf[k])
    BY <2>1, ReserveOpens
  <2>3. QED
    BY <1>0, <2>2, QuestionOf DEF P!PurseStep
<1>4. CASE PreServeDebit
  <2>1. PICK k \in Keys, d \in Debits, n \in Amounts, bps \in FeeRates :
          SpendLXCForAgent(k, d, n, bps)
    BY <1>4 DEF PreServeDebit
  <2>2. P!Open(<<"debit", d>>, AgentOf[k])
    BY <2>1, DebitOpens
  <2>3. QED
    BY <1>0, <2>2, QuestionOf DEF P!PurseStep
<1>5. CASE Settle \/ Release
  <2>1. PICK r \in Reservations : \/ ReleaseLXCReservation(r)
                                  \/ \E n \in Delivered :
                                       SettleLXCReservation(r, n)
    BY <1>5 DEF Settle, Release
  <2>2. P!Close(<<"hold", r>>)
    BY <2>1, SettleCloses, ReleaseCloses
  <2>3. QED
    BY <2>2, QuestionOf DEF P!PurseStep
<1>6. CASE DebitSettle
  <2>1. PICK d \in Debits, n \in Delivered, rules \in Delivered :
          SettleAgentDebit(d, n, rules)
    BY <1>6 DEF DebitSettle
  <2>2. P!Close(<<"debit", d>>)
    BY <2>1, DebitSettleCloses
  <2>3. QED
    BY <2>2, QuestionOf DEF P!PurseStep
<1>7. CASE MoveFunds \/ Scheduled \/ Pay \/ Archive
  BY <1>0, <1>7, AccountsMove DEF P!PurseStep
<1>8. CASE UNCHANGED vars
  BY <1>8, StutterPurse
<1>9. QED
  BY <1>1, <1>2, <1>3, <1>4, <1>5, <1>6, <1>7, <1>8 DEF Next

\* The wallet's first state is the purse's.
LEMMA InitOfThePurse == Init => P!PurseInit
<1> SUFFICES ASSUME Init PROVE P!PurseInit
  OBVIOUS
<1>1. PurseMoney = [p \in Agents \cup {NoAgent} |-> 0]
  BY DEF Init, PurseMoney
<1>2. /\ \A r \in Reservations : HoldQuestion(r) = P!Unasked
      /\ \A d \in Debits : DebitQuestion(d) = P!Unasked
  BY DEF Init, HoldQuestion, DebitQuestion, NoReservation, NoDebit,
         NewQuestion, P!Unasked
<1>3. PurseQuestion = [q \in PurseQuestions |-> P!Unasked]
  BY <1>2 DEF PurseQuestion, PurseQuestions
<1>4. line.used = 0
  BY DEF Init
<1>5. QED
  BY <1>1, <1>3, <1>4 DEF P!PurseInit

\* The wallet implements the purse: whatever its agents, keys, requests, fees
\* and credit line, an operation moves money from place to place, or takes it
\* for one question and gives at most that back, once, to where it came from,
\* and overdraws nobody.
THEOREM WalletIsAPurse == Spec => IsAPurse
<1>1. WalletInv /\ WalletInv' /\ [Next]_vars => [P!PurseNext]_(P!purseVars)
  <2> SUFFICES ASSUME WalletInv, WalletInv', [Next]_vars
               PROVE  P!PurseNext \/ UNCHANGED P!purseVars
    OBVIOUS
  <2>1. P!PurseStep \/ UNCHANGED P!purseVars
    BY StepsOfThePurse
  <2>2. (/\ PurseMoney \in [Places -> Nat]
         /\ PurseQuestion \in [PurseQuestions -> P!Question]
         /\ line.used \in Nat)'
    BY PurseTyped, PTL
  <2>3. QED
    BY <2>1, <2>2 DEF P!PurseNext, Places
<1>2. QED
  BY InitOfThePurse, WalletInvHolds, <1>1, PTL DEF Spec, IsAPurse, P!PurseSpec
=============================================================================
