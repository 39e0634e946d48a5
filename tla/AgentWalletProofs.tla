------------------------- MODULE AgentWalletProofs -------------------------
(***************************************************************************)
(* Proofs about AgentWallet, for every number of agents, keys and          *)
(* requests, every fee rate and every amount.                              *)
(***************************************************************************)
EXTENDS AgentWallet, TLAPS

-----------------------------------------------------------------------------
(* Arithmetic.                                                             *)

\* MinOf is a lower bound.
LEMMA MinOfFacts ==
  ASSUME NEW a \in Int, NEW b \in Int
  PROVE  MinOf(a, b) \in Int /\ MinOf(a, b) <= a /\ MinOf(a, b) <= b
BY DEF MinOf

\* Facts about products that the SMT solver is given one at a time.
LEMMA ProductMonotone ==
  ASSUME NEW a \in Int, NEW b \in Int, NEW d \in Nat, a <= b
  PROVE  a * d <= b * d
OBVIOUS

\* A positive factor cancels, with room for the rounding of a division.
LEMMA ProductCancel ==
  ASSUME NEW a \in Int, NEW b \in Int, NEW d \in Nat \ {0},
         a * d < (b + 1) * d
  PROVE  a <= b
<1>1. SUFFICES ASSUME b + 1 <= a PROVE FALSE
  OBVIOUS
<1>2. (b + 1) * d <= a * d
  BY <1>1, ProductMonotone
<1>3. QED
  BY <1>2

\* Multiplication distributes over a sum.
LEMMA ProductSum ==
  ASSUME NEW a \in Int, NEW b \in Int, NEW d \in Int
  PROVE  (a + b) * d = a * d + b * d
OBVIOUS

\* The factors of a product commute.
LEMMA ProductSwap ==
  ASSUME NEW a \in Int, NEW b \in Int, NEW d \in Int
  PROVE  (a * b) * d = (a * d) * b
OBVIOUS

\* Division with remainder.
LEMMA DivMod ==
  ASSUME NEW n \in Nat, NEW d \in Nat \ {0}
  PROVE  /\ n \div d \in Nat
         /\ (n % d) \in Nat
         /\ (n % d) < d
         /\ n = (n \div d) * d + (n % d)
OBVIOUS

\* The fee is the least number of base units that covers amount * bps.
LEMMA PlatformFeeCeiling ==
  ASSUME NEW a \in Nat, NEW bps \in 0..FeeDenominator
  PROVE  /\ PlatformFee(a, bps) \in Nat
         /\ PlatformFee(a, bps) * FeeDenominator < a * bps + FeeDenominator
<1> DEFINE D == FeeDenominator
           q == a \div D
           r == a % D
           x == r * bps + D - 1
           c == x \div D
<1>0. D \in Nat \ {0} /\ bps \in Nat
  BY WalletConstants
<1>1. q \in Nat /\ r \in Nat /\ a = q * D + r
  BY <1>0, DivMod
<1>2. r * bps \in Nat
  BY <1>0, <1>1
<1>3. x \in Nat
  BY <1>0, <1>2
<1>4. c \in Nat /\ c * D <= x
  BY <1>0, <1>3, DivMod
<1>5. CASE a = 0 \/ bps = 0
  BY <1>5, <1>0 DEF PlatformFee
<1>6. CASE a # 0 /\ bps # 0
  <2>1. PlatformFee(a, bps) = q * bps + c
    BY <1>6, <1>0 DEF PlatformFee
  <2>2. a * bps = (q * D) * bps + r * bps
    BY <1>0, <1>1
  <2>3. (q * bps + c) * D = (q * D) * bps + c * D
    BY <1>0, <1>1, <1>4
  <2>4. q * bps \in Nat /\ (q * D) * bps \in Nat /\ c * D \in Nat
    BY <1>0, <1>1, <1>4
  <2>5. c * D < r * bps + D
    BY <1>0, <1>2, <1>4, <2>4
  <2> HIDE DEF q, r, x, c
  <2>6. QED
    BY <1>0, <1>2, <1>4, <2>1, <2>2, <2>3, <2>4, <2>5
<1>7. QED
  BY <1>5, <1>6

\* A charge with its platform fee is a natural number.
LEMMA GrossNat ==
  ASSUME NEW a \in Nat, NEW bps \in 0..FeeDenominator
  PROVE  Gross(a, bps) \in Nat /\ PlatformFee(a, bps) \in Nat
<1>1. PlatformFee(a, bps) \in Nat
  BY PlatformFeeCeiling
<1>2. QED
  BY <1>1 DEF Gross

\* The spend spendWithin allows, and any smaller one, fits in gross with its
\* fee: rounding the fee up never pushes a clamped charge past its hold.
LEMMA SpendWithinFits ==
  ASSUME NEW g \in Nat, NEW bps \in 0..FeeDenominator
  PROVE  /\ SpendWithin(g, bps) \in Nat
         /\ \A a \in Nat : a <= SpendWithin(g, bps) => Gross(a, bps) <= g
<1> DEFINE D == FeeDenominator
           d == D + bps
           q == g \div d
           r == g % d
           f == (r * D) \div d
           s == SpendWithin(g, bps)
<1>0. D \in Nat \ {0} /\ bps \in Nat /\ d \in Nat \ {0}
  BY WalletConstants
<1>1. q \in Nat /\ r \in Nat /\ g = q * d + r
  BY <1>0, DivMod
<1>2. r * D \in Nat
  BY <1>0, <1>1
<1>3. f \in Nat /\ f * d <= r * D
  <2>1. f \in Nat /\ r * D = f * d + ((r * D) % d) /\ ((r * D) % d) \in Nat
    BY <1>0, <1>2, DivMod
  <2> HIDE DEF f, d
  <2>2. f * d \in Nat
    BY <1>0, <2>1
  <2>3. QED
    BY <1>2, <2>1, <2>2
<1>4. s \in Nat /\ s * d <= g * D
  <2>1. CASE g = 0
    BY <2>1, <1>0 DEF SpendWithin
  <2>2. CASE g # 0
    <3>1. s = q * D + f
      BY <2>2 DEF SpendWithin
    <3>2. q * D \in Nat
      BY <1>0, <1>1
    <3> HIDE DEF q, r, f, s, d
    <3>3. (q * D + f) * d = (q * D) * d + f * d
      BY <1>0, <1>3, <3>2, ProductSum
    <3>a. q * d \in Nat
      BY <1>0, <1>1
    <3>4. g * D = (q * d) * D + r * D
      BY <1>0, <1>1, <3>a, ProductSum
    <3>5. (q * D) * d = (q * d) * D
      BY <1>0, <1>1, ProductSwap
    <3>6. f * d \in Nat /\ (q * d) * D \in Nat
      BY <1>0, <1>3, <3>a
    <3>7. QED
      BY <1>0, <1>2, <1>3, <3>1, <3>2, <3>3, <3>4, <3>5, <3>6
  <2>3. QED
    BY <2>1, <2>2
<1> HIDE DEF q, r, f, s
<1>5. s * bps <= (g - s) * D
  <2>1. s * d = s * D + s * bps /\ (g - s) * D = g * D - s * D
    BY <1>0, <1>4
  <2>2. QED
    BY <1>0, <1>4, <2>1
<1>6. ASSUME NEW a \in Nat, a <= s
      PROVE  Gross(a, bps) <= g
  <2> DEFINE F == PlatformFee(a, bps)
  <2>1. F \in Nat /\ F * D < a * bps + D
    BY PlatformFeeCeiling
  <2>2. a * bps <= s * bps
    BY <1>0, <1>4, <1>6, ProductMonotone
  <2>3. (g - s + 1) * D = (g - s) * D + D
    BY <1>0, <1>4
  <2> HIDE DEF F
  <2>4. F * D < (g - s + 1) * D
    <3>1. /\ F * D \in Int /\ a * bps \in Int /\ s * bps \in Int
          /\ (g - s) * D \in Int
      BY <1>0, <1>4, <2>1
    <3>2. QED
      BY <1>0, <1>5, <2>1, <2>2, <2>3, <3>1
  <2>5. F <= g - s
    BY <1>0, <1>4, <2>1, <2>4, ProductCancel
  <2>6. QED
    BY <1>4, <1>6, <2>1, <2>5 DEF Gross, F
<1>7. QED
  BY <1>4, <1>6 DEF s

\* consumeCashBacked never takes backing that is not there.
LEMMA FromCashBounds ==
  ASSUME NEW cash \in Nat, NEW before \in Int, NEW spend \in Int
  PROVE  FromCash(cash, before, spend) \in 0..cash
BY DEF FromCash, MinOf, MaxOf

\* A charge and its fee consume backing that is there, one after the other.
LEMMA BackingAfterBounds ==
  ASSUME NEW cash \in Nat, NEW before \in Int, NEW charge \in Int,
         NEW fee \in Int
  PROVE  /\ BackingAfter(cash, before, charge, fee) \in Nat
         /\ BackingAfter(cash, before, charge, fee)
              <= cash - FromCash(cash, before, charge)
<1> DEFINE c == cash - FromCash(cash, before, charge)
<1>0. FromCash(cash, before, charge) \in 0..cash
  BY FromCashBounds
<1>1. c \in Nat
  BY <1>0
<1>2. FromCash(c, before - charge, fee) \in 0..c
  BY <1>1, FromCashBounds
<1>3. QED
  BY <1>1, <1>2 DEF BackingAfter

-----------------------------------------------------------------------------
(* The inductive invariant: the rows are well typed, rows that exist have  *)
(* a key, and the balance covers the agents.  The three go together: the   *)
(* settle of a debit charges beyond its estimate only what is in reach,    *)
(* which is a natural number because allocated <= balance, and which agent *)
(* it moves money of is known because the row has a key.                   *)

WalletInv == WalletTyped /\ RowsKeyed /\ AgentsCovered

\* A key with an agent has one of the workspace's agents.
LEMMA AgentOfKey ==
  ASSUME NEW k \in Keys
  PROVE  AgentOf[k] # NoAgent => AgentOf[k] \in Agents
BY WalletConstants

\* The credit line lends a natural number, and only to an agent's key.
LEMMA DrawNat ==
  ASSUME WalletTyped, NEW k \in Keys, NEW need \in Int
  PROVE  /\ DrawFor(k, need) \in Nat
         /\ AgentOf[k] # NoAgent => DrawFor(k, need) = Draw(AgentOf[k], need)
         /\ AgentOf[k] = NoAgent => DrawFor(k, need) = 0
<1>1. CASE AgentOf[k] = NoAgent
  BY <1>1 DEF DrawFor
<1>2. CASE AgentOf[k] # NoAgent
  <2>1. agentBal[AgentOf[k]] \in Nat
    BY <1>2, AgentOfKey DEF WalletTyped
  <2>2. QED
    BY <1>2, <2>1 DEF DrawFor, Draw
<1>3. QED
  BY <1>1, <1>2

\* What AgentMovement does to the allocated total and to the balances.
LEMMA AgentMovementKeeps ==
  ASSUME WalletTyped, NEW k \in Keys, NEW delta \in Int,
         AgentMovement(k, delta),
         AgentOf[k] # NoAgent => agentBal[AgentOf[k]] + delta >= 0
  PROVE  /\ agentBal' \in [Agents -> Nat]
         /\ allocated' \in Int
         /\ allocated' = IF AgentOf[k] = NoAgent THEN allocated
                         ELSE allocated + delta
<1>1. CASE AgentOf[k] = NoAgent
  BY <1>1 DEF AgentMovement, WalletTyped, agentVars
<1>2. CASE AgentOf[k] # NoAgent
  <2>1. AgentOf[k] \in Agents
    BY <1>2, AgentOfKey
  <2>2. QED
    BY <1>2, <2>1 DEF AgentMovement, WalletTyped
<1>3. QED
  BY <1>1, <1>2

\* A sub-budget's row keeps its type.
LEMMA BumpSpentKeeps ==
  ASSUME WalletTyped, NEW k \in Keys, NEW delta \in Int, BumpSpent(k, delta)
  PROVE  budget' \in [Keys -> [ceiling : Nat, spent : Int]]
<1>1. budget[k] \in [ceiling : Nat, spent : Int]
  BY DEF WalletTyped
<1>2. QED
  BY <1>1 DEF BumpSpent, WalletTyped

\* A hold or a debit that passed its checks keeps the balances' part of the
\* invariant.
LEMMA TakeKeeps ==
  ASSUME WalletInv, NEW k \in Keys, NEW amount \in Nat,
         MayTake(k, amount), Take(k, amount)
  PROVE  /\ balance' \in Int /\ minted' \in Nat /\ wsSpent' \in Int
         /\ agentBal' \in [Agents -> Nat] /\ allocated' \in Int
         /\ budget' \in [Keys -> [ceiling : Nat, spent : Int]]
         /\ line' \in [open : BOOLEAN, used : Nat]
         /\ AgentsCovered'
<1> DEFINE draw == DrawFor(k, amount)
<1>0. WalletTyped /\ AgentsCovered
  BY DEF WalletInv
<1>1. /\ draw \in Nat
      /\ AgentOf[k] # NoAgent => draw = Draw(AgentOf[k], amount)
      /\ AgentOf[k] = NoAgent => draw = 0
  BY <1>0, DrawNat
<1>2. /\ MoveBalance(draw, amount)
      /\ AgentMovement(k, draw - amount)
      /\ BumpSpent(k, amount)
      /\ line' = [line EXCEPT !.used = @ + draw]
  BY DEF Take
<1> HIDE DEF draw
<1>3. balance' = balance + draw - amount /\ balance + draw >= amount
  BY <1>0, <1>1, <1>2 DEF MoveBalance, MayTake, WalletTyped
<1>4. AgentOf[k] # NoAgent => agentBal[AgentOf[k]] + (draw - amount) >= 0
  <2>1. AgentOf[k] # NoAgent => agentBal[AgentOf[k]] \in Nat
    BY <1>0, AgentOfKey DEF WalletTyped
  <2>2. QED
    BY <1>1, <2>1 DEF MayTake
<1>5. /\ agentBal' \in [Agents -> Nat] /\ allocated' \in Int
      /\ allocated' = IF AgentOf[k] = NoAgent THEN allocated
                      ELSE allocated + (draw - amount)
  BY <1>0, <1>1, <1>2, <1>4, AgentMovementKeeps
<1>6. AgentsCovered'
  <2>1. CASE AgentOf[k] = NoAgent
    BY <1>0, <1>1, <1>3, <1>5, <2>1
       DEF AgentsCovered, MayTake, Unallocated, WalletTyped
  <2>2. CASE AgentOf[k] # NoAgent
    BY <1>0, <1>1, <1>3, <1>5, <2>2 DEF AgentsCovered, WalletTyped
  <2>3. QED
    BY <2>1, <2>2
<1>7. /\ balance' \in Int /\ minted' \in Nat /\ wsSpent' \in Int
      /\ line' \in [open : BOOLEAN, used : Nat]
  BY <1>0, <1>1, <1>2, <1>3 DEF MoveBalance, WalletTyped
<1>8. QED
  BY <1>0, <1>2, <1>5, <1>6, <1>7, BumpSpentKeeps

-----------------------------------------------------------------------------
(* Every action keeps the inductive invariant.                             *)

\* The types the ledger's rows can have.
LEMMA LedgerTypeNames ==
  /\ "purchase" \in LedgerTypes /\ "admin_grant" \in LedgerTypes
  /\ "credit_line_draw" \in LedgerTypes /\ "spend" \in LedgerTypes
  /\ "platform_fee" \in LedgerTypes /\ "reservation_hold" \in LedgerTypes
  /\ "reservation_release" \in LedgerTypes
BY DEF LedgerTypes

\* A workspace starts with nothing.
LEMMA InitInv == Init => WalletInv
<1> SUFFICES ASSUME Init PROVE WalletInv
  OBVIOUS
<1>2. WalletTyped
  <2>1. ledger \in [LedgerTypes -> Int] /\ agentBal \in [Agents -> Nat]
    BY DEF Init
  <2>2. budget \in [Keys -> [ceiling : Nat, spent : Int]]
    BY WalletConstants DEF Init
  <2>3. res \in [Reservations -> Reservation]
    BY WalletConstants DEF Init, Reservation, NoReservation
  <2>4. debit \in [Debits -> DebitRow]
    BY WalletConstants DEF Init, DebitRow, NoDebit
  <2>5. line \in [open : BOOLEAN, used : Nat]
    BY WalletConstants DEF Init
  <2>6. QED
    BY <2>1, <2>2, <2>3, <2>4, <2>5 DEF Init, WalletTyped
<1>3. RowsKeyed
  BY DEF Init, RowsKeyed, NoReservation, NoDebit
<1>4. AgentsCovered
  BY DEF Init, AgentsCovered
<1>5. QED
  BY <1>2, <1>3, <1>4 DEF WalletInv

\* A purchase or a grant keeps the invariant.
LEMMA CreditInv ==
  ASSUME WalletInv, NEW type \in {"purchase", "admin_grant"},
         NEW amount \in Amounts, CreditLXC(type, amount)
  PROVE  WalletInv'
<1>1. amount \in Nat
  BY WalletConstants
<1>2. type \in LedgerTypes
  BY DEF LedgerTypes
<1>3. ledger' \in [LedgerTypes -> Int]
  BY <1>1, <1>2 DEF CreditLXC, WalletInv, WalletTyped
<1>4. cashBacked' \in Nat
  BY <1>1 DEF CreditLXC, WalletInv, WalletTyped
<1>5. WalletTyped'
  BY <1>1, <1>3, <1>4
     DEF CreditLXC, MoveBalance, WalletInv, WalletTyped, agentVars
<1>6. RowsKeyed' /\ AgentsCovered'
  BY <1>1 DEF CreditLXC, MoveBalance, WalletInv, WalletTyped, RowsKeyed,
              AgentsCovered, agentVars
<1>7. QED
  BY <1>5, <1>6 DEF WalletInv

\* The workspace's own spending keeps it: it is bound by requireUnallocated.
LEMMA SpendInv ==
  ASSUME WalletInv, NEW amount \in Amounts, NEW bps \in FeeRates,
         SpendLXC(amount, bps)
  PROVE  WalletInv'
<1> DEFINE fee == PlatformFee(amount, bps)
<1>0. amount \in Nat /\ bps \in 0..FeeDenominator
  BY WalletConstants
<1>1. fee \in Nat
  BY <1>0, GrossNat
<1> HIDE DEF fee
<1>2. /\ BackingAfter(cashBacked, balance, amount, fee) \in Nat
      /\ FromCash(cashBacked, balance, amount) \in 0..cashBacked
  <2>1. /\ cashBacked \in Nat /\ balance \in Int
        /\ amount \in Int /\ fee \in Int
    BY <1>0, <1>1 DEF WalletInv, WalletTyped
  <2>2. BackingAfter(cashBacked, balance, amount, fee) \in Nat
    BY <2>1, BackingAfterBounds
  <2>3. FromCash(cashBacked, balance, amount) \in 0..cashBacked
    BY <1>0, <2>1, FromCashBounds
  <2>4. QED
    BY <2>2, <2>3
<1>3. /\ balance >= amount + fee /\ Unallocated(amount + fee)
      /\ MoveBalance(0, amount + fee)
      /\ ledger' = [ledger EXCEPT !["spend"] = @ - amount,
                                  !["platform_fee"] = @ - fee]
      /\ cashBacked' \in Nat /\ royaltyBasis' \in Nat
      /\ UNCHANGED <<agentVars, archived, budget, res, debit, line>>
  BY <1>0, <1>1, <1>2 DEF SpendLXC, EarnRoyalty, fee, WalletInv, WalletTyped
<1>4. ledger' \in [LedgerTypes -> Int]
  BY <1>0, <1>1, <1>3, LedgerTypeNames DEF WalletInv, WalletTyped
<1>5. WalletTyped'
  BY <1>0, <1>1, <1>3, <1>4 DEF MoveBalance, WalletInv, WalletTyped, agentVars
<1>6. RowsKeyed' /\ AgentsCovered'
  BY <1>0, <1>1, <1>3 DEF MoveBalance, Unallocated, WalletInv, WalletTyped,
                          RowsKeyed, AgentsCovered, agentVars
<1>7. QED
  BY <1>5, <1>6 DEF WalletInv

\* A hold keeps it.
LEMMA ReserveInv ==
  ASSUME WalletInv, NEW k \in Keys, NEW r \in Reservations,
         NEW estimate \in Amounts, NEW bps \in FeeRates,
         ReserveLXCForAgent(k, r, estimate, bps)
  PROVE  WalletInv'
<1> DEFINE held == Gross(estimate, bps)
<1>0. estimate \in Nat /\ bps \in 0..FeeDenominator
  BY WalletConstants
<1>1. held \in Nat
  BY <1>0, GrossNat
<1>2. DrawFor(k, held) \in Nat
  BY <1>1, DrawNat DEF WalletInv
<1> HIDE DEF held
<1>3. /\ MayTake(k, held) /\ Take(k, held)
      /\ ledger' = [ledger EXCEPT !["reservation_hold"] = @ - held,
                                  !["credit_line_draw"] = @ + DrawFor(k, held)]
      /\ res' = [res EXCEPT ![r] = [status |-> "held", key |-> k,
                                    held |-> held, bps |-> bps, settled |-> 0]]
      /\ UNCHANGED <<cashBacked, royaltyBasis, archived, debit>>
  BY DEF ReserveLXCForAgent, held
<1>4. /\ balance' \in Int /\ minted' \in Nat /\ wsSpent' \in Int
      /\ agentBal' \in [Agents -> Nat] /\ allocated' \in Int
      /\ budget' \in [Keys -> [ceiling : Nat, spent : Int]]
      /\ line' \in [open : BOOLEAN, used : Nat]
      /\ AgentsCovered'
  BY <1>1, <1>3, TakeKeeps
<1>5. ledger' \in [LedgerTypes -> Int]
  BY <1>1, <1>2, <1>3, LedgerTypeNames DEF WalletInv, WalletTyped
<1>6. res' \in [Reservations -> Reservation]
  BY <1>0, <1>1, <1>3 DEF WalletInv, WalletTyped, Reservation
<1>7. WalletTyped'
  BY <1>3, <1>4, <1>5, <1>6 DEF WalletInv, WalletTyped
<1>8. RowsKeyed'
  BY <1>3 DEF WalletInv, WalletTyped, RowsKeyed
<1>9. QED
  BY <1>4, <1>7, <1>8 DEF WalletInv

\* A pre-serve debit keeps it.
LEMMA PreServeDebitInv ==
  ASSUME WalletInv, NEW k \in Keys, NEW d \in Debits,
         NEW amount \in Amounts, NEW bps \in FeeRates,
         SpendLXCForAgent(k, d, amount, bps)
  PROVE  WalletInv'
<1> DEFINE gross == Gross(amount, bps)
           fee == PlatformFee(amount, bps)
<1>0. amount \in Nat /\ bps \in 0..FeeDenominator
  BY WalletConstants
<1>1. gross \in Nat /\ fee \in Nat
  BY <1>0, GrossNat
<1>2. DrawFor(k, gross) \in Nat
  BY <1>1, DrawNat DEF WalletInv
<1> HIDE DEF gross, fee
<1>3. /\ MayTake(k, gross) /\ Take(k, gross)
      /\ ledger' = [ledger EXCEPT !["spend"] = @ - amount,
                                  !["platform_fee"] = @ - fee,
                                  !["credit_line_draw"] =
                                     @ + DrawFor(k, gross)]
      /\ debit' = [debit EXCEPT ![d] = [status |-> "debited", key |-> k,
                                        amount |-> amount, bps |-> bps,
                                        charge |-> amount]]
      /\ UNCHANGED <<cashBacked, royaltyBasis, archived, res>>
  BY DEF SpendLXCForAgent, gross, fee
<1>4. /\ balance' \in Int /\ minted' \in Nat /\ wsSpent' \in Int
      /\ agentBal' \in [Agents -> Nat] /\ allocated' \in Int
      /\ budget' \in [Keys -> [ceiling : Nat, spent : Int]]
      /\ line' \in [open : BOOLEAN, used : Nat]
      /\ AgentsCovered'
  BY <1>1, <1>3, TakeKeeps
<1>5. ledger' \in [LedgerTypes -> Int]
  BY <1>0, <1>1, <1>2, <1>3, LedgerTypeNames DEF WalletInv, WalletTyped
<1>6. debit' \in [Debits -> DebitRow]
  BY <1>0, <1>3 DEF WalletInv, WalletTyped, DebitRow
<1>7. WalletTyped'
  BY <1>3, <1>4, <1>5, <1>6 DEF WalletInv, WalletTyped
<1>8. RowsKeyed'
  BY <1>3 DEF WalletInv, WalletTyped, RowsKeyed
<1>9. QED
  BY <1>4, <1>7, <1>8 DEF WalletInv

\* What a charge and its fee do to the backing and to the royalties' basis.
Charged(before, charge, fee) ==
  /\ cashBacked' = BackingAfter(cashBacked, before, charge, fee)
  /\ EarnRoyalty(FromCash(cashBacked, before, charge))
  /\ refunding' = refunding

\* What the settle of hold r does once its charge is known.
Settled(r, charge) ==
  LET held == res[r].held
      fee  == PlatformFee(charge, res[r].bps)
  IN /\ fee \in Nat /\ charge + fee <= held /\ IsHeld(r)
     /\ MoveBalance(0, charge + fee - held)
     /\ ledger' = SettleRows(held, charge, fee)
     /\ res' = [res EXCEPT ![r].status = "settled", ![r].settled = charge]
     /\ cashBacked' = BackingAfter(cashBacked, balance + held, charge, fee)
     /\ BumpSpent(res[r].key, charge + fee - held)
     /\ AgentMovement(res[r].key, held - charge - fee)
     /\ debit' = debit

\* A settle keeps it, and never charges more than the hold with its fee.
LEMMA SettleInv ==
  ASSUME WalletInv, NEW r \in Reservations, NEW delivered \in Delivered,
         SettleLXCReservation(r, delivered)
  PROVE  /\ WalletInv'
         /\ res'[r].status = "settled" => Gross(res'[r].settled, res'[r].bps)
                                            <= res'[r].held
         /\ \E before, charge, fee \in Int : Charged(before, charge, fee)
         /\ \E charge \in Nat : Settled(r, charge)
<1> DEFINE k      == res[r].key
           held   == res[r].held
           bps    == res[r].bps
           charge == MinOf(delivered, SpendWithin(held, bps))
           fee    == PlatformFee(charge, bps)
           refund == held - charge - fee
<1>0. /\ WalletTyped /\ k \in Keys /\ held \in Nat /\ bps \in 0..FeeDenominator
      /\ delivered \in Nat /\ res[r] \in Reservation
  BY WalletConstants
     DEF WalletInv, WalletTyped, Reservation, RowsKeyed,
         SettleLXCReservation, IsHeld
<1>1. charge \in Nat /\ charge <= SpendWithin(held, bps)
  BY <1>0, SpendWithinFits DEF MinOf
<1>2. fee \in Nat /\ Gross(charge, bps) = charge + fee
  BY <1>0, <1>1, GrossNat DEF Gross
<1>3. refund \in Nat /\ Gross(charge, bps) <= held
  <2>1. Gross(charge, bps) <= held
    BY <1>0, <1>1, SpendWithinFits
  <2>2. QED
    BY <1>0, <1>1, <1>2, <2>1
<1>4. /\ MoveBalance(0, -refund)
      /\ ledger' = SettleRows(held, charge, fee)
      /\ res' = [res EXCEPT ![r].status = "settled", ![r].settled = charge]
      /\ cashBacked' = BackingAfter(cashBacked, balance + held, charge, fee)
      /\ EarnRoyalty(FromCash(cashBacked, balance + held, charge))
      /\ BumpSpent(k, -refund)
      /\ AgentMovement(k, refund)
      /\ UNCHANGED <<refunding, archived, debit, line>>
  BY DEF SettleLXCReservation
<1> HIDE DEF k, held, bps, charge, fee, refund
<1>5. cashBacked' \in Nat /\ royaltyBasis' \in Nat
  <2>1. /\ cashBacked \in Nat /\ balance + held \in Int
        /\ charge \in Int /\ fee \in Int /\ royaltyBasis \in Nat
    BY <1>0, <1>1, <1>2 DEF WalletTyped
  <2>2. BackingAfter(cashBacked, balance + held, charge, fee) \in Nat
    BY <2>1, BackingAfterBounds
  <2>3. FromCash(cashBacked, balance + held, charge) \in 0..cashBacked
    BY <2>1, FromCashBounds
  <2>4. QED
    BY <1>4, <2>1, <2>2, <2>3 DEF EarnRoyalty
<1>6. /\ balance' = balance + refund /\ balance' \in Int
      /\ minted' \in Nat /\ wsSpent' \in Int
  BY <1>0, <1>3, <1>4 DEF MoveBalance, WalletTyped
<1>7. /\ agentBal' \in [Agents -> Nat] /\ allocated' \in Int
      /\ allocated' = IF AgentOf[k] = NoAgent THEN allocated
                      ELSE allocated + refund
  <2>1. AgentOf[k] # NoAgent => agentBal[AgentOf[k]] + refund >= 0
    BY <1>0, <1>3, AgentOfKey DEF WalletTyped
  <2>2. QED
    BY <1>0, <1>3, <1>4, <2>1, AgentMovementKeeps
<1>8. budget' \in [Keys -> [ceiling : Nat, spent : Int]]
  BY <1>0, <1>3, <1>4, BumpSpentKeeps
<1>9. ledger' \in [LedgerTypes -> Int]
  BY <1>0, <1>1, <1>2, <1>4, LedgerTypeNames DEF SettleRows, WalletTyped
<1>10. /\ res' \in [Reservations -> Reservation]
       /\ res'[r] = [res[r] EXCEPT !.status = "settled", !.settled = charge]
  BY <1>0, <1>1, <1>4 DEF WalletTyped, Reservation
<1>11. WalletTyped'
  BY <1>0, <1>4, <1>5, <1>6, <1>7, <1>8, <1>9, <1>10 DEF WalletTyped
<1>12. RowsKeyed'
  BY <1>0, <1>4 DEF WalletInv, WalletTyped, RowsKeyed, Reservation, k
<1>13. AgentsCovered'
  BY <1>0, <1>3, <1>6, <1>7 DEF WalletInv, AgentsCovered, WalletTyped
<1>14. Gross(res'[r].settled, res'[r].bps) <= res'[r].held
  BY <1>0, <1>3, <1>10 DEF Reservation, held, bps
<1>15. \E b, c, f \in Int : Charged(b, c, f)
  <2>1. balance + held \in Int /\ charge \in Int /\ fee \in Int
    BY <1>0, <1>1, <1>2 DEF WalletTyped
  <2>2. QED
    BY <1>4, <2>1 DEF Charged
<1>16. Settled(r, charge)
  <2>1. -refund = charge + fee - held /\ refund = held - charge - fee
        /\ charge + fee <= held
    BY <1>0, <1>1, <1>2, <1>3 DEF refund
  <2>2. IsHeld(r)
    BY DEF SettleLXCReservation
  <2>3. QED
    BY <1>2, <1>4, <2>1, <2>2 DEF Settled, fee, held, bps, k
<1>17. QED
  BY <1>1, <1>11, <1>12, <1>13, <1>14, <1>15, <1>16 DEF WalletInv

\* A release keeps it.
LEMMA ReleaseInv ==
  ASSUME WalletInv, NEW r \in Reservations, ReleaseLXCReservation(r)
  PROVE  WalletInv'
<1> DEFINE k == res[r].key
           held == res[r].held
<1>0. /\ WalletTyped /\ k \in Keys /\ held \in Nat /\ res[r] \in Reservation
  BY DEF WalletInv, WalletTyped, Reservation, RowsKeyed, ReleaseLXCReservation,
         IsHeld
<1>1. /\ MoveBalance(0, -held)
      /\ ledger' = [ledger EXCEPT !["reservation_release"] = @ + held]
      /\ res' = [res EXCEPT ![r].status = "released"]
      /\ BumpSpent(k, -held)
      /\ AgentMovement(k, held)
      /\ UNCHANGED <<cashBacked, royaltyBasis, archived, debit, line>>
  BY DEF ReleaseLXCReservation
<1> HIDE DEF k, held
<1>2. /\ balance' = balance + held /\ balance' \in Int
      /\ minted' \in Nat /\ wsSpent' \in Int
  BY <1>0, <1>1 DEF MoveBalance, WalletTyped
<1>3. /\ agentBal' \in [Agents -> Nat] /\ allocated' \in Int
      /\ allocated' = IF AgentOf[k] = NoAgent THEN allocated
                      ELSE allocated + held
  <2>1. AgentOf[k] # NoAgent => agentBal[AgentOf[k]] + held >= 0
    BY <1>0, AgentOfKey DEF WalletTyped
  <2>2. QED
    BY <1>0, <1>1, <2>1, AgentMovementKeeps
<1>4. budget' \in [Keys -> [ceiling : Nat, spent : Int]]
  BY <1>0, <1>1, BumpSpentKeeps
<1>5. ledger' \in [LedgerTypes -> Int]
  BY <1>0, <1>1, LedgerTypeNames DEF WalletTyped
<1>6. res' \in [Reservations -> Reservation]
  BY <1>0, <1>1 DEF WalletTyped, Reservation
<1>7. WalletTyped'
  BY <1>0, <1>1, <1>2, <1>3, <1>4, <1>5, <1>6 DEF WalletTyped
<1>8. RowsKeyed'
  BY <1>0, <1>1 DEF WalletInv, WalletTyped, RowsKeyed, Reservation, k
<1>9. AgentsCovered'
  BY <1>0, <1>2, <1>3 DEF WalletInv, AgentsCovered, WalletTyped
<1>10. QED
  BY <1>7, <1>8, <1>9 DEF WalletInv

\* What the settle of debit d does once the draw and the charge are known.
Brought(d, draw, charge) ==
  LET k     == debit[d].key
      old   == debit[d].amount
      bps   == debit[d].bps
      fee   == PlatformFee(charge, bps)
      taken == Gross(old, bps)
      more  == charge + fee - taken
  IN /\ fee \in Nat /\ taken \in Nat /\ debit[d].status = "debited"
     /\ MoveBalance(draw, more)
     /\ ledger' = [ledger EXCEPT
                     !["spend"] = @ - (charge - old),
                     !["platform_fee"] = @ - (fee - PlatformFee(old, bps)),
                     !["credit_line_draw"] = @ + draw]
     /\ debit' = [debit EXCEPT ![d].status = "settled", ![d].charge = charge]
     /\ cashBacked' = BackingAfter(cashBacked, balance + draw + taken, charge,
                                   fee)
     /\ BumpSpent(k, more)
     /\ AgentMovement(k, draw - more)
     /\ AgentOf[k] = NoAgent /\ more > 0 =>
          more <= budget[k].ceiling - budget[k].spent
     /\ res' = res

\* The settle of a debit charges at most what the key's limit and the
\* workspace's balance can bear beyond the debit itself.
LEMMA SettleAgentDebitInv ==
  ASSUME WalletInv, NEW d \in Debits, NEW delivered \in Delivered,
         NEW rules \in Delivered, SettleAgentDebit(d, delivered, rules)
  PROVE  /\ WalletInv'
         /\ \E before, charge, fee \in Int : Charged(before, charge, fee)
         /\ \E draw, charge \in Nat : Brought(d, draw, charge)
<1> DEFINE k      == debit[d].key
           bps    == debit[d].bps
           old    == debit[d].amount
           taken  == Gross(old, bps)
           diff   == Gross(delivered, bps) - taken
           want   == IF AgentOf[k] = NoAgent THEN diff ELSE MinOf(diff, rules)
           draw   == IF want > 0 THEN DrawFor(k, want) ELSE 0
           extra  == MinOf(Allowance(k, want, draw), Reach(k, draw))
           charge == IF diff > 0
                       THEN MinOf(delivered, SpendWithin(taken + extra, bps))
                       ELSE delivered
           fee    == PlatformFee(charge, bps)
           more   == charge + fee - taken
           before == balance + draw - more + charge + fee
           oldfee == PlatformFee(old, bps)
<1>0. /\ WalletTyped /\ AgentsCovered /\ k \in Keys /\ old \in Nat
      /\ bps \in 0..FeeDenominator /\ delivered \in Nat /\ rules \in Nat
      /\ debit[d] \in DebitRow
  BY WalletConstants
     DEF WalletInv, WalletTyped, DebitRow, RowsKeyed, SettleAgentDebit
<1>a. /\ MoveBalance(draw, more)
      /\ ledger' = [ledger EXCEPT
                      !["spend"] = @ - (charge - old),
                      !["platform_fee"] = @ - (fee - oldfee),
                      !["credit_line_draw"] = @ + draw]
      /\ debit' = [debit EXCEPT ![d].status = "settled", ![d].charge = charge]
      /\ cashBacked' = BackingAfter(cashBacked, before, charge, fee)
      /\ EarnRoyalty(FromCash(cashBacked, before, charge))
      /\ BumpSpent(k, more)
      /\ AgentMovement(k, draw - more)
      /\ line' = [line EXCEPT !.used = @ + draw]
      /\ UNCHANGED <<refunding, archived, res>>
  BY DEF SettleAgentDebit
<1>1. taken \in Nat /\ oldfee \in Nat /\ Gross(delivered, bps) \in Nat
  BY <1>0, GrossNat
<1>2. /\ diff \in Int /\ want \in Int /\ want <= diff
      /\ diff > 0 => want >= 0
  <2>1. diff \in Int
    BY <1>0, <1>1
  <2> HIDE DEF diff
  <2>2. QED
    BY <1>0, <2>1 DEF MinOf
<1> HIDE DEF taken, diff, want, oldfee
<1>3. /\ draw \in Nat
      /\ want <= 0 => draw = 0
      /\ AgentOf[k] = NoAgent => draw = 0
  BY <1>0, <1>2, DrawNat
<1> HIDE DEF draw
<1>4. AgentOf[k] # NoAgent => agentBal[AgentOf[k]] \in Nat
  BY <1>0, AgentOfKey DEF WalletTyped
<1>5. /\ extra \in Int
      /\ want >= 0 => extra \in Nat
      /\ AgentOf[k] = NoAgent =>
           /\ extra <= balance - allocated
           /\ extra > 0 => extra <= budget[k].ceiling - budget[k].spent
      /\ AgentOf[k] # NoAgent => extra <= agentBal[AgentOf[k]] + draw
  <2>1. balance \in Int /\ allocated \in Int /\ allocated <= balance
    BY <1>0 DEF WalletTyped, AgentsCovered
  <2>2. budget[k].ceiling \in Nat /\ budget[k].spent \in Int
    BY <1>0 DEF WalletTyped
  <2>3. CASE AgentOf[k] = NoAgent
    BY <1>2, <1>3, <2>1, <2>2, <2>3 DEF Allowance, Reach, MinOf, MaxOf
  <2>4. CASE AgentOf[k] # NoAgent
    BY <1>2, <1>3, <1>4, <2>1, <2>4 DEF Allowance, Reach, MinOf, MaxOf
  <2>5. QED
    BY <2>3, <2>4
<1> HIDE DEF extra
<1>6. /\ charge \in Nat /\ fee \in Nat /\ more \in Int
      /\ \/ more <= 0
         \/ more <= extra
  <2>1. CASE diff > 0
    <3>1. taken + extra \in Nat
      BY <1>1, <1>2, <1>5, <2>1
    <3>2. charge \in Nat /\ charge <= SpendWithin(taken + extra, bps)
      BY <1>0, <2>1, <3>1, SpendWithinFits DEF MinOf
    <3>3. fee \in Nat /\ Gross(charge, bps) = charge + fee
      BY <1>0, <3>2, GrossNat DEF Gross
    <3>4. Gross(charge, bps) <= taken + extra
      BY <1>0, <3>1, <3>2, SpendWithinFits
    <3> HIDE DEF charge, fee
    <3>5. QED
      BY <1>1, <1>5, <3>2, <3>3, <3>4
  <2>2. CASE ~(diff > 0)
    <3>1. charge = delivered
      BY <2>2
    <3>2. fee \in Nat /\ Gross(charge, bps) = charge + fee
      BY <1>0, <3>1, GrossNat DEF Gross
    <3> HIDE DEF charge, fee
    <3>3. more = diff
      BY <1>0, <1>1, <3>1, <3>2 DEF diff
    <3>4. QED
      BY <1>0, <1>2, <2>2, <3>1, <3>2, <3>3
  <2>3. QED
    BY <2>1, <2>2
<1>7. more \in Int /\ more = charge + fee - taken
  BY <1>6
<1> HIDE DEF charge, fee, more
<1>8. /\ balance' = balance + draw - more /\ balance' \in Int
      /\ minted' \in Nat /\ wsSpent' \in Int
  BY <1>0, <1>3, <1>7, <1>a DEF MoveBalance, WalletTyped
<1>9. /\ agentBal' \in [Agents -> Nat] /\ allocated' \in Int
      /\ allocated' = IF AgentOf[k] = NoAgent THEN allocated
                      ELSE allocated + (draw - more)
  <2>1. AgentOf[k] # NoAgent => agentBal[AgentOf[k]] + (draw - more) >= 0
    BY <1>3, <1>4, <1>5, <1>6, <1>7
  <2>2. QED
    BY <1>0, <1>3, <1>7, <1>a, <2>1, AgentMovementKeeps
<1>10. AgentsCovered'
  <2>1. balance \in Int /\ allocated \in Int /\ allocated <= balance
    BY <1>0 DEF WalletTyped, AgentsCovered
  <2>2. CASE AgentOf[k] = NoAgent
    BY <1>3, <1>5, <1>6, <1>7, <1>8, <1>9, <2>1, <2>2 DEF AgentsCovered
  <2>3. CASE AgentOf[k] # NoAgent
    BY <1>3, <1>7, <1>8, <1>9, <2>1, <2>3 DEF AgentsCovered
  <2>4. QED
    BY <2>2, <2>3
<1>11. budget' \in [Keys -> [ceiling : Nat, spent : Int]]
  BY <1>0, <1>7, <1>a, BumpSpentKeeps
<1>12. ledger' \in [LedgerTypes -> Int]
  BY <1>0, <1>1, <1>3, <1>6, <1>a, LedgerTypeNames DEF WalletTyped
<1>13. debit' \in [Debits -> DebitRow]
  BY <1>0, <1>6, <1>a DEF WalletTyped, DebitRow
<1>14. cashBacked' \in Nat /\ royaltyBasis' \in Nat
  <2>1. /\ cashBacked \in Nat /\ before \in Int
        /\ charge \in Int /\ fee \in Int /\ royaltyBasis \in Nat
    BY <1>0, <1>3, <1>6, <1>7 DEF WalletTyped
  <2> HIDE DEF before
  <2>2. BackingAfter(cashBacked, before, charge, fee) \in Nat
    BY <2>1, BackingAfterBounds
  <2>3. FromCash(cashBacked, before, charge) \in 0..cashBacked
    BY <2>1, FromCashBounds
  <2>4. QED
    BY <1>a, <2>1, <2>2, <2>3 DEF EarnRoyalty
<1>15. line' \in [open : BOOLEAN, used : Nat]
  BY <1>0, <1>3, <1>a DEF WalletTyped
<1>16. WalletTyped'
  BY <1>0, <1>8, <1>9, <1>11, <1>12, <1>13, <1>14, <1>15, <1>a DEF WalletTyped
<1>17. RowsKeyed'
  BY <1>0, <1>a DEF WalletInv, WalletTyped, RowsKeyed, DebitRow, k
<1>18. \E b, c, f \in Int : Charged(b, c, f)
  <2>1. before \in Int /\ charge \in Int /\ fee \in Int
    BY <1>0, <1>3, <1>6, <1>7 DEF WalletTyped
  <2> HIDE DEF before
  <2>2. QED
    BY <1>a, <2>1 DEF Charged
<1>19. Brought(d, draw, charge)
  <2>1. before = balance + draw + taken
    BY <1>0, <1>1, <1>3, <1>6, <1>7 DEF WalletTyped
  <2>2. AgentOf[k] = NoAgent /\ more > 0 =>
          more <= budget[k].ceiling - budget[k].spent
    <3>1. budget[k].ceiling \in Nat /\ budget[k].spent \in Int
      BY <1>0 DEF WalletTyped
    <3>2. QED
      BY <1>5, <1>6, <1>7, <3>1
  <2>3. debit[d].status = "debited"
    BY DEF SettleAgentDebit
  <2> HIDE DEF before
  <2>4. QED
    BY <1>1, <1>6, <1>a, <2>1, <2>2, <2>3
       DEF Brought, fee, more, taken, oldfee, k, bps, old
<1>20. QED
  BY <1>3, <1>6, <1>10, <1>16, <1>17, <1>18, <1>19 DEF WalletInv

\* The operations that move money between the workspace and its agents.
LEMMA AccountsInv ==
  ASSUME WalletInv, MoveFunds \/ Scheduled \/ Pay \/ Archive
  PROVE  WalletInv'
<1>0. WalletTyped /\ RowsKeyed /\ AgentsCovered /\ Amounts \subseteq Nat
  BY WalletConstants DEF WalletInv
<1>1. ASSUME NEW a \in Agents, NEW amount \in Int, Allocate(a, amount),
             agentBal[a] + amount >= 0, allocated + amount <= balance,
             archived' \in SUBSET Agents,
             UNCHANGED <<moneyVars, cashBacked, ledger, royaltyBasis, budget,
                         res, debit, line>>
      PROVE  WalletInv'
  <2>1. agentBal' \in [Agents -> Nat] /\ allocated' \in Int
        /\ allocated' = allocated + amount
    BY <1>0, <1>1 DEF Allocate, WalletTyped
  <2>2. WalletTyped' /\ RowsKeyed' /\ AgentsCovered'
    BY <1>0, <1>1, <2>1 DEF WalletTyped, RowsKeyed, AgentsCovered, moneyVars
  <2>3. QED
    BY <2>2 DEF WalletInv
<1>2. ASSUME NEW a \in Agents, NEW amount \in Amounts, FundAgent(a, amount)
      PROVE  WalletInv'
  BY <1>0, <1>1, <1>2 DEF FundAgent, Unallocated, WalletTyped
<1>3. ASSUME NEW a \in Agents, NEW amount \in Amounts, WithdrawAgent(a, amount)
      PROVE  WalletInv'
  BY <1>0, <1>1, <1>3 DEF WithdrawAgent, AgentsCovered, WalletTyped
<1>4. ASSUME NEW a \in Agents, TopUpAgent(a)
      PROVE  WalletInv'
  <2> DEFINE amount == MinOf(TopUp[a].to - agentBal[a], balance - allocated)
  <2>1. amount \in Int /\ amount <= balance - allocated
    <3>1. TopUp[a].to - agentBal[a] \in Int /\ balance - allocated \in Int
      BY <1>0, WalletConstants DEF WalletTyped
    <3>2. QED
      BY <3>1, MinOfFacts
  <2>2. /\ amount > 0 /\ Allocate(a, amount)
        /\ UNCHANGED <<moneyVars, cashBacked, ledger, royaltyBasis, archived,
                       budget, res, debit, line>>
    BY <1>4 DEF TopUpAgent
  <2> HIDE DEF amount
  <2>3. agentBal[a] + amount >= 0 /\ allocated + amount <= balance
    BY <1>0, <2>1, <2>2 DEF WalletTyped
  <2>4. QED
    BY <1>0, <1>1, <2>1, <2>2, <2>3 DEF WalletTyped
<1>5. ASSUME NEW a \in Agents, ArchiveAgent(a)
      PROVE  WalletInv'
  <2>1. agentBal[a] \in Nat
    BY <1>0 DEF WalletTyped
  <2>2. /\ Allocate(a, -agentBal[a]) /\ archived' \in SUBSET Agents
        /\ UNCHANGED <<moneyVars, cashBacked, ledger, royaltyBasis, budget,
                       res, debit, line>>
    BY <1>0, <1>5 DEF ArchiveAgent, WalletTyped
  <2>3. agentBal[a] + (-agentBal[a]) >= 0
        /\ allocated + (-agentBal[a]) <= balance /\ -agentBal[a] \in Int
    BY <1>0, <2>1 DEF WalletTyped, AgentsCovered
  <2>4. QED
    BY <1>1, <2>2, <2>3
<1>6. ASSUME NEW from \in Agents, NEW to \in Agents, NEW amount \in Amounts,
             PayAgent(from, to, amount)
      PROVE  WalletInv'
  <2>1. agentBal' \in [Agents -> Nat]
    BY <1>0, <1>6 DEF PayAgent, WalletTyped
  <2>2. WalletTyped' /\ RowsKeyed' /\ AgentsCovered'
    BY <1>0, <1>6, <2>1
       DEF PayAgent, WalletTyped, RowsKeyed, AgentsCovered, moneyVars
  <2>3. QED
    BY <2>2 DEF WalletInv
<1>7. QED
  BY <1>2, <1>3, <1>4, <1>5, <1>6 DEF MoveFunds, Scheduled, Pay, Archive

\* The operations on ceilings, the credit line and refunds keep it.
LEMMA OperateInv ==
  ASSUME WalletInv, RefundsTyped, Operate \/ Refund
  PROVE  WalletInv'
<1>0. WalletTyped /\ RowsKeyed /\ AgentsCovered
  BY DEF WalletInv
<1>1. ASSUME NEW k \in Keys, NEW c \in Ceilings, SetAgentCeiling(k, c)
      PROVE  WalletInv'
  <2>1. budget' \in [Keys -> [ceiling : Nat, spent : Int]]
    BY <1>0, <1>1, WalletConstants DEF SetAgentCeiling, WalletTyped
  <2>2. QED
    BY <1>0, <1>1, <2>1 DEF SetAgentCeiling, WalletInv, WalletTyped, RowsKeyed,
                            AgentsCovered, moneyVars, agentVars
<1>2. ASSUME NEW open \in BOOLEAN, SetCreditLineOpen(open)
      PROVE  WalletInv'
  BY <1>0, <1>2 DEF SetCreditLineOpen, WalletInv, WalletTyped, RowsKeyed,
                    AgentsCovered, moneyVars, agentVars
<1>3. ASSUME NEW amount \in Amounts, PayCreditLineInvoice(amount)
      PROVE  WalletInv'
  <2>1. line' \in [open : BOOLEAN, used : Nat]
    BY <1>0, <1>3 DEF PayCreditLineInvoice, WalletTyped
  <2>2. QED
    BY <1>0, <1>3, <2>1 DEF PayCreditLineInvoice, WalletInv, WalletTyped,
                            RowsKeyed, AgentsCovered, moneyVars, agentVars
<1>4. ASSUME NEW h \in Refunders, WriteForRefund(h)
      PROVE  WalletInv'
  <2>1. refunding[h].cash \in Nat /\ refunding[h].amount \in Nat
    BY DEF RefundsTyped, RefundState
  <2>2. cashBacked' \in Nat
    BY <1>4, <2>1 DEF WriteForRefund, BackingAfterRefund, MaxOf
  <2>3. QED
    BY <1>0, <1>4, <2>2 DEF WriteForRefund, WalletInv, WalletTyped,
                            RowsKeyed, AgentsCovered, moneyVars, agentVars
<1>5. ASSUME NEW h \in Refunders, NEW amount \in Amounts,
             ReadForRefund(h, amount)
      PROVE  WalletInv'
  BY <1>0, <1>5 DEF ReadForRefund, WalletInv, WalletTyped,
                    RowsKeyed, AgentsCovered, moneyVars, agentVars
<1>6. ASSUME NEW h \in Refunders, DropRefund(h)
      PROVE  WalletInv'
  BY <1>0, <1>6 DEF DropRefund, WalletInv, WalletTyped,
                    RowsKeyed, AgentsCovered, moneyVars, agentVars
<1>7. QED
  BY <1>1, <1>2, <1>3, <1>4, <1>5, <1>6 DEF Operate, Refund

\* A refused or replayed call changes nothing.
LEMMA StutterInv ==
  ASSUME WalletInv, UNCHANGED vars
  PROVE  WalletInv'
BY DEF WalletInv, WalletTyped, RowsKeyed, AgentsCovered, vars, moneyVars,
       agentVars

\* Every step keeps the inductive invariant.
LEMMA NextInv ==
  ASSUME WalletInv, RefundsTyped, [Next]_vars
  PROVE  WalletInv'
<1>1. CASE Credit \/ OwnSpend
  BY <1>1, CreditInv, SpendInv DEF Credit, OwnSpend
<1>2. CASE Reserve
  BY <1>2, ReserveInv DEF Reserve
<1>3. CASE Settle
  BY <1>3, SettleInv DEF Settle
<1>4. CASE Release
  BY <1>4, ReleaseInv DEF Release
<1>5. CASE PreServeDebit
  BY <1>5, PreServeDebitInv DEF PreServeDebit
<1>6. CASE DebitSettle
  BY <1>6, SettleAgentDebitInv DEF DebitSettle
<1>7. CASE MoveFunds \/ Scheduled \/ Pay \/ Archive
  BY <1>7, AccountsInv
<1>8. CASE Operate \/ Refund
  BY <1>8, OperateInv
<1>9. CASE UNCHANGED vars
  BY <1>9, StutterInv
<1>10. QED
  BY <1>1, <1>2, <1>3, <1>4, <1>5, <1>6, <1>7, <1>8, <1>9 DEF Next

-----------------------------------------------------------------------------
(* Refunds, beside everything else.                                        *)

\* The steps that leave the backing, the royalties, the refunds and the
\* purchases alone.
LEMMA BackingKept ==
  ASSUME WalletInv,
         \/ Reserve \/ Release \/ PreServeDebit
         \/ MoveFunds \/ Scheduled \/ Pay \/ Archive \/ Operate
         \/ UNCHANGED vars
  PROVE  /\ cashBacked' = cashBacked
         /\ royaltyBasis' = royaltyBasis
         /\ refunding' = refunding /\ raced' = raced
         /\ ledger'["purchase"] = ledger["purchase"]
<1>1. CASE Reserve \/ Release \/ PreServeDebit
  BY <1>1, LedgerTypeNames
     DEF Reserve, Release, PreServeDebit, ReserveLXCForAgent,
         ReleaseLXCReservation, SpendLXCForAgent, refundVars,
         WalletInv, WalletTyped
<1>2. CASE MoveFunds \/ Scheduled \/ Pay \/ Archive \/ Operate
  BY <1>2 DEF MoveFunds, Scheduled, Pay, Archive, Operate, FundAgent,
              WithdrawAgent, TopUpAgent, PayAgent, ArchiveAgent,
              SetAgentCeiling, SetCreditLineOpen, PayCreditLineInvoice,
              refundVars
<1>3. CASE UNCHANGED vars
  BY <1>3 DEF vars, refundVars
<1>4. QED
  BY <1>1, <1>2, <1>3

\* The steps that charge: a spend, a settle of a hold and a settle of a debit.
LEMMA ChargeSteps ==
  ASSUME WalletInv, OwnSpend \/ Settle \/ DebitSettle
  PROVE  /\ \E before, charge, fee \in Int : Charged(before, charge, fee)
         /\ ledger'["purchase"] = ledger["purchase"]
<1>0. balance \in Int /\ ledger \in [LedgerTypes -> Int]
  BY DEF WalletInv, WalletTyped
<1>1. ASSUME NEW n \in Amounts, NEW bps \in FeeRates, SpendLXC(n, bps)
      PROVE  /\ \E before, charge, fee \in Int : Charged(before, charge, fee)
             /\ ledger'["purchase"] = ledger["purchase"]
  <2> DEFINE fee == PlatformFee(n, bps)
  <2>1. n \in Nat /\ bps \in 0..FeeDenominator
    BY WalletConstants
  <2>2. n \in Int /\ fee \in Int
    BY <2>1, GrossNat
  <2>3. Charged(balance, n, fee) /\ ledger'["purchase"] = ledger["purchase"]
    BY <1>0, <1>1, LedgerTypeNames DEF SpendLXC, Charged
  <2> HIDE DEF fee
  <2>4. QED
    BY <1>0, <2>2, <2>3
<1>2. ASSUME NEW r \in Reservations, NEW n \in Delivered,
             SettleLXCReservation(r, n)
      PROVE  /\ \E before, charge, fee \in Int : Charged(before, charge, fee)
             /\ ledger'["purchase"] = ledger["purchase"]
  <2>1. \E before, charge, fee \in Int : Charged(before, charge, fee)
    BY <1>2, SettleInv
  <2>2. ledger'["purchase"] = ledger["purchase"]
    BY <1>0, <1>2, LedgerTypeNames DEF SettleLXCReservation, SettleRows
  <2>3. QED
    BY <2>1, <2>2
<1>3. ASSUME NEW d \in Debits, NEW n \in Delivered, NEW rules \in Delivered,
             SettleAgentDebit(d, n, rules)
      PROVE  /\ \E before, charge, fee \in Int : Charged(before, charge, fee)
             /\ ledger'["purchase"] = ledger["purchase"]
  <2>1. \E before, charge, fee \in Int : Charged(before, charge, fee)
    BY <1>3, SettleAgentDebitInv
  <2>2. ledger'["purchase"] = ledger["purchase"]
    BY <1>0, <1>3, LedgerTypeNames DEF SettleAgentDebit
  <2>3. QED
    BY <2>1, <2>2
<1>4. QED
  BY <1>1, <1>2, <1>3 DEF OwnSpend, Settle, DebitSettle

\* A refund holds the backing it read and a positive amount, whatever happens
\* between its read and its write.
LEMMA RefundsInv ==
  ASSUME WalletInv, RefundsTyped, [Next]_vars
  PROVE  RefundsTyped'
<1>1. CASE OwnSpend \/ Settle \/ DebitSettle
  <2>1. PICK before \in Int, charge \in Int, fee \in Int :
          Charged(before, charge, fee)
    BY <1>1, ChargeSteps
  <2>2. FromCash(cashBacked, before, charge) \in Nat
    <3>1. cashBacked \in Nat
      BY DEF WalletInv, WalletTyped
    <3>2. FromCash(cashBacked, before, charge) \in 0..cashBacked
      BY <3>1, FromCashBounds
    <3>3. QED
      BY <3>1, <3>2
  <2>3. QED
    BY <2>1, <2>2 DEF Charged, EarnRoyalty, RefundsTyped
<1>2. CASE Credit
  BY <1>2 DEF Credit, CreditLXC, refundVars, RefundsTyped
<1>3. CASE Refund
  <2>0. cashBacked \in Nat /\ Amounts \subseteq Nat
    BY WalletConstants DEF WalletInv, WalletTyped
  <2>1. ASSUME NEW h \in Refunders, NEW n \in Amounts, ReadForRefund(h, n)
        PROVE  RefundsTyped'
    BY <2>0, <2>1 DEF ReadForRefund, RefundsTyped, RefundState
  <2>2. ASSUME NEW h \in Refunders, WriteForRefund(h) \/ DropRefund(h)
        PROVE  RefundsTyped'
    BY <2>2 DEF WriteForRefund, DropRefund, NotRefunding, RefundsTyped,
                RefundState
  <2>3. QED
    BY <1>3, <2>1, <2>2 DEF Refund
<1>4. CASE \/ Reserve \/ Release \/ PreServeDebit
           \/ MoveFunds \/ Scheduled \/ Pay \/ Archive \/ Operate
           \/ UNCHANGED vars
  BY <1>4, BackingKept DEF RefundsTyped
<1>5. QED
  BY <1>1, <1>2, <1>3, <1>4 DEF Next

\* The inductive invariant holds of every behaviour of the wallet, with the
\* refunds' part: what a refund writes is a number because what it read was.
THEOREM WalletInvHolds == Spec => [](WalletInv /\ RefundsTyped)
<1>1. Init => WalletInv /\ RefundsTyped
  <2>1. Init => RefundsTyped
    BY DEF Init, RefundsTyped, RefundState, NotRefunding
  <2>2. QED
    BY <2>1, InitInv
<1>2. WalletInv /\ RefundsTyped /\ [Next]_vars => WalletInv' /\ RefundsTyped'
  BY NextInv, RefundsInv
<1>3. QED
  BY <1>1, <1>2, PTL DEF Spec

\* Whatever the order of purchases, holds, settles, releases, debits, payments,
\* refunds and archives, every row keeps its type: no agent's balance, no cash
\* backing and no credit-line debt falls below zero.
THEOREM TypeCorrect == Spec => []TypeOK
<1>1. WalletInv /\ RefundsTyped => TypeOK
  BY DEF WalletInv, TypeOK
<1>2. QED
  BY WalletInvHolds, <1>1, PTL

\* The workspace's balance covers its agents' money in every reachable state.
THEOREM AgentsAlwaysCovered == Spec => []AgentsCovered
<1>1. WalletInv => AgentsCovered
  BY DEF WalletInv
<1>2. QED
  BY WalletInvHolds, <1>1, PTL

-----------------------------------------------------------------------------
(* Charges and holds.                                                      *)

\* The steps that leave every reservation alone.
LEMMA ReservationsKept ==
  ASSUME \/ Credit \/ OwnSpend \/ Refund \/ PreServeDebit \/ DebitSettle
         \/ MoveFunds \/ Scheduled \/ Pay \/ Archive \/ Operate
         \/ UNCHANGED vars
  PROVE  res' = res
<1>1. CASE Credit \/ OwnSpend \/ Refund \/ PreServeDebit
  BY <1>1 DEF Credit, OwnSpend, Refund, PreServeDebit, CreditLXC, SpendLXC,
              ReadForRefund, WriteForRefund, DropRefund, SpendLXCForAgent
<1>2. CASE DebitSettle
  <2>1. PICK d \in Debits, n \in Delivered, rules \in Delivered :
          SettleAgentDebit(d, n, rules)
    BY <1>2 DEF DebitSettle
  <2>2. QED
    BY <2>1 DEF SettleAgentDebit
<1>3. CASE MoveFunds \/ Scheduled \/ Pay \/ Archive \/ Operate
  BY <1>3 DEF MoveFunds, Scheduled, Pay, Archive, Operate, FundAgent,
              WithdrawAgent, TopUpAgent, PayAgent, ArchiveAgent,
              SetAgentCeiling, SetCreditLineOpen, PayCreditLineInvoice
<1>4. CASE UNCHANGED vars
  BY <1>4 DEF vars
<1>5. QED
  BY <1>1, <1>2, <1>3, <1>4

\* A settled question never cost more than its hold, for any fee rate and any
\* delivered cost: settleLXCReservation clamps with spendWithin, whose rounding
\* down always leaves room for the fee's rounding up.
THEOREM ChargesStayWithinHolds == Spec => []SettledWithinHold
<1>1. Init => SettledWithinHold
  BY DEF Init, SettledWithinHold, NoReservation
<1>2. ASSUME WalletInv, SettledWithinHold, [Next]_vars
      PROVE  SettledWithinHold'
  <2>1. ASSUME NEW r \in Reservations, NEW n \in Delivered,
               SettleLXCReservation(r, n)
        PROVE  SettledWithinHold'
    <3>1. res'[r].status = "settled" =>
            Gross(res'[r].settled, res'[r].bps) <= res'[r].held
      BY <1>2, <2>1, SettleInv
    <3>2. \A q \in Reservations : q # r => res'[q] = res[q]
      BY <1>2, <2>1 DEF SettleLXCReservation, WalletInv, WalletTyped
    <3>3. QED
      BY <1>2, <3>1, <3>2 DEF SettledWithinHold
  <2>2. ASSUME NEW k \in Keys, NEW r \in Reservations, NEW n \in Amounts,
               NEW bps \in FeeRates, ReserveLXCForAgent(k, r, n, bps)
        PROVE  SettledWithinHold'
    <3>1. res'[r].status = "held"
          /\ \A q \in Reservations : q # r => res'[q] = res[q]
      BY <1>2, <2>2 DEF ReserveLXCForAgent, WalletInv, WalletTyped
    <3>2. QED
      BY <1>2, <3>1 DEF SettledWithinHold
  <2>3. ASSUME NEW r \in Reservations, ReleaseLXCReservation(r)
        PROVE  SettledWithinHold'
    <3>1. res'[r].status = "released"
          /\ \A q \in Reservations : q # r => res'[q] = res[q]
      BY <1>2, <2>3
         DEF ReleaseLXCReservation, WalletInv, WalletTyped, Reservation
    <3>2. QED
      BY <1>2, <3>1 DEF SettledWithinHold
  <2>4. CASE res' = res
    BY <1>2, <2>4 DEF SettledWithinHold
  <2>5. QED
    BY <1>2, <2>1, <2>2, <2>3, <2>4, ReservationsKept
       DEF Next, Settle, Reserve, Release
<1>3. QED
  BY WalletInvHolds, <1>1, <1>2, PTL DEF Spec

-----------------------------------------------------------------------------
(* Royalties.                                                              *)

\* What is proved of the royalties at once: the bound, and the same bound of
\* the backing that each open refund has read and may still write.
FundingInv == RoyaltiesFundedByPurchases /\ RefundsFunded

\* A charge moves backing to the royalties' basis and its fee only consumes it.
\* While a refund is open the charge counts as raced too, so what the refund has
\* read stays within its bound.
LEMMA ChargeKeepsFunding ==
  ASSUME WalletInv, RefundsTyped, FundingInv,
         NEW before \in Int, NEW charge \in Int, NEW fee \in Int,
         Charged(before, charge, fee),
         ledger'["purchase"] = ledger["purchase"]
  PROVE  FundingInv'
<1> DEFINE basis == FromCash(cashBacked, before, charge)
<1>1. /\ cashBacked \in Nat /\ royaltyBasis \in Nat /\ raced \in Nat
      /\ ledger["purchase"] \in Int
      /\ \A h \in Refunders : refunding[h].cash \in Nat
  BY LedgerTypeNames DEF WalletInv, WalletTyped, RefundsTyped, RefundState
<1>2. basis \in 0..cashBacked
  BY <1>1, FromCashBounds
<1>3. /\ BackingAfter(cashBacked, before, charge, fee) \in Nat
      /\ BackingAfter(cashBacked, before, charge, fee) <= cashBacked - basis
  BY <1>1, BackingAfterBounds
<1>4. /\ cashBacked' = BackingAfter(cashBacked, before, charge, fee)
      /\ royaltyBasis' = royaltyBasis + basis /\ refunding' = refunding
      /\ raced' = raced + (IF RefundOpen THEN basis ELSE 0)
  BY DEF Charged, EarnRoyalty
<1> HIDE DEF basis
<1>5. RoyaltiesFundedByPurchases'
  BY <1>1, <1>2, <1>3, <1>4 DEF FundingInv, RoyaltiesFundedByPurchases
<1>6. RefundsFunded'
  <2>1. SUFFICES ASSUME NEW h \in Refunders, refunding'[h].at = "read"
                 PROVE  royaltyBasis' + refunding'[h].cash
                          <= ledger'["purchase"] + raced'
    BY DEF RefundsFunded
  <2>2. RefundOpen
    BY <1>4, <2>1 DEF RefundOpen
  <2>3. royaltyBasis + refunding[h].cash <= ledger["purchase"] + raced
    BY <1>4, <2>1 DEF FundingInv, RefundsFunded
  <2>4. QED
    BY <1>1, <1>2, <1>4, <2>2, <2>3
<1>7. QED
  BY <1>5, <1>6 DEF FundingInv

\* A refund takes the backing it has read along, and writes no more of it.
LEMMA RefundKeepsFunding ==
  ASSUME WalletInv, RefundsTyped, FundingInv, Refund
  PROVE  FundingInv'
<1>0. /\ cashBacked \in Nat /\ royaltyBasis \in Nat /\ raced \in Nat
      /\ ledger["purchase"] \in Int /\ refunding \in [Refunders -> RefundState]
  BY LedgerTypeNames DEF WalletInv, WalletTyped, RefundsTyped
<1>1. ASSUME NEW h \in Refunders, NEW n \in Amounts, ReadForRefund(h, n)
      PROVE  FundingInv'
  BY <1>0, <1>1 DEF ReadForRefund, FundingInv, RoyaltiesFundedByPurchases,
                    RefundsFunded, RefundState
<1>2. ASSUME NEW h \in Refunders, WriteForRefund(h)
      PROVE  FundingInv'
  <2>1. /\ royaltyBasis + refunding[h].cash <= ledger["purchase"] + raced
        /\ refunding[h].cash \in Nat /\ refunding[h].amount \in Nat
    BY <1>0, <1>2 DEF WriteForRefund, FundingInv, RefundsFunded, RefundState
  <2>2. cashBacked' \in Nat /\ cashBacked' <= refunding[h].cash
    BY <1>2, <2>1 DEF WriteForRefund, BackingAfterRefund, MaxOf
  <2>3. RoyaltiesFundedByPurchases'
    BY <1>0, <1>2, <2>1, <2>2 DEF WriteForRefund, RoyaltiesFundedByPurchases
  <2>4. RefundsFunded'
    BY <1>0, <1>2 DEF WriteForRefund, NotRefunding, FundingInv, RefundsFunded
  <2>5. QED
    BY <2>3, <2>4 DEF FundingInv
<1>3. ASSUME NEW h \in Refunders, DropRefund(h)
      PROVE  FundingInv'
  BY <1>0, <1>3 DEF DropRefund, NotRefunding, FundingInv,
                    RoyaltiesFundedByPurchases, RefundsFunded
<1>4. QED
  BY <1>1, <1>2, <1>3 DEF Refund

\* Through every order of purchases, holds, debits, settles and refunds, comped
\* and lent LXC fund no royalty, and purchased LXC funds a second one only by as
\* much as was charged while a refund was between its read and its write.
THEOREM RoyaltiesAlwaysFunded == Spec => []RoyaltiesFundedByPurchases
<1>1. Init => FundingInv
  BY LedgerTypeNames DEF Init, FundingInv, RoyaltiesFundedByPurchases,
                         RefundsFunded, NotRefunding
<1>2. ASSUME WalletInv, RefundsTyped, FundingInv, [Next]_vars
      PROVE  FundingInv'
  <2>0. /\ cashBacked \in Nat /\ royaltyBasis \in Nat /\ raced \in Nat
        /\ ledger \in [LedgerTypes -> Int] /\ ledger["purchase"] \in Int
        /\ refunding \in [Refunders -> RefundState]
    BY <1>2, LedgerTypeNames DEF WalletInv, WalletTyped, RefundsTyped
  <2>1. ASSUME NEW n \in Amounts, NEW t \in {"purchase", "admin_grant"},
               CreditLXC(t, n)
        PROVE  FundingInv'
    <3>1. n \in Nat
      BY WalletConstants
    <3>2. /\ cashBacked' - cashBacked = ledger'["purchase"] - ledger["purchase"]
          /\ ledger'["purchase"] \in Int
          /\ ledger'["purchase"] >= ledger["purchase"]
          /\ cashBacked' \in Int
      BY <2>0, <2>1, <3>1, LedgerTypeNames DEF CreditLXC, AddsBacking
    <3>3. royaltyBasis' = royaltyBasis /\ UNCHANGED <<refunding, raced>>
      BY <2>1 DEF CreditLXC, refundVars
    <3>4. RoyaltiesFundedByPurchases'
      BY <1>2, <2>0, <3>2, <3>3 DEF FundingInv, RoyaltiesFundedByPurchases
    <3>5. RefundsFunded'
      <4>1. \A h \in Refunders : refunding[h].cash \in Nat
        BY <2>0 DEF RefundState
      <4>2. QED
        BY <1>2, <2>0, <3>2, <3>3, <4>1 DEF FundingInv, RefundsFunded
    <3>6. QED
      BY <3>4, <3>5 DEF FundingInv
  <2>2. CASE OwnSpend \/ Settle \/ DebitSettle
    BY <1>2, <2>2, ChargeSteps, ChargeKeepsFunding
  <2>3. CASE Refund
    BY <1>2, <2>3, RefundKeepsFunding
  <2>4. CASE \/ Reserve \/ Release \/ PreServeDebit
             \/ MoveFunds \/ Scheduled \/ Pay \/ Archive \/ Operate
             \/ UNCHANGED vars
    BY <1>2, <2>4, BackingKept
       DEF FundingInv, RoyaltiesFundedByPurchases, RefundsFunded
  <2>5. QED
    BY <1>2, <2>1, <2>2, <2>3, <2>4 DEF Next, Credit
<1>3. FundingInv => RoyaltiesFundedByPurchases
  BY DEF FundingInv
<1>4. QED
  BY WalletInvHolds, <1>1, <1>2, <1>3, PTL DEF Spec

-----------------------------------------------------------------------------
(* Once and for all.                                                       *)

\* The steps that leave every debit alone.
LEMMA DebitsKept ==
  ASSUME \/ Credit \/ OwnSpend \/ Refund \/ Reserve \/ Settle \/ Release
         \/ MoveFunds \/ Scheduled \/ Pay \/ Archive \/ Operate
         \/ UNCHANGED vars
  PROVE  debit' = debit
<1>1. CASE Credit \/ OwnSpend \/ Refund
  BY <1>1 DEF Credit, OwnSpend, Refund, CreditLXC, SpendLXC,
              ReadForRefund, WriteForRefund, DropRefund
<1>2. CASE Reserve \/ Release
  BY <1>2 DEF Reserve, Release, ReserveLXCForAgent, ReleaseLXCReservation
<1>3. CASE Settle
  BY <1>3 DEF Settle, SettleLXCReservation
<1>4. CASE MoveFunds \/ Scheduled \/ Pay \/ Archive \/ Operate
  BY <1>4 DEF MoveFunds, Scheduled, Pay, Archive, Operate, FundAgent,
              WithdrawAgent, TopUpAgent, PayAgent, ArchiveAgent,
              SetAgentCeiling, SetCreditLineOpen, PayCreditLineInvoice
<1>5. CASE UNCHANGED vars
  BY <1>5 DEF vars
<1>6. QED
  BY <1>1, <1>2, <1>3, <1>4, <1>5

\* A reservation once settled or released, and a debit once settled, never
\* changes again: the status comparison under the row's lock makes a late
\* settle, a second release or the sweeper a no-op.
THEOREM ResolutionsAreFinal == Spec => ResolvedIsFinal
<1> DEFINE ReservationsFinal ==
             \A r \in Reservations :
               res[r].status \in {"settled", "released"} => res'[r] = res[r]
           DebitsFinal ==
             \A d \in Debits :
               debit[d].status = "settled" => debit'[d] = debit[d]
<1>1. ASSUME WalletTyped, [Next]_vars
      PROVE  ReservationsFinal
  <2>1. ASSUME NEW q \in Reservations, res[q].status \in {"none", "held"},
               NEW row, res' = [res EXCEPT ![q] = row]
        PROVE  ReservationsFinal
    BY <1>1, <2>1 DEF WalletTyped
  <2>2. CASE Reserve
    BY <2>1, <2>2 DEF Reserve, ReserveLXCForAgent
  <2>3. CASE Settle
    <3>1. PICK q \in Reservations, n \in Delivered : SettleLXCReservation(q, n)
      BY <2>3 DEF Settle
    <3>2. /\ res[q].status = "held"
          /\ \E row : res' = [res EXCEPT ![q] = row]
      BY <3>1 DEF SettleLXCReservation, IsHeld
    <3>3. QED
      BY <2>1, <3>2
  <2>4. CASE Release
    <3>1. PICK q \in Reservations : ReleaseLXCReservation(q)
      BY <2>4 DEF Release
    <3>2. /\ res[q].status = "held"
          /\ \E row : res' = [res EXCEPT ![q] = row]
      BY <3>1 DEF ReleaseLXCReservation, IsHeld
    <3>3. QED
      BY <2>1, <3>2
  <2>5. CASE res' = res
    BY <2>5
  <2>6. QED
    BY <1>1, <2>2, <2>3, <2>4, <2>5, ReservationsKept DEF Next
<1>2. ASSUME WalletTyped, [Next]_vars
      PROVE  DebitsFinal
  <2>1. ASSUME NEW q \in Debits, debit[q].status # "settled",
               NEW row, debit' = [debit EXCEPT ![q] = row]
        PROVE  DebitsFinal
    BY <1>2, <2>1 DEF WalletTyped
  <2>2. CASE PreServeDebit
    BY <2>1, <2>2 DEF PreServeDebit, SpendLXCForAgent
  <2>3. CASE DebitSettle
    <3>1. PICK d \in Debits, n \in Delivered, rules \in Delivered :
            SettleAgentDebit(d, n, rules)
      BY <2>3 DEF DebitSettle
    <3>2. /\ debit[d].status # "settled"
          /\ \E row : debit' = [debit EXCEPT ![d] = row]
      BY <3>1 DEF SettleAgentDebit
    <3>3. QED
      BY <2>1, <3>2
  <2>4. CASE debit' = debit
    BY <2>4
  <2>5. QED
    BY <1>2, <2>2, <2>3, <2>4, DebitsKept DEF Next
<1>3. WalletTyped /\ [Next]_vars => [ReservationsFinal /\ DebitsFinal]_vars
  BY <1>1, <1>2
<1>4. WalletInv /\ RefundsTyped => WalletTyped
  BY DEF WalletInv
<1>5. QED
  BY WalletInvHolds, <1>3, <1>4, PTL DEF Spec, ResolvedIsFinal
=============================================================================
