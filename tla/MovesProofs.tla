---------------------------- MODULE MovesProofs -----------------------------
(***************************************************************************)
(* What is proved of the credits that move between agents (CreditMoves):   *)
(* every workspace's balance covers its agents, nothing is made or lost on *)
(* either side of the money wall, test money stays test money, and a       *)
(* give-back or a request is paid once.  The inductive invariant adds to   *)
(* these that the test-funded column is within the balance and the holds,  *)
(* and that an escrow's test-funded part is within its amount.             *)
(* And of an agent's card (AgentCards), at the end: in whatever order and  *)
(* however often its settlements arrive, the account stays within one      *)
(* µLXC of rounding per step, and settling makes no test money.            *)
(***************************************************************************)
EXTENDS CreditMoves, AgentCards, TotalsProofs

EscrowRows == [status : {"none", "held", "disputed", "released", "returned"},
               payer : Members, payee : Members, amount : Nat, test : Nat]

TransferRows == [made : BOOLEAN, amount : Nat, from : Members, to : Members,
                 test : Nat, refundOf : SUBSET Transfers,
                 requestOf : SUBSET Requests]

RequestRows == [status : {"none", "pending", "accepted", "declined"},
                from : Members, to : Members, amount : Nat]

\* The wallets' columns.
MovesLedger ==
  /\ world \in Worlds
  /\ bal \in [Workspaces -> Nat] /\ funded \in [Workspaces -> Nat]
  /\ held \in [Members -> Nat] /\ memberBal \in [Members -> Nat]
  /\ inflow \in [BOOLEAN -> Int]

\* The tables of transfers, escrows and requests.
MovesRows ==
  /\ xfer \in [Transfers -> TransferRows]
  /\ escrow \in [Escrows -> EscrowRows]
  /\ request \in [Requests -> RequestRows]
  /\ refunding \in [Transfers -> Nat]

MembersTotal(w) == TotalOf(AgentsOf(w), memberBal)

\* The balance of w with its open holds.
Worth(w) == bal[w] + HeldIn(w)

FundedWithin == \A w \in Workspaces : funded[w] <= Worth(w)

\* An escrow's test-funded part is within it, and all of it between test
\* workspaces, whose every credit is test money.
EscrowsTest ==
  \A e \in Escrows :
    /\ escrow[e].test <= escrow[e].amount
    /\ e \in InEscrow /\ IsTest(Home(escrow[e].payer)) =>
         escrow[e].test = escrow[e].amount

MovesInv == /\ MovesLedger /\ MovesRows /\ MembersCovered /\ FundedWithin
            /\ EscrowsTest /\ SidesConserved

-----------------------------------------------------------------------------
(* Agents and their workspaces.                                            *)

\* Every agent belongs to one workspace, and is one of its agents.
LEMMA HomeIsAWorkspace ==
  ASSUME MovesLedger, NEW m \in Members
  PROVE  Home(m) \in Workspaces /\ m \in AgentsOf(Home(m))
BY MovesConstants DEF MovesLedger, Home, AgentsOf

\* Who is where, and which workspaces are test ones, does not change.
LEMMA HomesStay ==
  ASSUME world' = world
  PROVE  /\ \A m \in Members : Home(m)' = Home(m)
         /\ \A w \in Workspaces : AgentsOf(w)' = AgentsOf(w)
         /\ \A w \in Workspaces : IsTest(w)' = IsTest(w)
BY DEF Home, AgentsOf, IsTest

\* The totals of a workspace are naturals that no agent's part exceeds.
LEMMA WorkspaceTotals ==
  ASSUME MovesLedger, NEW w \in Workspaces
  PROVE  /\ HeldIn(w) \in Nat /\ MembersTotal(w) \in Nat /\ Worth(w) \in Nat
         /\ \A m \in Members : Home(m) = w =>
              held[m] <= HeldIn(w) /\ memberBal[m] <= MembersTotal(w)
<1>1. IsFiniteSet(Members) /\ held \in [Members -> Nat]
      /\ memberBal \in [Members -> Nat] /\ bal[w] \in Nat
  BY MovesConstants DEF MovesLedger
<1>2. /\ HeldIn(w) \in Nat
      /\ \A m \in Members : m \in AgentsOf(w) => held[m] <= HeldIn(w)
  BY <1>1, TotalOfNat DEF HeldIn
<1>3. /\ MembersTotal(w) \in Nat
      /\ \A m \in Members : m \in AgentsOf(w) => memberBal[m] <= MembersTotal(w)
  BY <1>1, TotalOfNat DEF MembersTotal
<1>4. QED
  BY <1>1, <1>2, <1>3 DEF AgentsOf, Worth

\* What a change of one agent's balance does to the workspaces' totals ...
LEMMA MemberMoves ==
  ASSUME MovesLedger, world' = world, NEW m \in Members, NEW delta \in Int,
         memberBal' \in [Members -> Nat], memberBal'[m] = memberBal[m] + delta,
         \A k \in Members \ {m} : memberBal'[k] = memberBal[k]
  PROVE  \A w \in Workspaces :
           MembersTotal(w)' = MembersTotal(w) + (IF Home(m) = w THEN delta ELSE 0)
<1>1. IsFiniteSet(Members) /\ memberBal \in [Members -> Nat]
  BY MovesConstants DEF MovesLedger
<1>2. ASSUME NEW w \in Workspaces
      PROVE  MembersTotal(w)' = MembersTotal(w)
                                + (IF Home(m) = w THEN delta ELSE 0)
  <2>1. AgentsOf(w)' = AgentsOf(w) /\ (m \in AgentsOf(w) <=> Home(m) = w)
    BY HomesStay DEF AgentsOf
  <2>2. TotalOf(AgentsOf(w), memberBal') = TotalOf(AgentsOf(w), memberBal)
          + (IF m \in AgentsOf(w) THEN delta ELSE 0)
    BY <1>1, TotalOfMoves
  <2>3. QED
    BY <2>1, <2>2 DEF MembersTotal
<1>3. QED
  BY <1>2

\* ... of two agents' balances ...
LEMMA MemberPasses ==
  ASSUME MovesLedger, world' = world, NEW a \in Members, NEW b \in Members,
         a # b, NEW n \in Nat, memberBal' \in [Members -> Nat],
         memberBal'[a] = memberBal[a] - n, memberBal'[b] = memberBal[b] + n,
         \A k \in Members \ {a, b} : memberBal'[k] = memberBal[k]
  PROVE  \A w \in Workspaces :
           MembersTotal(w)' = MembersTotal(w) - (IF Home(a) = w THEN n ELSE 0)
                                              + (IF Home(b) = w THEN n ELSE 0)
<1>1. IsFiniteSet(Members) /\ memberBal \in [Members -> Nat] /\ n \in Int
  BY MovesConstants DEF MovesLedger
<1>2. ASSUME NEW w \in Workspaces
      PROVE  MembersTotal(w)' = MembersTotal(w)
               - (IF Home(a) = w THEN n ELSE 0) + (IF Home(b) = w THEN n ELSE 0)
  <2>1. /\ AgentsOf(w)' = AgentsOf(w)
        /\ a \in AgentsOf(w) <=> Home(a) = w
        /\ b \in AgentsOf(w) <=> Home(b) = w
    BY HomesStay DEF AgentsOf
  <2>2. TotalOf(AgentsOf(w), memberBal') = TotalOf(AgentsOf(w), memberBal)
          - (IF a \in AgentsOf(w) THEN n ELSE 0)
          + (IF b \in AgentsOf(w) THEN n ELSE 0)
    BY <1>1, TotalOfPasses
  <2>3. QED
    BY <2>1, <2>2 DEF MembersTotal
<1>3. QED
  BY <1>2

\* ... and of one agent's hold.
LEMMA HeldMoves ==
  ASSUME MovesLedger, world' = world, NEW m \in Members, NEW delta \in Int,
         held' \in [Members -> Nat], held'[m] = held[m] + delta,
         \A k \in Members \ {m} : held'[k] = held[k]
  PROVE  \A w \in Workspaces :
           HeldIn(w)' = HeldIn(w) + (IF Home(m) = w THEN delta ELSE 0)
<1>1. IsFiniteSet(Members) /\ held \in [Members -> Nat]
  BY MovesConstants DEF MovesLedger
<1>2. ASSUME NEW w \in Workspaces
      PROVE  HeldIn(w)' = HeldIn(w) + (IF Home(m) = w THEN delta ELSE 0)
  <2>1. AgentsOf(w)' = AgentsOf(w) /\ (m \in AgentsOf(w) <=> Home(m) = w)
    BY HomesStay DEF AgentsOf
  <2>2. TotalOf(AgentsOf(w), held') = TotalOf(AgentsOf(w), held)
          + (IF m \in AgentsOf(w) THEN delta ELSE 0)
    BY <1>1, TotalOfMoves
  <2>3. QED
    BY <2>1, <2>2 DEF HeldIn
<1>3. QED
  BY <1>2

\* A step that changes no hold leaves the workspaces' holds.
LEMMA HeldStays ==
  ASSUME world' = world, held' = held
  PROVE  \A w \in Workspaces : HeldIn(w)' = HeldIn(w)
BY HomesStay DEF HeldIn

-----------------------------------------------------------------------------
(* The test-funded column.                                                 *)

\* Within the balance and the holds, the column says what is test-funded of a
\* real workspace, and credits that arrive do not clamp it.
LEMMA FundedSays ==
  MovesInv => \A w \in Workspaces :
    /\ TestFunded(w) = IF IsTest(w) THEN Worth(w) ELSE funded[w]
    /\ \A n \in Nat : Clamp(funded[w], bal[w] + n, HeldIn(w)) = funded[w]
<1> SUFFICES ASSUME MovesInv, NEW w \in Workspaces
             PROVE  /\ TestFunded(w) = IF IsTest(w) THEN Worth(w) ELSE funded[w]
                    /\ \A n \in Nat :
                         Clamp(funded[w], bal[w] + n, HeldIn(w)) = funded[w]
  OBVIOUS
<1>1. /\ bal[w] \in Nat /\ HeldIn(w) \in Nat /\ funded[w] \in Nat
      /\ funded[w] <= bal[w] + HeldIn(w)
  BY WorkspaceTotals DEF MovesInv, MovesLedger, FundedWithin, Worth
<1>2. QED
  BY <1>1 DEF TestFunded, TestFundedOf, Least, Most, Clamp, Worth

FundedClear ==
  \A w \in Workspaces :
    TestFunded(w) = IF IsTest(w) THEN Worth(w) ELSE funded[w]

\* What testFundedULXC reads is the column, within the balance and the holds.
LEMMA FundedIsClear == MovesInv => FundedClear
BY FundedSays DEF FundedClear

\* What is left of the column, and what moves, when n of workspace v's credits
\* leave it.
LEMMA SpendSplit ==
  ASSUME MovesInv, NEW v \in Workspaces, NEW a, NEW b, NEW n \in Nat,
         n <= bal[v], NEW out, NEW moved,
         out = Clamp(TakeTestFunded(v, a, b, n), bal[v] - n, HeldIn(v)),
         moved = Most(TestFunded(v) - TestFundedOf(v, bal[v] - n, out), 0)
  PROVE  /\ out \in Nat /\ out <= Worth(v) - n
         /\ moved \in Nat /\ moved <= n
         /\ IsTest(v) => moved = n
         /\ ~IsTest(v) => moved = funded[v] - out
<1>1. /\ bal[v] \in Nat /\ HeldIn(v) \in Nat /\ funded[v] \in Nat
      /\ funded[v] <= bal[v] + HeldIn(v)
  BY WorkspaceTotals DEF MovesInv, MovesLedger, FundedWithin, Worth
<1>2. TestFunded(v) = IF IsTest(v) THEN bal[v] + HeldIn(v) ELSE funded[v]
  BY FundedSays DEF Worth
<1>3. PICK took \in Nat :
        /\ took = TakeTestFunded(v, a, b, n)
        /\ took <= bal[v] + HeldIn(v)
        /\ ~IsTest(v) => took <= funded[v] /\ took >= funded[v] - n
  BY <1>1, <1>2 DEF TakeTestFunded, Least
<1>4. /\ out \in Nat /\ out <= bal[v] + HeldIn(v) - n
      /\ out = took \/ out = bal[v] + HeldIn(v) - n
      /\ out <= took
  BY <1>1, <1>3 DEF Clamp, Least, Most
<1>5. TestFundedOf(v, bal[v] - n, out) =
        IF IsTest(v) THEN bal[v] + HeldIn(v) - n ELSE out
  BY <1>1, <1>4 DEF TestFundedOf, Least, Most
<1>6. CASE IsTest(v)
  BY <1>1, <1>2, <1>4, <1>5, <1>6 DEF Most, Worth
<1>7. CASE ~IsTest(v)
  <2>1. out <= funded[v] /\ out >= funded[v] - n
    BY <1>1, <1>3, <1>4, <1>7
  <2>2. QED
    BY <1>1, <1>2, <1>4, <1>5, <1>7, <2>1 DEF Most, Worth
<1>8. QED
  BY <1>6, <1>7

\* Between two agents of one workspace the column keeps what it said.
LEMMA SpendWithin ==
  ASSUME MovesInv, NEW v \in Workspaces, NEW a, NEW b, NEW n \in Nat,
         NEW took, took = TakeTestFunded(v, a, b, n), NEW moved,
         moved = Most(TestFunded(v) - TestFundedOf(v, bal[v], took), 0)
  PROVE  /\ moved \in Nat /\ took + moved \in Nat
         /\ took + moved <= Worth(v)
         /\ ~IsTest(v) => took + moved = funded[v]
<1>1. /\ bal[v] \in Nat /\ HeldIn(v) \in Nat /\ funded[v] \in Nat
      /\ funded[v] <= bal[v] + HeldIn(v)
  BY WorkspaceTotals DEF MovesInv, MovesLedger, FundedWithin, Worth
<1>2. TestFunded(v) = IF IsTest(v) THEN bal[v] + HeldIn(v) ELSE funded[v]
  BY FundedSays DEF Worth
<1>3. /\ took \in Nat
      /\ took <= bal[v] + HeldIn(v)
      /\ ~IsTest(v) => took <= funded[v]
  BY <1>1, <1>2 DEF TakeTestFunded, Least
<1>4. TestFundedOf(v, bal[v], took) =
        IF IsTest(v) THEN bal[v] + HeldIn(v) ELSE took
  BY <1>1, <1>3 DEF TestFundedOf, Least, Most
<1>5. QED
  BY <1>1, <1>2, <1>3, <1>4 DEF Most, Worth

-----------------------------------------------------------------------------
(* What the workspaces are worth, on each side of the wall, what is in     *)
(* escrow, and the test-funded part of both.                               *)

Worths == [w \in Workspaces |-> bal[w] + HeldIn(w)]
TestParts == [w \in Workspaces |-> TestFunded(w)]
TrustAmounts == [e \in Escrows |-> escrow[e].amount]
TrustTests == [e \in Escrows |-> escrow[e].test]

SideOf(side) == {w \in Workspaces : IsTest(w) = side}

Wealth(side) == TotalOf(SideOf(side), Worths)

EscrowsOf(side) == {e \in InEscrow : IsTest(Home(escrow[e].payer)) = side}

InTrust(side) == TotalOf(EscrowsOf(side), TrustAmounts)

TestHere == Total(TestParts)

TestInTrust == TotalOf(InEscrow, TrustTests)

\* The balances and holds of a side are a natural.
LEMMA WealthNat ==
  MovesLedger =>
    /\ Worths \in [Workspaces -> Nat]
    /\ \A side \in BOOLEAN : Wealth(side) \in Nat
<1> SUFFICES ASSUME MovesLedger
    PROVE  /\ Worths \in [Workspaces -> Nat]
           /\ \A side \in BOOLEAN : Wealth(side) \in Nat
  OBVIOUS
<1>1. Worths \in [Workspaces -> Nat]
  BY WorkspaceTotals DEF Worths, Worth
<1>2. QED
  BY <1>1, TotalOfNat, MovesConstants DEF Wealth

\* What is in escrow, and its test-funded part, are naturals.
LEMMA InTrustNat ==
  MovesRows => /\ TrustAmounts \in [Escrows -> Nat]
               /\ TrustTests \in [Escrows -> Nat]
               /\ \A side \in BOOLEAN : InTrust(side) \in Nat
               /\ TestInTrust \in Nat
<1> SUFFICES ASSUME MovesRows
    PROVE  /\ TrustAmounts \in [Escrows -> Nat]
           /\ TrustTests \in [Escrows -> Nat]
           /\ \A side \in BOOLEAN : InTrust(side) \in Nat
           /\ TestInTrust \in Nat
  OBVIOUS
<1>1. /\ TrustAmounts \in [Escrows -> Nat]
      /\ TrustTests \in [Escrows -> Nat]
  BY DEF MovesRows, EscrowRows, TrustAmounts, TrustTests
<1>2. QED
  BY <1>1, TotalOfNat, MovesConstants DEF InTrust, TestInTrust

SidesNat == \A side \in BOOLEAN : Wealth(side) \in Nat /\ InTrust(side) \in Nat

\* The sums of each side are naturals.
LEMMA SidesAreNat == MovesLedger /\ MovesRows => SidesNat
BY WealthNat, InTrustNat DEF SidesNat

\* One workspace's worth changes.
LEMMA WealthMoves ==
  ASSUME MovesLedger, MovesLedger', world' = world, NEW v \in Workspaces,
         NEW delta \in Int, Worth(v)' = Worth(v) + delta,
         \A w \in Workspaces \ {v} : Worth(w)' = Worth(w)
  PROVE  \A side \in BOOLEAN :
           Wealth(side)' = Wealth(side) + (IF IsTest(v) = side THEN delta ELSE 0)
<1>1. PICK f \in [Workspaces -> Nat] :
        f = Worths
  BY WealthNat
<1>2. PICK g \in [Workspaces -> Nat] :
        g = Worths'
  <2>1. (Worths \in [Workspaces -> Nat])'
    BY WealthNat, PTL
  <2>2. QED
    BY <2>1
<1>3. g[v] = f[v] + delta /\ \A w \in Workspaces \ {v} : g[w] = f[w]
  BY <1>1, <1>2 DEF Worths, Worth
<1>4. ASSUME NEW side \in BOOLEAN
      PROVE  Wealth(side)' = Wealth(side)
                             + (IF IsTest(v) = side THEN delta ELSE 0)
  <2>1. SideOf(side)' = SideOf(side) /\ (v \in SideOf(side) <=> IsTest(v) = side)
    BY HomesStay DEF SideOf
  <2>2. TotalOf(SideOf(side), g) = TotalOf(SideOf(side), f)
          + (IF v \in SideOf(side) THEN delta ELSE 0)
    BY <1>3, TotalOfMoves, MovesConstants
  <2>3. QED
    BY <1>1, <1>2, <2>1, <2>2 DEF Wealth
<1>5. QED
  BY <1>4

\* Credits pass from one workspace to another on the same side of the wall.
LEMMA WealthPasses ==
  ASSUME MovesLedger, MovesLedger', world' = world, NEW v \in Workspaces,
         NEW w \in Workspaces, v # w, SameSide(v, w), NEW n \in Nat,
         Worth(v)' = Worth(v) - n, Worth(w)' = Worth(w) + n,
         \A u \in Workspaces \ {v, w} : Worth(u)' = Worth(u)
  PROVE  \A side \in BOOLEAN : Wealth(side)' = Wealth(side)
<1>1. PICK f \in [Workspaces -> Nat] :
        f = Worths
  BY WealthNat
<1>2. PICK g \in [Workspaces -> Nat] :
        g = Worths'
  <2>1. (Worths \in [Workspaces -> Nat])'
    BY WealthNat, PTL
  <2>2. QED
    BY <2>1
<1>3. /\ g[v] = f[v] - n /\ g[w] = f[w] + n
      /\ \A u \in Workspaces \ {v, w} : g[u] = f[u]
  BY <1>1, <1>2 DEF Worths, Worth
<1>4. ASSUME NEW side \in BOOLEAN
      PROVE  Wealth(side)' = Wealth(side)
  <2>1. /\ SideOf(side)' = SideOf(side)
        /\ v \in SideOf(side) <=> w \in SideOf(side)
    BY HomesStay DEF SideOf, SameSide, IsTest
  <2>2. TotalOf(SideOf(side), g) = TotalOf(SideOf(side), f)
          - (IF v \in SideOf(side) THEN n ELSE 0)
          + (IF w \in SideOf(side) THEN n ELSE 0)
    <3>1. n \in Int /\ IsFiniteSet(Workspaces)
      BY MovesConstants
    <3>2. QED
      BY <1>3, <3>1, TotalOfPasses
  <2>3. TotalOf(SideOf(side), f) \in Nat
    BY TotalOfNat, MovesConstants
  <2>4. QED
    BY <1>1, <1>2, <2>1, <2>2, <2>3 DEF Wealth
<1>5. QED
  BY <1>4

\* No workspace's worth changes.
LEMMA WealthStays ==
  ASSUME world' = world, \A w \in Workspaces : Worth(w)' = Worth(w)
  PROVE  \A side \in BOOLEAN : Wealth(side)' = Wealth(side)
<1>1. Worths' = Worths
  BY DEF Worths, Worth
<1>2. \A side \in BOOLEAN : SideOf(side)' = SideOf(side)
  BY HomesStay DEF SideOf
<1>3. QED
  BY <1>1, <1>2 DEF Wealth

\* One escrow's row changes.
LEMMA InTrustMoves ==
  ASSUME MovesRows, MovesRows', world' = world, NEW e \in Escrows,
         \A d \in Escrows \ {e} : escrow'[d] = escrow[d]
  PROVE  /\ \A side \in BOOLEAN :
              InTrust(side)' = InTrust(side)
                - (IF e \in EscrowsOf(side) THEN escrow[e].amount ELSE 0)
                + (IF e \in EscrowsOf(side)' THEN escrow'[e].amount ELSE 0)
         /\ TestInTrust' = TestInTrust
              - (IF e \in InEscrow THEN escrow[e].test ELSE 0)
              + (IF e \in InEscrow' THEN escrow'[e].test ELSE 0)
<1>1. PICK f \in [Escrows -> Nat] : f = TrustAmounts
  BY InTrustNat
<1>2. PICK g \in [Escrows -> Nat] : g = TrustAmounts'
  <2>1. (TrustAmounts \in [Escrows -> Nat])'
    BY InTrustNat, PTL
  <2>2. QED
    BY <2>1
<1>3. PICK h \in [Escrows -> Nat] : h = TrustTests
  BY InTrustNat
<1>4. PICK k \in [Escrows -> Nat] : k = TrustTests'
  <2>1. (TrustTests \in [Escrows -> Nat])'
    BY InTrustNat, PTL
  <2>2. QED
    BY <2>1
<1>5. /\ f[e] = escrow[e].amount /\ g[e] = escrow'[e].amount
      /\ h[e] = escrow[e].test /\ k[e] = escrow'[e].test
      /\ \A d \in Escrows \ {e} : g[d] = f[d] /\ k[d] = h[d]
  BY <1>1, <1>2, <1>3, <1>4 DEF TrustAmounts, TrustTests
<1>6. \A d \in Escrows \ {e} :
        /\ d \in InEscrow' <=> d \in InEscrow
        /\ \A side \in BOOLEAN : d \in EscrowsOf(side)' <=> d \in EscrowsOf(side)
  BY DEF InEscrow, EscrowsOf, IsTest, Home
<1>7. ASSUME NEW side \in BOOLEAN
      PROVE  InTrust(side)' = InTrust(side)
                - (IF e \in EscrowsOf(side) THEN escrow[e].amount ELSE 0)
                + (IF e \in EscrowsOf(side)' THEN escrow'[e].amount ELSE 0)
  <2>1. PICK rows, others : rows = EscrowsOf(side) /\ others = EscrowsOf(side)'
    OBVIOUS
  <2>2. \A d \in Escrows \ {e} : d \in others <=> d \in rows
    BY <1>6, <2>1
  <2>3. TotalOf(others, g) = TotalOf(rows, f)
          - (IF e \in rows THEN f[e] ELSE 0) + (IF e \in others THEN g[e] ELSE 0)
    BY <1>5, <2>2, TotalOfUpdate, MovesConstants
  <2>4. InTrust(side)' = TotalOf(others, g) /\ InTrust(side) = TotalOf(rows, f)
    BY <1>1, <1>2, <2>1 DEF InTrust
  <2>5. QED
    BY <1>5, <2>1, <2>3, <2>4
<1>8. TestInTrust' = TestInTrust
        - (IF e \in InEscrow THEN escrow[e].test ELSE 0)
        + (IF e \in InEscrow' THEN escrow'[e].test ELSE 0)
  <2>1. PICK rows, others : rows = InEscrow /\ others = InEscrow'
    OBVIOUS
  <2>2. \A d \in Escrows \ {e} : d \in others <=> d \in rows
    BY <1>6, <2>1
  <2>3. TotalOf(others, k) = TotalOf(rows, h)
          - (IF e \in rows THEN h[e] ELSE 0) + (IF e \in others THEN k[e] ELSE 0)
    BY <1>5, <2>2, TotalOfUpdate, MovesConstants
  <2>4. TestInTrust' = TotalOf(others, k) /\ TestInTrust = TotalOf(rows, h)
    BY <1>3, <1>4, <2>1 DEF TestInTrust
  <2>5. QED
    BY <1>5, <2>1, <2>3, <2>4
<1>9. QED
  BY <1>7, <1>8

\* A step that leaves the escrows alone leaves what they hold.
LEMMA InTrustStays ==
  ASSUME world' = world, escrow' = escrow
  PROVE  /\ \A side \in BOOLEAN : InTrust(side)' = InTrust(side)
         /\ TestInTrust' = TestInTrust
BY DEF InTrust, TestInTrust, TrustAmounts, TrustTests, EscrowsOf, InEscrow, IsTest, Home

\* What is read of every workspace is a natural.
LEMMA TestFundedNat ==
  MovesInv => TestParts \in [Workspaces -> Nat]
<1> SUFFICES ASSUME MovesInv, NEW w \in Workspaces
             PROVE  TestFunded(w) \in Nat
  BY DEF TestParts
<1>1. Worth(w) \in Nat /\ funded[w] \in Nat
  BY WorkspaceTotals DEF MovesInv, MovesLedger
<1>2. QED
  BY <1>1, FundedSays

\* The test-funded sum over all workspaces is a natural.
LEMMA TestHereNat == MovesInv => TestHere \in Nat
BY TestFundedNat, TotalNat, MovesConstants DEF TestHere

\* The test-funded part of one workspace changes ...
LEMMA TestMoves ==
  ASSUME MovesInv, MovesInv', NEW v \in Workspaces, NEW delta \in Int,
         TestFunded(v)' = TestFunded(v) + delta,
         \A w \in Workspaces \ {v} : TestFunded(w)' = TestFunded(w)
  PROVE  TestHere' = TestHere + delta
<1>1. PICK f \in [Workspaces -> Nat] : f = TestParts
  BY TestFundedNat
<1>2. PICK g \in [Workspaces -> Nat] : g = TestParts'
  <2>1. (TestParts \in [Workspaces -> Nat])'
    BY TestFundedNat, PTL
  <2>2. QED
    BY <2>1
<1>3. g[v] = f[v] + delta /\ \A w \in Workspaces \ {v} : g[w] = f[w]
  BY <1>1, <1>2 DEF TestParts
<1>4. Total(g) = Total(f) + delta
  BY <1>3, TotalMoves, MovesConstants
<1>5. QED
  BY <1>1, <1>2, <1>4 DEF TestHere

\* ... or passes to another one.
LEMMA TestPasses ==
  ASSUME MovesInv, MovesInv', NEW v \in Workspaces, NEW w \in Workspaces, v # w,
         NEW n \in Nat,
         TestFunded(v)' = TestFunded(v) - n, TestFunded(w)' = TestFunded(w) + n,
         \A u \in Workspaces \ {v, w} : TestFunded(u)' = TestFunded(u)
  PROVE  TestHere' = TestHere
<1>1. PICK f \in [Workspaces -> Nat] : f = TestParts
  BY TestFundedNat
<1>2. PICK g \in [Workspaces -> Nat] : g = TestParts'
  <2>1. (TestParts \in [Workspaces -> Nat])'
    BY TestFundedNat, PTL
  <2>2. QED
    BY <2>1
<1>3. /\ g[v] = f[v] - n /\ g[w] = f[w] + n
      /\ \A u \in Workspaces \ {v, w} : g[u] = f[u]
  BY <1>1, <1>2 DEF TestParts
<1>4. Total(g) = Total(f)
  <2>1. n \in Int
    OBVIOUS
  <2>2. QED
    BY <1>3, <2>1, TotalStays, MovesConstants
<1>5. QED
  BY <1>1, <1>2, <1>4 DEF TestHere

\* A step that leaves what is read of every workspace leaves the test-funded sum.
LEMMA TestStays ==
  ASSUME \A w \in Workspaces : TestFunded(w)' = TestFunded(w)
  PROVE  TestHere' = TestHere
BY DEF TestHere, TestParts

-----------------------------------------------------------------------------
(* Steps.                                                                  *)

\* Test money stays test money in a step that neither credits nor charges.
Conserves == inflow' = inflow => TestTotal' = TestTotal

\* SidesConserved in the names used here.
LEMMA SidesAre ==
  SidesConserved <=>
    \A side \in BOOLEAN : inflow[side] = Wealth(side) + InTrust(side)
BY DEF SidesConserved, Wealth, InTrust, SideOf, EscrowsOf, Worths, TrustAmounts

\* A step that changes neither the wallets nor a row keeps the invariant.
LEMMA NothingMoves ==
  ASSUME MovesInv, MovesRows', world' = world, bal' = bal, funded' = funded,
         held' = held, memberBal' = memberBal, inflow' = inflow,
         escrow' = escrow
  PROVE  MovesInv' /\ Conserves
<1>1. /\ \A w \in Workspaces : HeldIn(w)' = HeldIn(w)
      /\ \A w \in Workspaces : AgentsOf(w)' = AgentsOf(w)
      /\ \A w \in Workspaces : Worth(w)' = Worth(w)
  BY HeldStays, HomesStay DEF Worth
<1>2. (MovesLedger /\ MembersCovered /\ FundedWithin)'
  BY <1>1 DEF MovesInv, MovesLedger, MembersCovered, FundedWithin
<1>3. EscrowsTest'
  BY HomesStay DEF MovesInv, EscrowsTest, InEscrow, Home, IsTest
<1>4. /\ \A side \in BOOLEAN : Wealth(side)' = Wealth(side)
      /\ \A side \in BOOLEAN : InTrust(side)' = InTrust(side)
      /\ TestInTrust' = TestInTrust
  BY <1>1, WealthStays, InTrustStays
<1>5. SidesConserved'
  BY <1>4, SidesAre DEF MovesInv, SidesConserved, Wealth, InTrust, SideOf,
     EscrowsOf, Worths, TrustAmounts
<1>6. TestHere' = TestHere
  <2>1. \A w \in Workspaces : TestFunded(w)' = TestFunded(w)
    BY <1>1, HomesStay DEF TestFunded, TestFundedOf
  <2>2. QED
    BY <2>1, TestStays
<1>7. TestTotal' = TestTotal
  BY <1>4, <1>6 DEF TestTotal, TestHere, TestInTrust, TestParts, TrustTests
<1>8. QED
  BY <1>2, <1>3, <1>5, <1>7 DEF MovesInv, Conserves

\* The test money of all workspaces and escrows, in both states of a step.
LEMMA TestsAre ==
  TestTotal = TestHere + TestInTrust /\ TestTotal' = TestHere' + TestInTrust'
BY DEF TestTotal, TestHere, TestInTrust, TestParts, TrustTests

\* What is read in the next state.
LEMMA FundedSaysNext ==
  ASSUME MovesInv', world' = world
  PROVE  \A w \in Workspaces :
           TestFunded(w)' = IF IsTest(w) THEN Worth(w)' ELSE funded'[w]
<1>1. FundedClear'
  BY FundedIsClear, PTL
<1>2. QED
  BY <1>1, HomesStay DEF FundedClear

\* What both sides hold changes as what was credited does.
LEMMA SidesMove ==
  ASSUME MovesInv, MovesLedger', MovesRows', MembersCovered', FundedWithin',
         EscrowsTest',
         \A side \in BOOLEAN :
           inflow'[side] - inflow[side] =
             (Wealth(side)' - Wealth(side)) + (InTrust(side)' - InTrust(side))
  PROVE  MovesInv'
<1>1. ASSUME NEW side \in BOOLEAN
      PROVE  inflow'[side] = Wealth(side)' + InTrust(side)'
  <2>1. /\ Wealth(side) \in Nat /\ InTrust(side) \in Nat
        /\ inflow[side] \in Int /\ inflow'[side] \in Int
    BY SidesAreNat DEF SidesNat, MovesInv, MovesLedger
  <2>2. SidesNat'
    BY SidesAreNat, PTL
  <2>3. Wealth(side)' \in Nat /\ InTrust(side)' \in Nat
    BY <2>2 DEF SidesNat
  <2>4. inflow[side] = Wealth(side) + InTrust(side)
    BY SidesAre DEF MovesInv
  <2>5. QED
    BY <2>1, <2>3, <2>4
<1>2. SidesConserved'
  BY <1>1 DEF SidesConserved, Wealth, InTrust, SideOf, EscrowsOf, Worths,
     TrustAmounts
<1>3. QED
  BY <1>2 DEF MovesInv

\* A transfer between agents of one workspace, whatever its column says.
LEMMA TransferWithin ==
  ASSUME MovesInv, MovesRows', NEW a \in Members, NEW b \in Members, a # b,
         NEW n \in Nat, NEW v \in Workspaces, Home(a) = v, Home(b) = v,
         memberBal[a] >= n,
         memberBal' = [memberBal EXCEPT ![a] = @ - n, ![b] = @ + n],
         NEW took, took = TakeTestFunded(v, a, b, n), NEW moved,
         moved = Most(TestFunded(v) - TestFundedOf(v, bal[v], took), 0),
         funded' = [funded EXCEPT ![v] = took + moved],
         world' = world, bal' = bal, held' = held, inflow' = inflow,
         escrow' = escrow
  PROVE  MovesInv' /\ Conserves
<1>1. /\ took + moved \in Nat /\ took + moved <= Worth(v)
      /\ ~IsTest(v) => took + moved = funded[v]
  BY SpendWithin
<1>2. /\ memberBal' \in [Members -> Nat]
      /\ memberBal'[a] = memberBal[a] - n /\ memberBal'[b] = memberBal[b] + n
      /\ \A k \in Members \ {a, b} : memberBal'[k] = memberBal[k]
  BY DEF MovesInv, MovesLedger
<1>3. \A w \in Workspaces : MembersTotal(w)' = MembersTotal(w)
  <2>1. \A w \in Workspaces :
          MembersTotal(w)' = MembersTotal(w) - (IF Home(a) = w THEN n ELSE 0)
                                             + (IF Home(b) = w THEN n ELSE 0)
    BY <1>2, MemberPasses DEF MovesInv
  <2>2. \A w \in Workspaces : MembersTotal(w) \in Nat
    BY WorkspaceTotals DEF MovesInv
  <2>3. QED
    BY <2>1, <2>2
<1>4. /\ funded' \in [Workspaces -> Nat] /\ funded'[v] = took + moved
      /\ \A w \in Workspaces \ {v} : funded'[w] = funded[w]
  BY <1>1 DEF MovesInv, MovesLedger
<1>5. \A w \in Workspaces : Worth(w)' = Worth(w) /\ HeldIn(w)' = HeldIn(w)
  BY HeldStays DEF Worth
<1>6. MovesLedger' /\ MembersCovered' /\ FundedWithin'
  <2>1. MovesLedger'
    BY <1>2, <1>4 DEF MovesInv, MovesLedger
  <2>2. MembersCovered'
    BY <1>3 DEF MovesInv, MembersCovered, MembersTotal
  <2>3. FundedWithin'
    BY <1>1, <1>4, <1>5 DEF MovesInv, FundedWithin
  <2>4. QED
    BY <2>1, <2>2, <2>3
<1>7. EscrowsTest'
  BY HomesStay DEF MovesInv, EscrowsTest, InEscrow, Home, IsTest
<1>8. /\ \A side \in BOOLEAN : Wealth(side)' = Wealth(side)
      /\ \A side \in BOOLEAN : InTrust(side)' = InTrust(side)
      /\ TestInTrust' = TestInTrust
  BY <1>5, WealthStays, InTrustStays
<1>9. MovesInv'
  <2>1. \A side \in BOOLEAN :
          /\ Wealth(side) \in Nat /\ InTrust(side) \in Nat
          /\ inflow[side] \in Int
    BY SidesAreNat DEF SidesNat, MovesInv, MovesLedger
  <2>2. QED
    BY <1>6, <1>7, <1>8, <2>1, SidesMove
<1>10. TestHere' = TestHere
  <2>1. \A w \in Workspaces :
          TestFunded(w) = IF IsTest(w) THEN Worth(w) ELSE funded[w]
    BY FundedSays
  <2>2. \A w \in Workspaces :
          TestFunded(w)' = IF IsTest(w) THEN Worth(w)' ELSE funded'[w]
    BY <1>9, FundedSaysNext
  <2>3. \A w \in Workspaces : TestFunded(w)' = TestFunded(w)
    BY <1>1, <1>4, <1>5, <2>1, <2>2
  <2>4. QED
    BY <2>3, TestStays
<1>11. QED
  BY <1>8, <1>9, <1>10, TestsAre DEF Conserves

\* A transfer between agents of two workspaces on one side of the wall.
LEMMA TransferAcross ==
  ASSUME MovesInv, MovesRows', NEW a \in Members, NEW b \in Members, a # b,
         NEW n \in Nat, NEW v \in Workspaces, NEW w \in Workspaces,
         Home(a) = v, Home(b) = w, v # w, SameSide(v, w), memberBal[a] >= n,
         memberBal' = [memberBal EXCEPT ![a] = @ - n, ![b] = @ + n],
         bal' = [bal EXCEPT ![v] = bal[v] - n, ![w] = @ + n],
         NEW out, NEW moved,
         out = Clamp(TakeTestFunded(v, a, b, n), bal[v] - n, HeldIn(v)),
         moved = Most(TestFunded(v) - TestFundedOf(v, bal[v] - n, out), 0),
         funded' = [funded EXCEPT
                      ![v] = out,
                      ![w] = Clamp(@, bal[w] + n, HeldIn(w)) + moved],
         world' = world, held' = held, inflow' = inflow, escrow' = escrow
  PROVE  MovesInv' /\ Conserves
<1>1. /\ bal[v] \in Nat /\ bal[w] \in Nat /\ n <= bal[v]
      /\ Worth(v) \in Nat /\ Worth(w) \in Nat
      /\ funded[v] \in Nat /\ funded[w] \in Nat /\ funded[w] <= Worth(w)
  <2>1. bal[v] \in Nat /\ bal[w] \in Nat /\ funded[v] \in Nat /\ funded[w] \in Nat
    BY DEF MovesInv, MovesLedger
  <2>2. Worth(v) \in Nat /\ Worth(w) \in Nat /\ funded[w] <= Worth(w)
    BY WorkspaceTotals DEF MovesInv, FundedWithin
  <2>3. /\ memberBal[a] <= MembersTotal(v) /\ MembersTotal(v) <= bal[v]
        /\ MembersTotal(v) \in Nat /\ memberBal[a] \in Nat
    BY WorkspaceTotals DEF MovesInv, MembersCovered, MembersTotal, MovesLedger
  <2>4. QED
    BY <2>1, <2>2, <2>3
<1>2. /\ out \in Nat /\ out <= Worth(v) - n
      /\ moved \in Nat /\ moved <= n
      /\ IsTest(v) => moved = n
      /\ ~IsTest(v) => moved = funded[v] - out
  BY <1>1, SpendSplit
<1>3. /\ memberBal' \in [Members -> Nat]
      /\ memberBal'[a] = memberBal[a] - n /\ memberBal'[b] = memberBal[b] + n
      /\ \A k \in Members \ {a, b} : memberBal'[k] = memberBal[k]
  BY DEF MovesInv, MovesLedger
<1>4. \A u \in Workspaces :
        MembersTotal(u)' = MembersTotal(u) - (IF u = v THEN n ELSE 0)
                                           + (IF u = w THEN n ELSE 0)
  BY <1>3, MemberPasses DEF MovesInv
<1>5. /\ bal' \in [Workspaces -> Nat]
      /\ bal'[v] = bal[v] - n /\ bal'[w] = bal[w] + n
      /\ \A u \in Workspaces \ {v, w} : bal'[u] = bal[u]
  BY <1>1 DEF MovesInv, MovesLedger
<1>6. /\ funded' \in [Workspaces -> Nat]
      /\ funded'[v] = out /\ funded'[w] = funded[w] + moved
      /\ \A u \in Workspaces \ {v, w} : funded'[u] = funded[u]
  <2>1. Clamp(funded[w], bal[w] + n, HeldIn(w)) = funded[w]
    BY FundedSays
  <2>2. funded' = [funded EXCEPT ![v] = out, ![w] = funded[w] + moved]
    BY <2>1 DEF MovesInv, MovesLedger
  <2>3. QED
    BY <1>1, <1>2, <2>2 DEF MovesInv, MovesLedger
<1>7. /\ Worth(v)' = Worth(v) - n /\ Worth(w)' = Worth(w) + n
      /\ \A u \in Workspaces \ {v, w} : Worth(u)' = Worth(u)
  <2>1. \A u \in Workspaces : HeldIn(u)' = HeldIn(u) /\ HeldIn(u) \in Nat
    BY HeldStays, WorkspaceTotals DEF MovesInv
  <2>2. QED
    BY <1>1, <1>5, <2>1 DEF Worth
<1>8. MovesLedger'
  BY <1>3, <1>5, <1>6 DEF MovesInv, MovesLedger
<1>9. MembersCovered'
  <2>1. ASSUME NEW u \in Workspaces
        PROVE  MembersTotal(u)' <= bal'[u]
    <3>1. /\ MembersTotal(u) \in Nat /\ bal[u] \in Nat
          /\ MembersTotal(u) <= bal[u]
      BY WorkspaceTotals DEF MovesInv, MembersCovered, MembersTotal, MovesLedger
    <3>2. QED
      BY <1>4, <1>5, <3>1
  <2>2. QED
    BY <2>1 DEF MembersCovered, MembersTotal
<1>10. FundedWithin'
  <2>1. \A u \in Workspaces : funded[u] <= Worth(u)
    BY DEF MovesInv, FundedWithin
  <2>2. QED
    BY <1>1, <1>2, <1>6, <1>7, <2>1 DEF FundedWithin
<1>11. EscrowsTest'
  BY HomesStay DEF MovesInv, EscrowsTest, InEscrow, Home, IsTest
<1>12. /\ \A side \in BOOLEAN : Wealth(side)' = Wealth(side)
       /\ \A side \in BOOLEAN : InTrust(side)' = InTrust(side)
       /\ TestInTrust' = TestInTrust
  <2>1. MovesLedger
    BY DEF MovesInv
  <2>2. QED
    BY <1>7, <1>8, <2>1, WealthPasses, InTrustStays
<1>13. MovesInv'
  <2>1. \A side \in BOOLEAN :
          /\ Wealth(side) \in Nat /\ InTrust(side) \in Nat
          /\ inflow[side] \in Int
    BY SidesAreNat DEF SidesNat, MovesInv, MovesLedger
  <2>2. QED
    BY <1>8, <1>9, <1>10, <1>11, <1>12, <2>1, SidesMove
<1>14. TestHere' = TestHere
  <2>1. \A u \in Workspaces :
          TestFunded(u) = IF IsTest(u) THEN Worth(u) ELSE funded[u]
    BY FundedSays
  <2>2. \A u \in Workspaces :
          TestFunded(u)' = IF IsTest(u) THEN Worth(u)' ELSE funded'[u]
    BY <1>13, FundedSaysNext
  <2>3. IsTest(v) <=> IsTest(w)
    BY DEF SameSide
  <2>4. TestFunded(v)' = TestFunded(v) - moved
    BY <1>1, <1>2, <1>6, <1>7, <2>1, <2>2
  <2>5. TestFunded(w)' = TestFunded(w) + moved
    BY <1>1, <1>2, <1>6, <1>7, <2>1, <2>2, <2>3
  <2>6. \A u \in Workspaces \ {v, w} : TestFunded(u)' = TestFunded(u)
    BY <1>6, <1>7, <2>1, <2>2
  <2>7. QED
    BY <1>2, <1>13, <2>4, <2>5, <2>6, TestPasses
<1>15. QED
  BY <1>12, <1>13, <1>14, TestsAre DEF Conserves

\* The transfer, whichever it is; who asked for it changes only its row.
LEMMA TransferKeeps ==
  ASSUME MovesInv, NEW t \in Transfers, NEW a \in Members, NEW b \in Members,
         NEW n \in Nat, NEW refundOf \in SUBSET Transfers,
         NEW requestOf \in SUBSET Requests, NEW judged,
         TransferAllowed(a, b, n, judged),
         TransferTx(t, a, b, n, refundOf, requestOf),
         world' = world, escrow' = escrow,
         request' \in [Requests -> RequestRows],
         refunding' \in [Transfers -> Nat]
  PROVE  MovesInv' /\ Conserves
<1>1. PICK v \in Workspaces, w \in Workspaces : v = Home(a) /\ w = Home(b)
  BY HomeIsAWorkspace DEF MovesInv
<1>2. a # b /\ SameSide(v, w) /\ memberBal[a] >= n
  BY <1>1 DEF TransferAllowed
<1>3. /\ memberBal' = [memberBal EXCEPT ![a] = @ - n, ![b] = @ + n]
      /\ held' = held /\ inflow' = inflow
  BY DEF TransferTx
<1>4. CASE v = w
  <2>1. ~MovesLXC(a, b)
    BY <1>1, <1>4 DEF MovesLXC
  <2>2. PICK took, moved :
          /\ took = TakeTestFunded(v, a, b, n)
          /\ moved = Most(TestFunded(v) - TestFundedOf(v, bal[v], took), 0)
    OBVIOUS
  <2>3. /\ bal' = bal /\ funded' = [funded EXCEPT ![v] = took + moved]
        /\ xfer' = [xfer EXCEPT ![t] =
                      [made |-> TRUE, amount |-> n, from |-> a, to |-> b,
                       test |-> moved, refundOf |-> refundOf,
                       requestOf |-> requestOf]]
    BY <1>1, <2>1, <2>2 DEF TransferTx
  <2>4. moved \in Nat
    BY <2>2, SpendWithin
  <2>5. MovesRows'
    BY <2>3, <2>4 DEF MovesInv, MovesRows, TransferRows
  <2>6. QED
    BY <1>1, <1>2, <1>3, <1>4, <2>2, <2>3, <2>5, TransferWithin
<1>5. CASE v # w
  <2>1. MovesLXC(a, b)
    BY <1>1, <1>5 DEF MovesLXC
  <2>2. PICK out, moved :
          /\ out = Clamp(TakeTestFunded(v, a, b, n), bal[v] - n, HeldIn(v))
          /\ moved = Most(TestFunded(v) - TestFundedOf(v, bal[v] - n, out), 0)
    OBVIOUS
  <2>3. /\ bal' = [bal EXCEPT ![v] = bal[v] - n, ![w] = @ + n]
        /\ funded' = [funded EXCEPT
                        ![v] = out,
                        ![w] = Clamp(@, bal[w] + n, HeldIn(w)) + moved]
        /\ xfer' = [xfer EXCEPT ![t] =
                      [made |-> TRUE, amount |-> n, from |-> a, to |-> b,
                       test |-> moved, refundOf |-> refundOf,
                       requestOf |-> requestOf]]
    BY <1>1, <2>1, <2>2 DEF TransferTx
  <2>4. moved \in Nat
    <3>1. /\ memberBal[a] <= MembersTotal(v) /\ MembersTotal(v) <= bal[v]
          /\ MembersTotal(v) \in Nat /\ memberBal[a] \in Nat /\ bal[v] \in Nat
      BY <1>1, WorkspaceTotals
      DEF MovesInv, MembersCovered, MembersTotal, MovesLedger
    <3>2. n <= bal[v]
      BY <1>2, <3>1
    <3>3. QED
      BY <2>2, <3>2, SpendSplit
  <2>5. MovesRows'
    BY <2>3, <2>4 DEF MovesInv, MovesRows, TransferRows
  <2>6. QED
    BY <1>1, <1>2, <1>3, <1>5, <2>2, <2>3, <2>5, TransferAcross
<1>6. QED
  BY <1>4, <1>5

\* Credits leave a workspace and are in escrow, their test money with them.
LEMMA PayInKeeps ==
  ASSUME MovesInv, NEW e \in Escrows, NEW a \in Members, NEW b \in Members,
         NEW n \in Nat, PayIntoEscrow(e, a, b, n)
  PROVE  MovesInv' /\ Conserves
<1>0. world' = world /\ held' = held /\ inflow' = inflow /\ xfer' = xfer
      /\ request' = request /\ refunding' = refunding
  BY DEF PayIntoEscrow, gateVars
<1>1. PICK v \in Workspaces : v = Home(a)
  BY HomeIsAWorkspace DEF MovesInv
<1>2. PICK out, moved :
        /\ out = Clamp(TakeTestFunded(v, a, b, n), bal[v] - n, HeldIn(v))
        /\ moved = Most(TestFunded(v) - TestFundedOf(v, bal[v] - n, out), 0)
  OBVIOUS
<1>3. /\ escrow[e].status = "none" /\ memberBal[a] >= n
      /\ memberBal' = [memberBal EXCEPT ![a] = @ - n]
      /\ bal' = [bal EXCEPT ![v] = @ - n]
      /\ funded' = [funded EXCEPT ![v] = out]
      /\ escrow' = [escrow EXCEPT ![e] =
                      [status |-> "held", payer |-> a, payee |-> b,
                       amount |-> n, test |-> moved]]
  BY <1>1, <1>2 DEF PayIntoEscrow
<1>4. /\ bal[v] \in Nat /\ n <= bal[v] /\ Worth(v) \in Nat
      /\ funded[v] \in Nat
  <2>1. bal[v] \in Nat /\ funded[v] \in Nat /\ Worth(v) \in Nat
    BY WorkspaceTotals DEF MovesInv, MovesLedger
  <2>2. /\ memberBal[a] <= MembersTotal(v) /\ MembersTotal(v) <= bal[v]
        /\ MembersTotal(v) \in Nat /\ memberBal[a] \in Nat
    BY <1>1, WorkspaceTotals
    DEF MovesInv, MembersCovered, MembersTotal, MovesLedger
  <2>3. QED
    BY <1>3, <2>1, <2>2
<1>5. /\ out \in Nat /\ out <= Worth(v) - n
      /\ moved \in Nat /\ moved <= n
      /\ IsTest(v) => moved = n
      /\ ~IsTest(v) => moved = funded[v] - out
  BY <1>2, <1>4, SpendSplit
<1>6. /\ memberBal' \in [Members -> Nat] /\ memberBal'[a] = memberBal[a] + (-n)
      /\ \A k \in Members \ {a} : memberBal'[k] = memberBal[k]
  BY <1>3 DEF MovesInv, MovesLedger
<1>7. \A u \in Workspaces :
        MembersTotal(u)' = MembersTotal(u) + (IF u = v THEN -n ELSE 0)
  <2>1. -n \in Int /\ MovesLedger
    BY DEF MovesInv
  <2>2. QED
    BY <1>0, <1>1, <1>6, <2>1, MemberMoves
<1>8. /\ bal' \in [Workspaces -> Nat] /\ bal'[v] = bal[v] - n
      /\ \A u \in Workspaces \ {v} : bal'[u] = bal[u]
      /\ funded' \in [Workspaces -> Nat] /\ funded'[v] = out
      /\ \A u \in Workspaces \ {v} : funded'[u] = funded[u]
  BY <1>3, <1>4, <1>5 DEF MovesInv, MovesLedger
<1>9. /\ Worth(v)' = Worth(v) + (-n)
      /\ \A u \in Workspaces \ {v} : Worth(u)' = Worth(u)
  <2>1. \A u \in Workspaces : HeldIn(u)' = HeldIn(u) /\ HeldIn(u) \in Nat
    BY <1>0, HeldStays, WorkspaceTotals DEF MovesInv
  <2>2. QED
    BY <1>4, <1>8, <2>1 DEF Worth
<1>10. /\ escrow'[e] = [status |-> "held", payer |-> a, payee |-> b,
                        amount |-> n, test |-> moved]
       /\ \A d \in Escrows \ {e} : escrow'[d] = escrow[d]
       /\ escrow' \in [Escrows -> EscrowRows]
  BY <1>3, <1>5 DEF MovesInv, MovesRows, EscrowRows
<1>11. MovesLedger' /\ MovesRows'
  BY <1>0, <1>6, <1>8, <1>10 DEF MovesInv, MovesLedger, MovesRows
<1>12. MembersCovered'
  <2>1. ASSUME NEW u \in Workspaces
        PROVE  MembersTotal(u)' <= bal'[u]
    <3>1. /\ MembersTotal(u) \in Nat /\ bal[u] \in Nat
          /\ MembersTotal(u) <= bal[u]
      BY WorkspaceTotals DEF MovesInv, MembersCovered, MembersTotal, MovesLedger
    <3>2. QED
      BY <1>7, <1>8, <3>1
  <2>2. QED
    BY <2>1 DEF MembersCovered, MembersTotal
<1>13. FundedWithin'
  <2>1. \A u \in Workspaces : funded[u] <= Worth(u)
    BY DEF MovesInv, FundedWithin
  <2>2. QED
    BY <1>4, <1>5, <1>8, <1>9, <2>1 DEF FundedWithin
<1>14. EscrowsTest'
  <2>1. ASSUME NEW d \in Escrows
        PROVE  /\ escrow'[d].test <= escrow'[d].amount
               /\ d \in InEscrow' /\ IsTest(Home(escrow[d].payer))' =>
                    escrow'[d].test = escrow'[d].amount
    <3>1. CASE d = e
      BY <1>0, <1>1, <1>5, <1>10, <3>1, HomesStay
    <3>2. CASE d # e
      BY <1>0, <1>10, <3>2 DEF MovesInv, EscrowsTest, InEscrow, Home, IsTest
    <3>3. QED
      BY <3>1, <3>2
  <2>2. QED
    BY <2>1 DEF EscrowsTest
<1>15. /\ \A side \in BOOLEAN :
            /\ Wealth(side)' = Wealth(side) + (IF IsTest(v) = side THEN -n ELSE 0)
            /\ InTrust(side)' = InTrust(side) + (IF IsTest(v) = side THEN n ELSE 0)
       /\ TestInTrust' = TestInTrust + moved
  <2>1. -n \in Int /\ MovesLedger /\ MovesRows
    BY DEF MovesInv
  <2>2. \A side \in BOOLEAN :
          Wealth(side)' = Wealth(side) + (IF IsTest(v) = side THEN -n ELSE 0)
    BY <1>0, <1>9, <1>11, <2>1, WealthMoves
  <2>3. /\ e \notin InEscrow /\ \A side \in BOOLEAN : e \notin EscrowsOf(side)
        /\ e \in InEscrow'
        /\ \A side \in BOOLEAN : e \in EscrowsOf(side)' <=> IsTest(v) = side
    BY <1>0, <1>1, <1>3, <1>10 DEF InEscrow, EscrowsOf, IsTest, Home
  <2>4. /\ \A side \in BOOLEAN :
             InTrust(side)' = InTrust(side)
               - (IF e \in EscrowsOf(side) THEN escrow[e].amount ELSE 0)
               + (IF e \in EscrowsOf(side)' THEN escrow'[e].amount ELSE 0)
        /\ TestInTrust' = TestInTrust
             - (IF e \in InEscrow THEN escrow[e].test ELSE 0)
             + (IF e \in InEscrow' THEN escrow'[e].test ELSE 0)
    BY <1>0, <1>10, <1>11, <2>1, InTrustMoves
  <2>5. TestInTrust \in Nat /\ \A side \in BOOLEAN : InTrust(side) \in Nat
    BY <2>1, InTrustNat
  <2>6. escrow'[e].amount = n /\ escrow'[e].test = moved
    BY <1>10
  <2>7. QED
    BY <1>5, <2>2, <2>3, <2>4, <2>5, <2>6
<1>16. MovesInv'
  <2>1. \A side \in BOOLEAN :
          /\ Wealth(side) \in Nat /\ InTrust(side) \in Nat
          /\ inflow[side] \in Int
    BY SidesAreNat DEF SidesNat, MovesInv, MovesLedger
  <2>2. \A side \in BOOLEAN :
          inflow'[side] - inflow[side] =
            (Wealth(side)' - Wealth(side)) + (InTrust(side)' - InTrust(side))
    BY <1>0, <1>15, <2>1
  <2>3. QED
    BY <1>11, <1>12, <1>13, <1>14, <2>2, SidesMove
<1>17. TestHere' = TestHere + (-moved)
  <2>1. \A u \in Workspaces :
          TestFunded(u) = IF IsTest(u) THEN Worth(u) ELSE funded[u]
    BY FundedSays
  <2>2. \A u \in Workspaces :
          TestFunded(u)' = IF IsTest(u) THEN Worth(u)' ELSE funded'[u]
    BY <1>0, <1>16, FundedSaysNext
  <2>3. TestFunded(v)' = TestFunded(v) + (-moved)
    BY <1>4, <1>5, <1>8, <1>9, <2>1, <2>2
  <2>4. \A u \in Workspaces \ {v} : TestFunded(u)' = TestFunded(u)
    BY <1>8, <1>9, <2>1, <2>2
  <2>5. -moved \in Int
    BY <1>5
  <2>6. QED
    BY <1>16, <2>3, <2>4, <2>5, TestMoves
<1>18. TestHere \in Nat /\ TestInTrust \in Nat
  BY InTrustNat, TestHereNat DEF MovesInv
<1>19. QED
  BY <1>5, <1>15, <1>16, <1>17, <1>18, TestsAre DEF Conserves

\* Credits come out of escrow, their test money with them, to an agent on the
\* payer's side of the wall.
LEMMA SettleEscrowKeeps ==
  ASSUME MovesInv, NEW e \in Escrows, e \in InEscrow, NEW m \in Members,
         NEW status \in {"released", "returned"},
         SameSide(Home(escrow[e].payer), Home(m)), SettleEscrowTx(e, m, status)
  PROVE  MovesInv' /\ Conserves
<1>0. world' = world /\ held' = held /\ inflow' = inflow /\ xfer' = xfer
      /\ request' = request /\ refunding' = refunding
  BY DEF SettleEscrowTx, gateVars
<1>1. PICK w \in Workspaces : w = Home(m)
  BY HomeIsAWorkspace DEF MovesInv
<1>2. PICK n \in Nat, test \in Nat :
        /\ n = escrow[e].amount /\ test = escrow[e].test /\ test <= n
        /\ IsTest(w) => test = n
  <2>1. escrow[e].amount \in Nat /\ escrow[e].test \in Nat
    BY DEF MovesInv, MovesRows, EscrowRows
  <2>2. /\ escrow[e].test <= escrow[e].amount
        /\ IsTest(w) => escrow[e].test = escrow[e].amount
    BY <1>1 DEF MovesInv, EscrowsTest, SameSide
  <2>3. QED
    BY <2>1, <2>2
<1>3. /\ memberBal' = [memberBal EXCEPT ![m] = @ + n]
      /\ bal' = [bal EXCEPT ![w] = @ + n]
      /\ funded' = [funded EXCEPT ![w] = Clamp(@, bal[w] + n, HeldIn(w)) + test]
      /\ escrow' = [escrow EXCEPT ![e].status = status]
  BY <1>1, <1>2 DEF SettleEscrowTx, ComesOutTest
<1>4. /\ bal[w] \in Nat /\ Worth(w) \in Nat /\ funded[w] \in Nat
      /\ funded[w] <= Worth(w)
  BY WorkspaceTotals DEF MovesInv, MovesLedger, FundedWithin
<1>5. /\ memberBal' \in [Members -> Nat] /\ memberBal'[m] = memberBal[m] + n
      /\ \A k \in Members \ {m} : memberBal'[k] = memberBal[k]
  BY <1>3 DEF MovesInv, MovesLedger
<1>6. \A u \in Workspaces :
        MembersTotal(u)' = MembersTotal(u) + (IF u = w THEN n ELSE 0)
  <2>1. n \in Int /\ MovesLedger
    BY DEF MovesInv
  <2>2. QED
    BY <1>0, <1>1, <1>5, <2>1, MemberMoves
<1>7. /\ bal' \in [Workspaces -> Nat] /\ bal'[w] = bal[w] + n
      /\ \A u \in Workspaces \ {w} : bal'[u] = bal[u]
      /\ funded' \in [Workspaces -> Nat] /\ funded'[w] = funded[w] + test
      /\ \A u \in Workspaces \ {w} : funded'[u] = funded[u]
  <2>1. Clamp(funded[w], bal[w] + n, HeldIn(w)) = funded[w]
    BY FundedSays
  <2>2. funded' = [funded EXCEPT ![w] = funded[w] + test]
    BY <1>3, <2>1 DEF MovesInv, MovesLedger
  <2>3. QED
    BY <1>3, <1>4, <2>2 DEF MovesInv, MovesLedger
<1>8. /\ Worth(w)' = Worth(w) + n
      /\ \A u \in Workspaces \ {w} : Worth(u)' = Worth(u)
  <2>1. \A u \in Workspaces : HeldIn(u)' = HeldIn(u) /\ HeldIn(u) \in Nat
    BY <1>0, HeldStays, WorkspaceTotals DEF MovesInv
  <2>2. QED
    BY <1>4, <1>7, <2>1 DEF Worth
<1>9. /\ escrow'[e].status = status
      /\ escrow'[e].payer = escrow[e].payer
      /\ escrow'[e].amount = n /\ escrow'[e].test = test
      /\ \A d \in Escrows \ {e} : escrow'[d] = escrow[d]
      /\ escrow' \in [Escrows -> EscrowRows]
  BY <1>2, <1>3 DEF MovesInv, MovesRows, EscrowRows
<1>10. MovesLedger' /\ MovesRows'
  BY <1>0, <1>5, <1>7, <1>9 DEF MovesInv, MovesLedger, MovesRows
<1>11. MembersCovered'
  <2>1. ASSUME NEW u \in Workspaces
        PROVE  MembersTotal(u)' <= bal'[u]
    <3>1. /\ MembersTotal(u) \in Nat /\ bal[u] \in Nat
          /\ MembersTotal(u) <= bal[u]
      BY WorkspaceTotals DEF MovesInv, MembersCovered, MembersTotal, MovesLedger
    <3>2. QED
      BY <1>6, <1>7, <3>1
  <2>2. QED
    BY <2>1 DEF MembersCovered, MembersTotal
<1>12. FundedWithin'
  <2>1. \A u \in Workspaces : funded[u] <= Worth(u)
    BY DEF MovesInv, FundedWithin
  <2>2. QED
    BY <1>2, <1>4, <1>7, <1>8, <2>1 DEF FundedWithin
<1>13. e \notin InEscrow'
  BY <1>9 DEF InEscrow
<1>14. EscrowsTest'
  <2>1. ASSUME NEW d \in Escrows
        PROVE  /\ escrow'[d].test <= escrow'[d].amount
               /\ d \in InEscrow' /\ IsTest(Home(escrow[d].payer))' =>
                    escrow'[d].test = escrow'[d].amount
    <3>1. CASE d = e
      BY <1>2, <1>9, <1>13, <3>1
    <3>2. CASE d # e
      BY <1>0, <1>9, <3>2 DEF MovesInv, EscrowsTest, InEscrow, Home, IsTest
    <3>3. QED
      BY <3>1, <3>2
  <2>2. QED
    BY <2>1 DEF EscrowsTest
<1>15. /\ \A side \in BOOLEAN :
            /\ Wealth(side)' = Wealth(side) + (IF IsTest(w) = side THEN n ELSE 0)
            /\ InTrust(side)' = InTrust(side) - (IF IsTest(w) = side THEN n ELSE 0)
       /\ TestInTrust' = TestInTrust - test
  <2>1. n \in Int /\ MovesLedger /\ MovesRows
    BY DEF MovesInv
  <2>2. \A side \in BOOLEAN :
          Wealth(side)' = Wealth(side) + (IF IsTest(w) = side THEN n ELSE 0)
    BY <1>0, <1>8, <1>10, <2>1, WealthMoves
  <2>3. /\ \A side \in BOOLEAN : e \notin EscrowsOf(side)'
        /\ \A side \in BOOLEAN : e \in EscrowsOf(side) <=> IsTest(w) = side
    <3>1. IsTest(w) = IsTest(Home(escrow[e].payer))
      BY <1>1 DEF SameSide, IsTest
    <3>2. QED
      BY <1>13, <3>1 DEF EscrowsOf
  <2>4. /\ \A side \in BOOLEAN :
             InTrust(side)' = InTrust(side)
               - (IF e \in EscrowsOf(side) THEN escrow[e].amount ELSE 0)
               + (IF e \in EscrowsOf(side)' THEN escrow'[e].amount ELSE 0)
        /\ TestInTrust' = TestInTrust
             - (IF e \in InEscrow THEN escrow[e].test ELSE 0)
             + (IF e \in InEscrow' THEN escrow'[e].test ELSE 0)
    BY <1>0, <1>9, <1>10, <2>1, InTrustMoves
  <2>5. TestInTrust \in Nat /\ \A side \in BOOLEAN : InTrust(side) \in Nat
    BY <2>1, InTrustNat
  <2>6. QED
    BY <1>2, <1>13, <2>2, <2>3, <2>4, <2>5
<1>16. MovesInv'
  <2>1. \A side \in BOOLEAN :
          /\ Wealth(side) \in Nat /\ InTrust(side) \in Nat
          /\ inflow[side] \in Int
    BY SidesAreNat DEF SidesNat, MovesInv, MovesLedger
  <2>2. \A side \in BOOLEAN :
          inflow'[side] - inflow[side] =
            (Wealth(side)' - Wealth(side)) + (InTrust(side)' - InTrust(side))
    BY <1>0, <1>15, <2>1
  <2>3. QED
    BY <1>10, <1>11, <1>12, <1>14, <2>2, SidesMove
<1>17. TestHere' = TestHere + test
  <2>1. \A u \in Workspaces :
          TestFunded(u) = IF IsTest(u) THEN Worth(u) ELSE funded[u]
    BY FundedSays
  <2>2. \A u \in Workspaces :
          TestFunded(u)' = IF IsTest(u) THEN Worth(u)' ELSE funded'[u]
    BY <1>0, <1>16, FundedSaysNext
  <2>3. TestFunded(w)' = TestFunded(w) + test
    BY <1>2, <1>4, <1>7, <1>8, <2>1, <2>2
  <2>4. \A u \in Workspaces \ {w} : TestFunded(u)' = TestFunded(u)
    BY <1>7, <1>8, <2>1, <2>2
  <2>5. test \in Int
    OBVIOUS
  <2>6. QED
    BY <1>16, <2>3, <2>4, <2>5, TestMoves
<1>18. TestHere \in Nat /\ TestInTrust \in Nat
  BY InTrustNat, TestHereNat DEF MovesInv
<1>19. QED
  BY <1>15, <1>16, <1>17, <1>18, TestsAre DEF Conserves

\* An escrow that goes into dispute stays in escrow.
LEMMA DisputeKeeps ==
  ASSUME MovesInv, NEW e \in Escrows, escrow[e].status = "held",
         escrow' = [escrow EXCEPT ![e].status = "disputed"],
         UNCHANGED <<world, ledgerVars, xfer, request, refunding>>
  PROVE  MovesInv' /\ Conserves
<1>0. /\ world' = world /\ bal' = bal /\ funded' = funded /\ held' = held
      /\ memberBal' = memberBal /\ inflow' = inflow
      /\ xfer' = xfer /\ request' = request /\ refunding' = refunding
  BY DEF ledgerVars
<1>1. /\ escrow'[e].status = "disputed" /\ escrow'[e].payer = escrow[e].payer
      /\ escrow'[e].amount = escrow[e].amount /\ escrow'[e].test = escrow[e].test
      /\ \A d \in Escrows \ {e} : escrow'[d] = escrow[d]
      /\ escrow' \in [Escrows -> EscrowRows]
  BY DEF MovesInv, MovesRows, EscrowRows
<1>2. InEscrow' = InEscrow
  BY <1>1 DEF InEscrow
<1>3. \A side \in BOOLEAN : EscrowsOf(side)' = EscrowsOf(side)
  BY <1>0, <1>1, <1>2 DEF EscrowsOf, IsTest, Home
<1>4. TrustAmounts' = TrustAmounts /\ TrustTests' = TrustTests
  BY <1>1 DEF TrustAmounts, TrustTests
<1>5. /\ \A side \in BOOLEAN : InTrust(side)' = InTrust(side)
      /\ TestInTrust' = TestInTrust
  BY <1>2, <1>3, <1>4 DEF InTrust, TestInTrust
<1>6. /\ \A w \in Workspaces : HeldIn(w)' = HeldIn(w)
      /\ \A w \in Workspaces : AgentsOf(w)' = AgentsOf(w)
      /\ \A w \in Workspaces : Worth(w)' = Worth(w)
  BY <1>0, HeldStays, HomesStay DEF Worth
<1>7. (MovesLedger /\ MovesRows /\ MembersCovered /\ FundedWithin)'
  BY <1>0, <1>1, <1>6
  DEF MovesInv, MovesLedger, MovesRows, MembersCovered, FundedWithin
<1>8. EscrowsTest'
  <2>1. \A d \in Escrows :
          /\ escrow'[d].test = escrow[d].test
          /\ escrow'[d].amount = escrow[d].amount
          /\ escrow'[d].payer = escrow[d].payer
    BY <1>1
  <2>2. QED
    BY <1>0, <1>2, <2>1 DEF MovesInv, EscrowsTest, Home, IsTest
<1>9. \A side \in BOOLEAN : Wealth(side)' = Wealth(side)
  BY <1>0, <1>6, WealthStays
<1>10. MovesInv'
  <2>1. \A side \in BOOLEAN :
          /\ Wealth(side) \in Nat /\ InTrust(side) \in Nat
          /\ inflow[side] \in Int
    BY SidesAreNat DEF SidesNat, MovesInv, MovesLedger
  <2>2. \A side \in BOOLEAN :
          inflow'[side] - inflow[side] =
            (Wealth(side)' - Wealth(side)) + (InTrust(side)' - InTrust(side))
    BY <1>0, <1>5, <1>9, <2>1
  <2>3. QED
    BY <1>7, <1>8, <2>2, SidesMove
<1>11. TestHere' = TestHere
  <2>1. \A w \in Workspaces : TestFunded(w)' = TestFunded(w)
    BY <1>0, <1>6, HomesStay DEF TestFunded, TestFundedOf
  <2>2. QED
    BY <2>1, TestStays
<1>12. QED
  BY <1>5, <1>10, <1>11, TestsAre DEF Conserves

\* Credits bought for, charged to or held in one workspace: its worth changes
\* as what was credited does, and nothing in escrow.
LEMMA WorkspaceMoves ==
  ASSUME MovesInv, MovesLedger', MembersCovered', FundedWithin',
         world' = world, escrow' = escrow, xfer' = xfer, request' = request,
         refunding' = refunding, NEW w \in Workspaces, NEW delta \in Int,
         Worth(w)' = Worth(w) + delta,
         \A u \in Workspaces \ {w} : Worth(u)' = Worth(u),
         \A side \in BOOLEAN :
           inflow'[side] = inflow[side] + (IF IsTest(w) = side THEN delta ELSE 0),
         delta = 0 => \A u \in Workspaces : funded'[u] = funded[u]
  PROVE  MovesInv' /\ Conserves
<1>1. MovesRows' /\ EscrowsTest'
  BY DEF MovesInv, MovesRows, EscrowsTest, InEscrow, Home, IsTest
<1>2. /\ \A side \in BOOLEAN : InTrust(side)' = InTrust(side)
      /\ TestInTrust' = TestInTrust
  BY InTrustStays
<1>3. \A side \in BOOLEAN :
        Wealth(side)' = Wealth(side) + (IF IsTest(w) = side THEN delta ELSE 0)
  <2>1. MovesLedger
    BY DEF MovesInv
  <2>2. QED
    BY <2>1, WealthMoves
<1>4. \A side \in BOOLEAN :
        /\ Wealth(side) \in Nat /\ InTrust(side) \in Nat
        /\ inflow[side] \in Int
  BY SidesAreNat DEF SidesNat, MovesInv, MovesLedger
<1>5. MovesInv'
  <2>1. \A side \in BOOLEAN :
          inflow'[side] - inflow[side] =
            (Wealth(side)' - Wealth(side)) + (InTrust(side)' - InTrust(side))
    BY <1>2, <1>3, <1>4
  <2>2. QED
    BY <1>1, <2>1, SidesMove
<1>6. ASSUME inflow' = inflow
      PROVE  TestTotal' = TestTotal
  <2>1. delta = 0
    <3>1. IsTest(w) \in BOOLEAN
      BY DEF IsTest
    <3>2. inflow'[IsTest(w)] = inflow[IsTest(w)] + delta
      BY <3>1
    <3>3. QED
      BY <1>4, <1>6, <3>1, <3>2
  <2>2. \A u \in Workspaces : Worth(u) \in Nat
    BY WorkspaceTotals DEF MovesInv
  <2>3. \A u \in Workspaces : Worth(u)' = Worth(u) /\ funded'[u] = funded[u]
    BY <2>1, <2>2
  <2>4. \A u \in Workspaces :
          TestFunded(u) = IF IsTest(u) THEN Worth(u) ELSE funded[u]
    BY FundedSays
  <2>5. \A u \in Workspaces :
          TestFunded(u)' = IF IsTest(u) THEN Worth(u)' ELSE funded'[u]
    BY <1>5, FundedSaysNext
  <2>6. \A u \in Workspaces : TestFunded(u)' = TestFunded(u)
    BY <2>3, <2>4, <2>5
  <2>7. QED
    BY <1>2, <2>6, TestStays, TestsAre
<1>7. QED
  BY <1>5, <1>6 DEF Conserves

\* A purchase keeps the invariant.
LEMMA BuyKeeps ==
  ASSUME MovesInv, NEW m \in Members, NEW n \in Nat, NEW test \in BOOLEAN,
         BuyCredits(m, n, test), n > 0
  PROVE  MovesInv' /\ Conserves
<1>0. /\ world' = world /\ held' = held /\ escrow' = escrow /\ xfer' = xfer
      /\ request' = request /\ refunding' = refunding
  BY DEF BuyCredits, rowVars, gateVars
<1>1. PICK w \in Workspaces : w = Home(m)
  BY HomeIsAWorkspace DEF MovesInv
<1>2. PICK more \in Nat : more = (IF test THEN n ELSE 0) /\ more <= n
  OBVIOUS
<1>3. /\ bal' = [bal EXCEPT ![w] = @ + n]
      /\ memberBal' = [memberBal EXCEPT ![m] = @ + n]
      /\ funded' = [funded EXCEPT ![w] = @ + more]
      /\ inflow' = [inflow EXCEPT ![IsTest(w)] = @ + n]
  BY <1>1, <1>2 DEF BuyCredits
<1>4. /\ bal[w] \in Nat /\ Worth(w) \in Nat /\ funded[w] \in Nat
      /\ funded[w] <= Worth(w) /\ IsTest(w) \in BOOLEAN
  BY WorkspaceTotals DEF MovesInv, MovesLedger, FundedWithin, IsTest
<1>5. /\ memberBal' \in [Members -> Nat] /\ memberBal'[m] = memberBal[m] + n
      /\ \A k \in Members \ {m} : memberBal'[k] = memberBal[k]
  BY <1>3 DEF MovesInv, MovesLedger
<1>6. \A u \in Workspaces :
        MembersTotal(u)' = MembersTotal(u) + (IF u = w THEN n ELSE 0)
  <2>1. n \in Int /\ MovesLedger
    BY DEF MovesInv
  <2>2. QED
    BY <1>0, <1>1, <1>5, <2>1, MemberMoves
<1>7. /\ bal' \in [Workspaces -> Nat] /\ bal'[w] = bal[w] + n
      /\ \A u \in Workspaces \ {w} : bal'[u] = bal[u]
      /\ funded' \in [Workspaces -> Nat] /\ funded'[w] = funded[w] + more
      /\ \A u \in Workspaces \ {w} : funded'[u] = funded[u]
  BY <1>3, <1>4 DEF MovesInv, MovesLedger
<1>8. /\ inflow' \in [BOOLEAN -> Int]
      /\ \A side \in BOOLEAN :
           inflow'[side] = inflow[side] + (IF IsTest(w) = side THEN n ELSE 0)
  BY <1>3, <1>4 DEF MovesInv, MovesLedger
<1>9. /\ Worth(w)' = Worth(w) + n
      /\ \A u \in Workspaces \ {w} : Worth(u)' = Worth(u)
  <2>1. \A u \in Workspaces : HeldIn(u)' = HeldIn(u) /\ HeldIn(u) \in Nat
    BY <1>0, HeldStays, WorkspaceTotals DEF MovesInv
  <2>2. QED
    BY <1>4, <1>7, <2>1 DEF Worth
<1>10. MovesLedger'
  BY <1>0, <1>5, <1>7, <1>8 DEF MovesInv, MovesLedger
<1>11. MembersCovered'
  <2>1. ASSUME NEW u \in Workspaces
        PROVE  MembersTotal(u)' <= bal'[u]
    <3>1. /\ MembersTotal(u) \in Nat /\ bal[u] \in Nat
          /\ MembersTotal(u) <= bal[u]
      BY WorkspaceTotals DEF MovesInv, MembersCovered, MembersTotal, MovesLedger
    <3>2. QED
      BY <1>6, <1>7, <3>1
  <2>2. QED
    BY <2>1 DEF MembersCovered, MembersTotal
<1>12. FundedWithin'
  <2>1. \A u \in Workspaces : funded[u] <= Worth(u)
    BY DEF MovesInv, FundedWithin
  <2>2. QED
    BY <1>2, <1>4, <1>7, <1>9, <2>1 DEF FundedWithin
<1>13. n \in Int /\ n # 0
  OBVIOUS
<1>14. QED
  BY <1>0, <1>8, <1>9, <1>10, <1>11, <1>12, <1>13, WorkspaceMoves

\* A hold keeps the invariant.
LEMMA HoldKeeps ==
  ASSUME MovesInv, NEW m \in Members, NEW n \in Nat, HoldCredits(m, n)
  PROVE  MovesInv' /\ Conserves
<1>0. /\ world' = world /\ inflow' = inflow /\ escrow' = escrow
      /\ xfer' = xfer /\ request' = request /\ refunding' = refunding
  BY DEF HoldCredits, rowVars, gateVars
<1>1. PICK w \in Workspaces : w = Home(m)
  BY HomeIsAWorkspace DEF MovesInv
<1>2. /\ held[m] = 0 /\ memberBal[m] >= n
      /\ held' = [held EXCEPT ![m] = n]
      /\ bal' = [bal EXCEPT ![w] = @ - n]
      /\ memberBal' = [memberBal EXCEPT ![m] = @ - n]
      /\ funded' = [funded EXCEPT ![w] = Clamp(@, bal[w] - n, HeldIn(w) + n)]
  BY <1>1 DEF HoldCredits
<1>3. /\ bal[w] \in Nat /\ HeldIn(w) \in Nat /\ funded[w] \in Nat
      /\ funded[w] <= bal[w] + HeldIn(w) /\ n <= bal[w]
  <2>1. /\ bal[w] \in Nat /\ HeldIn(w) \in Nat /\ funded[w] \in Nat
        /\ funded[w] <= bal[w] + HeldIn(w)
    BY WorkspaceTotals DEF MovesInv, MovesLedger, FundedWithin, Worth
  <2>2. /\ memberBal[m] <= MembersTotal(w) /\ MembersTotal(w) <= bal[w]
        /\ MembersTotal(w) \in Nat /\ memberBal[m] \in Nat
    BY <1>1, WorkspaceTotals
    DEF MovesInv, MembersCovered, MembersTotal, MovesLedger
  <2>3. QED
    BY <1>2, <2>1, <2>2
<1>4. /\ memberBal' \in [Members -> Nat] /\ memberBal'[m] = memberBal[m] + (-n)
      /\ \A k \in Members \ {m} : memberBal'[k] = memberBal[k]
      /\ held' \in [Members -> Nat] /\ held'[m] = held[m] + n
      /\ \A k \in Members \ {m} : held'[k] = held[k]
  BY <1>2 DEF MovesInv, MovesLedger
<1>5. /\ \A u \in Workspaces :
           MembersTotal(u)' = MembersTotal(u) + (IF u = w THEN -n ELSE 0)
      /\ \A u \in Workspaces :
           HeldIn(u)' = HeldIn(u) + (IF u = w THEN n ELSE 0)
  <2>1. -n \in Int /\ n \in Int /\ MovesLedger
    BY DEF MovesInv
  <2>2. \A u \in Workspaces :
          MembersTotal(u)' = MembersTotal(u) + (IF u = w THEN -n ELSE 0)
    BY <1>0, <1>1, <1>4, <2>1, MemberMoves
  <2>3. \A u \in Workspaces :
          HeldIn(u)' = HeldIn(u) + (IF u = w THEN n ELSE 0)
    BY <1>0, <1>1, <1>4, <2>1, HeldMoves
  <2>4. QED
    BY <2>2, <2>3
<1>6. /\ bal' \in [Workspaces -> Nat] /\ bal'[w] = bal[w] - n
      /\ \A u \in Workspaces \ {w} : bal'[u] = bal[u]
  BY <1>2, <1>3 DEF MovesInv, MovesLedger
<1>7. /\ funded' \in [Workspaces -> Nat]
      /\ \A u \in Workspaces : funded'[u] = funded[u]
  <2>1. Clamp(funded[w], bal[w] - n, HeldIn(w) + n) = funded[w]
    BY <1>3 DEF Clamp, Least, Most
  <2>2. QED
    BY <1>2, <2>1 DEF MovesInv, MovesLedger
<1>8. \A u \in Workspaces : Worth(u)' = Worth(u) + 0
  <2>1. \A u \in Workspaces : HeldIn(u) \in Nat /\ bal[u] \in Nat
    BY WorkspaceTotals DEF MovesInv, MovesLedger
  <2>2. QED
    BY <1>5, <1>6, <2>1 DEF Worth
<1>9. MovesLedger'
  BY <1>0, <1>4, <1>6, <1>7 DEF MovesInv, MovesLedger
<1>10. MembersCovered'
  <2>1. ASSUME NEW u \in Workspaces
        PROVE  MembersTotal(u)' <= bal'[u]
    <3>1. /\ MembersTotal(u) \in Nat /\ bal[u] \in Nat
          /\ MembersTotal(u) <= bal[u]
      BY WorkspaceTotals DEF MovesInv, MembersCovered, MembersTotal, MovesLedger
    <3>2. QED
      BY <1>5, <1>6, <3>1
  <2>2. QED
    BY <2>1 DEF MembersCovered, MembersTotal
<1>11. \A u \in Workspaces : Worth(u) \in Nat /\ Worth(u)' = Worth(u)
  BY <1>8, WorkspaceTotals DEF MovesInv
<1>12. FundedWithin'
  BY <1>7, <1>11 DEF MovesInv, FundedWithin
<1>13. \A side \in BOOLEAN :
         inflow'[side] = inflow[side] + (IF IsTest(w) = side THEN 0 ELSE 0)
  BY <1>0 DEF MovesInv, MovesLedger
<1>14. 0 \in Int
  OBVIOUS
<1>15. QED
  BY <1>0, <1>7, <1>8, <1>9, <1>10, <1>11, <1>12, <1>13, <1>14, WorkspaceMoves

\* The end of a hold keeps the invariant.
LEMMA SettleHoldKeeps ==
  ASSUME MovesInv, NEW m \in Members, NEW c \in Nat, SettleHold(m, c)
  PROVE  MovesInv' /\ Conserves
<1>0. /\ world' = world /\ escrow' = escrow
      /\ xfer' = xfer /\ request' = request /\ refunding' = refunding
  BY DEF SettleHold, rowVars, gateVars
<1>1. PICK w \in Workspaces : w = Home(m)
  BY HomeIsAWorkspace DEF MovesInv
<1>2. held[m] \in Nat /\ c <= held[m]
  BY DEF SettleHold, MovesInv, MovesLedger
<1>3. PICK back \in Nat : back = held[m] - c
  BY <1>2
<1>4. /\ held' = [held EXCEPT ![m] = 0]
      /\ bal' = [bal EXCEPT ![w] = @ + back]
      /\ memberBal' = [memberBal EXCEPT ![m] = @ + back]
      /\ funded' = [funded EXCEPT ![w] =
                      Clamp(@, bal[w] + back, HeldIn(w) - held[m])]
      /\ inflow' = [inflow EXCEPT ![IsTest(w)] = @ - c]
  BY <1>1, <1>3 DEF SettleHold
<1>5. /\ bal[w] \in Nat /\ HeldIn(w) \in Nat /\ funded[w] \in Nat
      /\ funded[w] <= bal[w] + HeldIn(w) /\ held[m] <= HeldIn(w)
      /\ IsTest(w) \in BOOLEAN
  BY <1>1, WorkspaceTotals DEF MovesInv, MovesLedger, FundedWithin, Worth, IsTest
<1>6. /\ memberBal' \in [Members -> Nat] /\ memberBal'[m] = memberBal[m] + back
      /\ \A k \in Members \ {m} : memberBal'[k] = memberBal[k]
      /\ held' \in [Members -> Nat] /\ held'[m] = held[m] + (-held[m])
      /\ \A k \in Members \ {m} : held'[k] = held[k]
  BY <1>2, <1>4 DEF MovesInv, MovesLedger
<1>7. /\ \A u \in Workspaces :
           MembersTotal(u)' = MembersTotal(u) + (IF u = w THEN back ELSE 0)
      /\ \A u \in Workspaces :
           HeldIn(u)' = HeldIn(u) + (IF u = w THEN -held[m] ELSE 0)
  <2>1. back \in Int /\ -held[m] \in Int /\ MovesLedger
    BY <1>2 DEF MovesInv
  <2>2. \A u \in Workspaces :
          MembersTotal(u)' = MembersTotal(u) + (IF u = w THEN back ELSE 0)
    BY <1>0, <1>1, <1>6, <2>1, MemberMoves
  <2>3. \A u \in Workspaces :
          HeldIn(u)' = HeldIn(u) + (IF u = w THEN -held[m] ELSE 0)
    BY <1>0, <1>1, <1>6, <2>1, HeldMoves
  <2>4. QED
    BY <2>2, <2>3
<1>8. /\ bal' \in [Workspaces -> Nat] /\ bal'[w] = bal[w] + back
      /\ \A u \in Workspaces \ {w} : bal'[u] = bal[u]
  BY <1>4, <1>5 DEF MovesInv, MovesLedger
<1>9. PICK f \in Nat : /\ f = Clamp(funded[w], bal[w] + back, HeldIn(w) - held[m])
                       /\ f <= bal[w] + HeldIn(w) - c
                       /\ c = 0 => f = funded[w]
  BY <1>2, <1>3, <1>5 DEF Clamp, Least, Most
<1>10. /\ funded' \in [Workspaces -> Nat] /\ funded'[w] = f
       /\ \A u \in Workspaces \ {w} : funded'[u] = funded[u]
  BY <1>4, <1>9 DEF MovesInv, MovesLedger
<1>11. /\ Worth(w)' = Worth(w) + (-c)
       /\ \A u \in Workspaces \ {w} : Worth(u)' = Worth(u)
  <2>1. \A u \in Workspaces : HeldIn(u) \in Nat /\ bal[u] \in Nat
    BY WorkspaceTotals DEF MovesInv, MovesLedger
  <2>2. QED
    BY <1>2, <1>3, <1>7, <1>8, <2>1 DEF Worth
<1>12. /\ inflow' \in [BOOLEAN -> Int]
       /\ \A side \in BOOLEAN :
            inflow'[side] = inflow[side] + (IF IsTest(w) = side THEN -c ELSE 0)
  BY <1>4, <1>5 DEF MovesInv, MovesLedger
<1>13. MovesLedger'
  BY <1>0, <1>6, <1>8, <1>10, <1>12 DEF MovesInv, MovesLedger
<1>14. MembersCovered'
  <2>1. ASSUME NEW u \in Workspaces
        PROVE  MembersTotal(u)' <= bal'[u]
    <3>1. /\ MembersTotal(u) \in Nat /\ bal[u] \in Nat
          /\ MembersTotal(u) <= bal[u]
      BY WorkspaceTotals DEF MovesInv, MembersCovered, MembersTotal, MovesLedger
    <3>2. QED
      BY <1>7, <1>8, <3>1
  <2>2. QED
    BY <2>1 DEF MembersCovered, MembersTotal
<1>15. FundedWithin'
  <2>1. \A u \in Workspaces : funded[u] <= Worth(u)
    BY DEF MovesInv, FundedWithin
  <2>2. Worth(w)' = bal[w] + HeldIn(w) - c
    BY <1>5, <1>11 DEF Worth
  <2>3. QED
    BY <1>9, <1>10, <1>11, <2>1, <2>2 DEF FundedWithin
<1>16. -c \in Int /\ (-c = 0 => \A u \in Workspaces : funded'[u] = funded[u])
  BY <1>9, <1>10
<1>17. QED
  BY <1>0, <1>11, <1>12, <1>13, <1>14, <1>15, <1>16, WorkspaceMoves

\* An archived agent's credits are its workspace's again.
LEMMA RetireKeeps ==
  ASSUME MovesInv, NEW m \in Members, RetireMember(m)
  PROVE  MovesInv' /\ Conserves
<1>0. /\ world' = world /\ inflow' = inflow /\ escrow' = escrow
      /\ xfer' = xfer /\ request' = request /\ refunding' = refunding
      /\ bal' = bal /\ funded' = funded /\ held' = held
  BY DEF RetireMember, rowVars
<1>1. PICK w \in Workspaces : w = Home(m)
  BY HomeIsAWorkspace DEF MovesInv
<1>2. /\ memberBal[m] \in Nat
      /\ memberBal' \in [Members -> Nat]
      /\ memberBal'[m] = memberBal[m] + (-memberBal[m])
      /\ \A k \in Members \ {m} : memberBal'[k] = memberBal[k]
  BY DEF RetireMember, MovesInv, MovesLedger
<1>3. \A u \in Workspaces :
        MembersTotal(u)' = MembersTotal(u) + (IF u = w THEN -memberBal[m] ELSE 0)
  <2>1. -memberBal[m] \in Int /\ MovesLedger
    BY <1>2 DEF MovesInv
  <2>2. QED
    BY <1>0, <1>1, <1>2, <2>1, MemberMoves
<1>4. MovesLedger'
  BY <1>0, <1>2 DEF MovesInv, MovesLedger
<1>5. MembersCovered'
  <2>1. ASSUME NEW u \in Workspaces
        PROVE  MembersTotal(u)' <= bal'[u]
    <3>1. /\ MembersTotal(u) \in Nat /\ bal[u] \in Nat
          /\ MembersTotal(u) <= bal[u]
      BY WorkspaceTotals DEF MovesInv, MembersCovered, MembersTotal, MovesLedger
    <3>2. QED
      BY <1>0, <1>2, <1>3, <3>1
  <2>2. QED
    BY <2>1 DEF MembersCovered, MembersTotal
<1>6. \A u \in Workspaces : Worth(u)' = Worth(u) /\ Worth(u) \in Nat
  BY <1>0, HeldStays, WorkspaceTotals DEF Worth, MovesInv
<1>7. FundedWithin'
  BY <1>0, <1>6 DEF MovesInv, FundedWithin
<1>8. /\ 0 \in Int /\ Worth(w)' = Worth(w) + 0
      /\ \A side \in BOOLEAN :
           inflow'[side] = inflow[side] + (IF IsTest(w) = side THEN 0 ELSE 0)
  BY <1>0, <1>6 DEF MovesInv, MovesLedger
<1>9. QED
  BY <1>0, <1>4, <1>5, <1>6, <1>7, <1>8, WorkspaceMoves

-----------------------------------------------------------------------------
(* The theorems about the wallets.                                         *)

\* The invariant holds at first.
LEMMA MovesInvInit == MovesInit => MovesInv
<1> SUFFICES ASSUME MovesInit PROVE MovesInv
  OBVIOUS
<1>1. PICK m \in Members : m = CHOOSE k \in Members : TRUE
  BY MovesConstants
<1>2. MovesLedger
  BY DEF MovesInit, MovesLedger
<1>3. MovesRows
  BY <1>1 DEF MovesInit, MovesRows, NoTransfer, NoEscrow, TransferRows, EscrowRows,
     RequestRows
<1>4. \A w \in Workspaces : HeldIn(w) = 0 /\ MembersTotal(w) = 0
  <2>1. /\ held \in [Members -> Nat] /\ \A k \in Members : held[k] = 0
        /\ memberBal \in [Members -> Nat] /\ \A k \in Members : memberBal[k] = 0
    BY DEF MovesInit
  <2>2. QED
    BY <2>1, TotalOfZero DEF HeldIn, MembersTotal
<1>5. MembersCovered /\ FundedWithin
  BY <1>4 DEF MovesInit, MembersCovered, MembersTotal, FundedWithin, Worth
<1>6. InEscrow = {} /\ EscrowsTest
  BY DEF MovesInit, InEscrow, EscrowsTest, NoEscrow
<1>7. ASSUME NEW side \in BOOLEAN
      PROVE  Wealth(side) = 0 /\ InTrust(side) = 0
  <2>1. Worths \in [Workspaces -> Nat] /\ \A w \in Workspaces : Worths[w] = 0
    BY <1>4 DEF MovesInit, Worths
  <2>2. TrustAmounts \in [Escrows -> Nat] /\ EscrowsOf(side) = {}
    BY <1>3, <1>6, InTrustNat DEF EscrowsOf
  <2>3. QED
    BY <2>1, <2>2, TotalOfZero DEF Wealth, InTrust
<1>8. SidesConserved
  BY <1>7, SidesAre DEF MovesInit
<1>9. QED
  BY <1>2, <1>3, <1>5, <1>6, <1>8 DEF MovesInv

\* Every step keeps the invariant.
LEMMA MovesInvStep ==
  ASSUME MovesInv, [MovesNext]_movesVars
  PROVE  MovesInv' /\ Conserves
<1>1. MoveAmounts \subseteq Nat /\ \A n \in MoveAmounts : n > 0
  BY MovesConstants
<1>2. CASE Send
  <2>1. PICK t \in Transfers, a \in Members, b \in Members, n \in MoveAmounts :
          SendCredits(t, a, b, n)
    BY <1>2 DEF Send
  <2>2. QED
    BY <1>1, <2>1, TransferKeeps DEF SendCredits, gateVars, MovesInv, MovesRows
<1>3. CASE AskAndAnswer
  <2>1. PICK q \in Requests :
          \/ \E a \in Members, b \in Members, n \in MoveAmounts :
               RequestCredits(q, a, b, n)
          \/ \E t \in Transfers : AcceptMoneyRequest(q, t)
          \/ DeclineMoneyRequest(q)
    BY <1>3 DEF AskAndAnswer
  <2>2. ASSUME NEW a \in Members, NEW b \in Members, NEW n \in MoveAmounts,
               RequestCredits(q, a, b, n)
        PROVE  MovesInv' /\ Conserves
    <3>1. request' \in [Requests -> RequestRows]
      BY <1>1, <2>2 DEF RequestCredits, MovesInv, MovesRows, RequestRows
    <3>2. QED
      BY <2>2, <3>1, NothingMoves
      DEF RequestCredits, ledgerVars, gateVars, MovesInv, MovesRows
  <2>3. ASSUME NEW t \in Transfers, AcceptMoneyRequest(q, t)
        PROVE  MovesInv' /\ Conserves
    <3>1. PICK a \in Members, b \in Members, n \in Nat :
            a = request[q].to /\ b = request[q].from /\ n = request[q].amount
      BY DEF MovesInv, MovesRows, RequestRows
    <3>2. request' \in [Requests -> RequestRows]
      BY <2>3 DEF AcceptMoneyRequest, MovesInv, MovesRows, RequestRows
    <3>3. /\ TransferAllowed(a, b, n, TRUE) /\ TransferTx(t, a, b, n, {}, {q})
          /\ world' = world /\ escrow' = escrow /\ refunding' = refunding
      BY <2>3, <3>1 DEF AcceptMoneyRequest, gateVars
    <3>4. QED
      BY <3>2, <3>3, TransferKeeps DEF MovesInv, MovesRows
  <2>4. ASSUME DeclineMoneyRequest(q)
        PROVE  MovesInv' /\ Conserves
    <3>1. request' \in [Requests -> RequestRows]
      BY <2>4 DEF DeclineMoneyRequest, MovesInv, MovesRows, RequestRows
    <3>2. QED
      BY <2>4, <3>1, NothingMoves
      DEF DeclineMoneyRequest, ledgerVars, gateVars, MovesInv, MovesRows
  <2>5. QED
    BY <2>1, <2>2, <2>3, <2>4
<1>4. CASE GiveBack
  <2>1. PICK t \in Transfers :
          ReadRefund(t) \/ (\E u \in Transfers : MakeRefund(t, u)) \/ RefuseRefund(t)
    BY <1>4 DEF GiveBack
  <2>2. CASE ReadRefund(t) \/ RefuseRefund(t)
    <3>1. refunding' \in [Transfers -> Nat]
      BY <2>2 DEF ReadRefund, RefuseRefund, MovesInv, MovesRows
    <3>2. QED
      BY <2>2, <3>1, NothingMoves
      DEF ReadRefund, RefuseRefund, ledgerVars, gateVars, MovesInv, MovesRows
  <2>3. ASSUME NEW u \in Transfers, MakeRefund(t, u)
        PROVE  MovesInv' /\ Conserves
    <3>1. PICK a \in Members, b \in Members, n \in Nat :
            a = xfer[t].to /\ b = xfer[t].from /\ n = xfer[t].amount
      BY DEF MovesInv, MovesRows, TransferRows
    <3>2. refunding' \in [Transfers -> Nat]
      BY <2>3 DEF MakeRefund, MovesInv, MovesRows
    <3>3. /\ TransferAllowed(a, b, n, FALSE) /\ TransferTx(u, a, b, n, {t}, {})
          /\ world' = world /\ escrow' = escrow /\ request' = request
      BY <2>3, <3>1 DEF MakeRefund, gateVars
    <3>4. QED
      BY <3>2, <3>3, TransferKeeps DEF MovesInv, MovesRows
  <2>4. QED
    BY <2>1, <2>2, <2>3
<1>5. CASE PayIn
  BY <1>1, <1>5, PayInKeeps DEF PayIn
<1>6. ASSUME NEW e \in Escrows, escrow[e].status \in {"held", "disputed"},
             NEW m \in {escrow[e].payer, escrow[e].payee},
             NEW status \in {"released", "returned"},
             status = "returned" => m = escrow[e].payer,
             SettleEscrowTx(e, m, status)
      PROVE  MovesInv' /\ Conserves
  <2>1. m \in Members /\ escrow[e].payer \in Members
    BY <1>6 DEF MovesInv, MovesRows, EscrowRows
  <2>2. e \in InEscrow
    BY <1>6 DEF InEscrow
  <2>3. SameSide(Home(escrow[e].payer), Home(m))
    BY <1>6 DEF SettleEscrowTx, SameSide
  <2>4. QED
    BY <1>6, <2>1, <2>2, <2>3, SettleEscrowKeeps
<1>7. CASE Escrowed \/ DeadlineTick
  <2>1. PICK e \in Escrows :
          \/ ConfirmEscrow(e) \/ DisputeEscrow(e) \/ DeadlineComes(e)
          \/ \E release \in BOOLEAN : DecideEscrow(e, release)
          \/ RunEscrowDeadline(e) \/ FailEscrowDeadline(e)
    BY <1>7 DEF Escrowed, DeadlineTick
  <2>2. CASE ConfirmEscrow(e) \/ RunEscrowDeadline(e)
    BY <1>6, <2>2 DEF ConfirmEscrow, RunEscrowDeadline, DueEscrow
  <2>3. ASSUME NEW release \in BOOLEAN, DecideEscrow(e, release)
        PROVE  MovesInv' /\ Conserves
    BY <1>6, <2>3 DEF DecideEscrow
  <2>4. CASE DisputeEscrow(e) \/ FailEscrowDeadline(e)
    BY <2>4, DisputeKeeps
    DEF DisputeEscrow, FailEscrowDeadline, DueEscrow, gateVars
  <2>5. CASE DeadlineComes(e)
    BY <2>5, NothingMoves
    DEF DeadlineComes, ledgerVars, gateVars, MovesInv, MovesRows
  <2>6. QED
    BY <2>1, <2>2, <2>3, <2>4, <2>5
<1>8. CASE Buy
  BY <1>1, <1>8, BuyKeeps DEF Buy
<1>9. CASE HoldAndSettle
  <2>1. PICK m \in Members, n \in Nat :
          HoldCredits(m, n) \/ SettleHold(m, n)
    BY <1>1, <1>9, MovesConstants DEF HoldAndSettle
  <2>2. QED
    BY <2>1, HoldKeeps, SettleHoldKeeps
<1>10. CASE Govern
  <2>1. CASE \E m \in Members : RetireMember(m)
    BY <2>1, RetireKeeps
  <2>2. CASE SetClearance \/ \E w \in Workspaces : SetFreeze(w)
    BY <2>2, NothingMoves
    DEF SetClearance, SetFreeze, ledgerVars, rowVars, MovesInv, MovesRows
  <2>3. QED
    BY <1>10, <2>1, <2>2 DEF Govern
<1>11. CASE UNCHANGED movesVars
  BY <1>11, NothingMoves
  DEF movesVars, ledgerVars, rowVars, gateVars, MovesInv, MovesRows
<1>12. QED
  BY <1>2, <1>3, <1>4, <1>5, <1>7, <1>8, <1>9, <1>10, <1>11 DEF MovesNext

\* The wallets' inductive invariant holds in every state.
THEOREM MovesInvHolds == MovesSpec => []MovesInv
<1>1. MovesInv /\ [MovesNext]_movesVars => MovesInv'
  BY MovesInvStep
<1>2. QED
  BY <1>1, MovesInvInit, PTL DEF MovesSpec

\* Every workspace's balance covers what its agents hold, whatever arrives
\* from or leaves for another workspace.
THEOREM MembersAlwaysCovered == MovesSpec => []MembersCovered
<1>1. MovesInv => MembersCovered
  BY DEF MovesInv
<1>2. QED
  BY <1>1, MovesInvHolds, PTL

\* Transfers, give-backs and escrows make and lose nothing on either side of
\* the money wall.
THEOREM SidesAlwaysConserved == MovesSpec => []SidesConserved
<1>1. MovesInv => SidesConserved
  BY DEF MovesInv
<1>2. QED
  BY <1>1, MovesInvHolds, PTL

\* A step that neither buys nor charges leaves the test-funded total of all
\* workspaces and escrows.
THEOREM TestMoneyStaysTest == MovesSpec => TestMoneyTravels
<1>1. MovesInv /\ [MovesNext]_movesVars =>
        [inflow' = inflow => TestTotal' = TestTotal]_movesVars
  BY MovesInvStep DEF Conserves
<1>2. QED
  BY <1>1, MovesInvHolds, PTL DEF MovesSpec, TestMoneyTravels

-----------------------------------------------------------------------------
(* Give-backs and requests: a row that is not made names no transfer given *)
(* back and no request.                                                    *)

PaidFor(q) == {t \in Transfers : q \in xfer[t].requestOf}

UnmadeNamesNothing ==
  \A t \in Transfers :
    ~xfer[t].made => xfer[t].refundOf = {} /\ xfer[t].requestOf = {}

OnceInv == UnmadeNamesNothing /\ PaidOnce

\* PaidOnce in the names used here.
LEMMA PaidOnceIs ==
  PaidOnce <=>
    /\ \A t \in Transfers : Cardinality(GivenBack(t)) <= 1
    /\ \A q \in Requests :
         Cardinality(PaidFor(q)) = IF request[q].status = "accepted" THEN 1 ELSE 0
BY DEF PaidOnce, PaidFor

\* Nothing is given back or paid at first.
LEMMA OnceInvInit == MovesInit => OnceInv
<1> SUFFICES ASSUME MovesInit PROVE OnceInv
  OBVIOUS
<1>1. UnmadeNamesNothing
  BY DEF MovesInit, UnmadeNamesNothing, NoTransfer
<1>2. /\ \A t \in Transfers : GivenBack(t) = {}
      /\ \A q \in Requests : PaidFor(q) = {}
  BY DEF MovesInit, GivenBack, PaidFor, NoTransfer
<1>3. PaidOnce
  <2>1. Cardinality({}) = 0
    BY FS_EmptySet
  <2>2. \A q \in Requests : request[q].status # "accepted"
    BY DEF MovesInit
  <2>3. \A t \in Transfers : Cardinality(GivenBack(t)) <= 1
    BY <1>2, <2>1
  <2>4. \A q \in Requests : Cardinality(PaidFor(q)) = 0
    BY <1>2, <2>1
  <2>5. QED
    BY <2>2, <2>3, <2>4 DEF PaidOnce, PaidFor
<1>4. QED
  BY <1>1, <1>3 DEF OnceInv

\* What one more transfer adds to the give-backs and to the requests paid.
LEMMA TransferPays ==
  ASSUME MovesRows, OnceInv, NEW u \in Transfers, NEW a, NEW b, NEW n,
         NEW refundOf, NEW requestOf, TransferTx(u, a, b, n, refundOf, requestOf)
  PROVE  /\ UnmadeNamesNothing'
         /\ \A t \in Transfers :
              GivenBack(t)' = GivenBack(t) \cup (IF t \in refundOf THEN {u} ELSE {})
         /\ \A q \in Requests :
              PaidFor(q)' = PaidFor(q) \cup (IF q \in requestOf THEN {u} ELSE {})
<1>1. /\ xfer'[u].made /\ xfer'[u].refundOf = refundOf
      /\ xfer'[u].requestOf = requestOf
      /\ \A t \in Transfers \ {u} : xfer'[t] = xfer[t]
  BY DEF TransferTx, MovesRows
<1>2. ~xfer[u].made /\ xfer[u].refundOf = {} /\ xfer[u].requestOf = {}
  BY DEF TransferTx, OnceInv, UnmadeNamesNothing
<1>3. UnmadeNamesNothing'
  BY <1>1 DEF OnceInv, UnmadeNamesNothing
<1>4. \A t \in Transfers :
        GivenBack(t)' = GivenBack(t) \cup (IF t \in refundOf THEN {u} ELSE {})
  BY <1>1, <1>2 DEF GivenBack
<1>5. \A q \in Requests :
        PaidFor(q)' = PaidFor(q) \cup (IF q \in requestOf THEN {u} ELSE {})
  BY <1>1, <1>2 DEF PaidFor
<1>6. QED
  BY <1>3, <1>4, <1>5

\* A step that makes no transfer and accepts no request pays nothing.
LEMMA NothingPaid ==
  ASSUME OnceInv, xfer' = xfer,
         \A q \in Requests : request'[q].status = "accepted"
                               <=> request[q].status = "accepted"
  PROVE  OnceInv'
<1>1. /\ UnmadeNamesNothing' /\ \A t \in Transfers : GivenBack(t)' = GivenBack(t)
      /\ \A q \in Requests : PaidFor(q)' = PaidFor(q)
  BY DEF OnceInv, UnmadeNamesNothing, GivenBack, PaidFor
<1>2. PaidOnce'
  BY <1>1 DEF OnceInv, PaidOnce, PaidFor
<1>3. QED
  BY <1>1, <1>2 DEF OnceInv

\* Accepting a request pays it, once.
LEMMA AcceptPaysOnce ==
  ASSUME MovesRows, OnceInv, NEW q \in Requests, NEW t \in Transfers,
         AcceptMoneyRequest(q, t)
  PROVE  OnceInv'
<1>1. /\ UnmadeNamesNothing'
      /\ \A k \in Transfers : GivenBack(k)' = GivenBack(k)
      /\ PaidFor(q)' = PaidFor(q) \cup {t}
      /\ \A p \in Requests \ {q} : PaidFor(p)' = PaidFor(p)
  <2>1. TransferTx(t, request[q].to, request[q].from, request[q].amount, {}, {q})
    BY DEF AcceptMoneyRequest
  <2>2. /\ UnmadeNamesNothing'
        /\ \A k \in Transfers :
             GivenBack(k)' = GivenBack(k) \cup (IF k \in {} THEN {t} ELSE {})
        /\ \A p \in Requests :
             PaidFor(p)' = PaidFor(p) \cup (IF p \in {q} THEN {t} ELSE {})
    BY <2>1, TransferPays
  <2>3. QED
    BY <2>2
<1>2. /\ request[q].status = "pending" /\ request'[q].status = "accepted"
      /\ \A p \in Requests \ {q} : request'[p] = request[p]
  BY DEF AcceptMoneyRequest, MovesRows, RequestRows
<1>3. PaidFor(q)' = {t}
  <2>1. Cardinality(PaidFor(q)) = 0
    BY <1>2, PaidOnceIs DEF OnceInv
  <2>2. IsFiniteSet(PaidFor(q))
    BY FS_Subset, MovesConstants DEF PaidFor
  <2>3. PaidFor(q) = {}
    BY <2>1, <2>2, FS_EmptySet
  <2>4. QED
    BY <1>1, <2>3
<1>4. Cardinality(PaidFor(q)') = 1
  BY <1>3, FS_Singleton
<1>5. \A p \in Requests :
        Cardinality(PaidFor(p)') = IF request'[p].status = "accepted" THEN 1 ELSE 0
  <2>1. \A p \in Requests :
          Cardinality(PaidFor(p)) = IF request[p].status = "accepted" THEN 1 ELSE 0
    BY PaidOnceIs DEF OnceInv
  <2>2. QED
    BY <1>1, <1>2, <1>4, <2>1
<1>6. \A k \in Transfers : Cardinality(GivenBack(k)') <= 1
  BY <1>1, PaidOnceIs DEF OnceInv
<1>7. PaidOnce'
  BY <1>5, <1>6 DEF PaidOnce, PaidFor
<1>8. QED
  BY <1>1, <1>7 DEF OnceInv

\* Of the give-backs that read one transfer, the index lets one through.
LEMMA RefundPaysOnce ==
  ASSUME MovesRows, OnceInv, NEW t \in Transfers, NEW u \in Transfers,
         MakeRefund(t, u)
  PROVE  OnceInv'
<1>1. /\ UnmadeNamesNothing'
      /\ GivenBack(t)' = GivenBack(t) \cup {u}
      /\ \A k \in Transfers \ {t} : GivenBack(k)' = GivenBack(k)
      /\ \A q \in Requests : PaidFor(q)' = PaidFor(q)
  <2>1. TransferTx(u, xfer[t].to, xfer[t].from, xfer[t].amount, {t}, {})
    BY DEF MakeRefund
  <2>2. /\ UnmadeNamesNothing'
        /\ \A k \in Transfers :
             GivenBack(k)' = GivenBack(k) \cup (IF k \in {t} THEN {u} ELSE {})
        /\ \A p \in Requests :
             PaidFor(p)' = PaidFor(p) \cup (IF p \in {} THEN {u} ELSE {})
    BY <2>1, TransferPays
  <2>3. QED
    BY <2>2
<1>2. GivenBack(t)' = {u} /\ request' = request
  BY <1>1 DEF MakeRefund, RefundIndex
<1>3. Cardinality(GivenBack(t)') = 1
  BY <1>2, FS_Singleton
<1>4. ASSUME NEW k \in Transfers
      PROVE  Cardinality(GivenBack(k)') <= 1
  <2>1. CASE k = t
    BY <1>3, <2>1
  <2>2. CASE k # t
    <3>1. GivenBack(k)' = GivenBack(k) /\ Cardinality(GivenBack(k)) <= 1
      BY <1>1, <2>2, PaidOnceIs DEF OnceInv
    <3>2. QED
      BY <3>1
  <2>3. QED
    BY <2>1, <2>2
<1>5. \A q \in Requests :
        Cardinality(PaidFor(q)') = IF request'[q].status = "accepted" THEN 1 ELSE 0
  BY <1>1, <1>2, PaidOnceIs DEF OnceInv
<1>6. PaidOnce'
  BY <1>4, <1>5 DEF PaidOnce, PaidFor
<1>7. QED
  BY <1>1, <1>6 DEF OnceInv

\* A plain transfer pays no request and gives nothing back.
LEMMA SendPaysNothing ==
  ASSUME MovesRows, OnceInv, NEW t \in Transfers, NEW a, NEW b, NEW n,
         SendCredits(t, a, b, n)
  PROVE  OnceInv'
<1>1. /\ UnmadeNamesNothing' /\ \A k \in Transfers : GivenBack(k)' = GivenBack(k)
      /\ \A q \in Requests : PaidFor(q)' = PaidFor(q)
  <2>1. TransferTx(t, a, b, n, {}, {})
    BY DEF SendCredits
  <2>2. /\ UnmadeNamesNothing'
        /\ \A k \in Transfers :
             GivenBack(k)' = GivenBack(k) \cup (IF k \in {} THEN {t} ELSE {})
        /\ \A p \in Requests :
             PaidFor(p)' = PaidFor(p) \cup (IF p \in {} THEN {t} ELSE {})
    BY <2>1, TransferPays
  <2>3. QED
    BY <2>2
<1>2. request' = request
  BY DEF SendCredits
<1>3. PaidOnce'
  BY <1>1, <1>2 DEF OnceInv, PaidOnce, PaidFor
<1>4. QED
  BY <1>1, <1>3 DEF OnceInv

\* Every step keeps what is paid once paid once.
LEMMA OnceInvStep ==
  ASSUME MovesRows, OnceInv, [MovesNext]_movesVars
  PROVE  OnceInv'
<1>1. CASE Send
  BY <1>1, SendPaysNothing DEF Send
<1>2. CASE AskAndAnswer
  <2>1. PICK q \in Requests :
          \/ \E a \in Members, b \in Members, n \in MoveAmounts :
               RequestCredits(q, a, b, n)
          \/ \E t \in Transfers : AcceptMoneyRequest(q, t)
          \/ DeclineMoneyRequest(q)
    BY <1>2 DEF AskAndAnswer
  <2>2. ASSUME \/ \E a \in Members, b \in Members, n \in MoveAmounts :
                    RequestCredits(q, a, b, n)
               \/ DeclineMoneyRequest(q)
        PROVE  OnceInv'
    <3>1. CASE DeclineMoneyRequest(q)
      <4>1. /\ xfer' = xfer /\ request[q].status = "pending"
            /\ request'[q].status = "declined"
            /\ \A p \in Requests \ {q} : request'[p] = request[p]
        BY <3>1 DEF DeclineMoneyRequest, MovesRows, RequestRows
      <4>2. QED
        BY <4>1, NothingPaid
    <3>2. ASSUME NEW a \in Members, NEW b \in Members, NEW n \in MoveAmounts,
                 RequestCredits(q, a, b, n)
          PROVE  OnceInv'
      <4>1. /\ xfer' = xfer /\ request[q].status = "none"
            /\ request'[q].status = "pending"
            /\ \A p \in Requests \ {q} : request'[p] = request[p]
        BY <3>2 DEF RequestCredits, MovesRows
      <4>2. QED
        BY <4>1, NothingPaid
    <3>3. QED
      BY <2>2, <3>1, <3>2
  <2>3. QED
    BY <2>1, <2>2, AcceptPaysOnce
<1>3. CASE GiveBack
  <2>1. PICK t \in Transfers :
          ReadRefund(t) \/ (\E u \in Transfers : MakeRefund(t, u)) \/ RefuseRefund(t)
    BY <1>3 DEF GiveBack
  <2>2. CASE ReadRefund(t) \/ RefuseRefund(t)
    BY <2>2, NothingPaid DEF ReadRefund, RefuseRefund
  <2>3. QED
    BY <2>1, <2>2, RefundPaysOnce
<1>4. CASE PayIn \/ Escrowed \/ DeadlineTick \/ Buy \/ HoldAndSettle \/ Govern
           \/ UNCHANGED movesVars
  <2>1. CASE PayIn
    BY <2>1, NothingPaid DEF PayIn, PayIntoEscrow
  <2>2. CASE Escrowed
    BY <2>2, NothingPaid
    DEF Escrowed, ConfirmEscrow, DisputeEscrow, DecideEscrow, DeadlineComes,
        SettleEscrowTx
  <2>3. CASE DeadlineTick
    BY <2>3, NothingPaid
    DEF DeadlineTick, RunEscrowDeadline, FailEscrowDeadline, SettleEscrowTx
  <2>4. CASE Buy
    BY <2>4, NothingPaid DEF Buy, BuyCredits, rowVars
  <2>5. CASE HoldAndSettle
    BY <2>5, NothingPaid DEF HoldAndSettle, HoldCredits, SettleHold, rowVars
  <2>6. CASE Govern
    BY <2>6, NothingPaid
    DEF Govern, RetireMember, SetFreeze, SetClearance, rowVars
  <2>7. CASE UNCHANGED movesVars
    BY <2>7, NothingPaid DEF movesVars, rowVars
  <2>8. QED
    BY <1>4, <2>1, <2>2, <2>3, <2>4, <2>5, <2>6, <2>7
<1>5. QED
  BY <1>1, <1>2, <1>3, <1>4 DEF MovesNext

\* However many give-backs read a transfer before either was made, and however
\* many answers a request gets, a transfer is given back at most once and a
\* request paid exactly when it was accepted.
THEOREM AlwaysPaidOnce == MovesSpec => []PaidOnce
<1>1. MovesInv => MovesRows
  BY DEF MovesInv
<1>2. MovesRows /\ OnceInv /\ [MovesNext]_movesVars => OnceInv'
  BY OnceInvStep
<1>3. OnceInv => PaidOnce
  BY DEF OnceInv
<1>4. QED
  BY <1>1, <1>2, <1>3, OnceInvInit, MovesInvHolds, PTL DEF MovesSpec

-----------------------------------------------------------------------------
(* An agent's card.                                                        *)

\* An amount times the rate's numerator or denominator, whatever they are.
Num(x) == RateNum * x
Den(x) == RateDen * x

\* Scaling by the rate keeps sums, differences, zero and sign.
LEMMA Scales ==
  /\ \A x \in Int : Num(x) \in Int /\ Den(x) \in Int
  /\ \A x, y \in Int : /\ Num(x + y) = Num(x) + Num(y)
                       /\ Num(x - y) = Num(x) - Num(y)
                       /\ Den(x + y) = Den(x) + Den(y)
                       /\ Den(x - y) = Den(x) - Den(y)
  /\ Num(0) = 0 /\ Den(0) = 0 /\ Den(1) = RateDen
  /\ \A x \in Nat : Num(x) >= 0 /\ Den(x) >= 0
  /\ \A x \in Nat \ {0} : Den(x) >= RateDen
<1>1. RateNum \in Nat \ {0} /\ RateDen \in Nat \ {0}
  BY CardConstants
<1>2. \A x \in Int : Num(x) \in Int /\ Den(x) \in Int
  BY <1>1 DEF Num, Den
<1>3. \A x, y \in Int : Num(x + y) = Num(x) + Num(y) /\ Num(x - y) = Num(x) - Num(y)
  BY <1>1 DEF Num
<1>4. \A x, y \in Int : Den(x + y) = Den(x) + Den(y) /\ Den(x - y) = Den(x) - Den(y)
  BY <1>1 DEF Den
<1>5. Num(0) = 0 /\ Den(0) = 0 /\ Den(1) = RateDen
  BY <1>1 DEF Num, Den
<1>6. \A x \in Nat : Num(x) >= 0 /\ Den(x) >= 0
  BY <1>1 DEF Num, Den
<1>7. \A x \in Nat \ {0} : Den(x) >= RateDen
  BY <1>1 DEF Den
<1>8. QED
  BY <1>2, <1>3, <1>4, <1>5, <1>6, <1>7

\* A conversion rounds up, by less than one credit.
LEMMA Rounds ==
  ASSUME NEW m \in Nat
  PROVE  /\ Ulxc(m) \in Nat
         /\ Num(m) <= Den(Ulxc(m)) /\ Den(Ulxc(m)) < Num(m) + RateDen
<1>1. RateDen \in Nat \ {0} /\ Num(m) \in Nat
  BY CardConstants DEF Num
<1>2. PICK a \in Nat : a = m * RateNum + RateDen - 1
  BY <1>1, CardConstants DEF Num
<1>3. PICK q \in Int : q = a \div RateDen
  BY <1>1
<1>4. Den(q) \in Int /\ Den(q) <= a /\ a < Den(q) + RateDen
  BY <1>1, <1>3 DEF Den
<1>5. Ulxc(m) = q /\ Num(m) = a - RateDen + 1
  BY <1>1, <1>2, <1>3, CardConstants DEF Ulxc, Num
<1>6. q \in Nat
  <2>1. SUFFICES ASSUME q <= -1 PROVE FALSE
    BY <1>3
  <2>2. Den(q) <= -RateDen
    BY <1>1, <2>1, <1>3 DEF Den
  <2>3. QED
    BY <1>1, <1>4, <2>2
<1>7. QED
  BY <1>1, <1>4, <1>5, <1>6

-----------------------------------------------------------------------------
\* Nothing converts to nothing.
LEMMA NothingConverts == Ulxc(0) = 0
<1>1. RateNum \in Nat /\ RateDen \in Nat \ {0}
  BY CardConstants
<1>2. 0 * RateNum = 0
  BY <1>1
<1>3. Ulxc(0) = (RateDen - 1) \div RateDen
  BY <1>1, <1>2 DEF Ulxc
<1>4. (RateDen - 1) \div RateDen = 0
  BY <1>1
<1>5. QED
  BY <1>3, <1>4

SettlementRows == [done : BOOLEAN, holdMinor : Nat, hold : Nat, test : Int]

\* A settlement that is not on record took nothing.
CardRows ==
  /\ agentHas \in Int /\ testFunded \in Nat
  /\ decision \in [CardRequests -> {"none", "approved", "declined"}]
  /\ settlement \in [CardEvents -> SettlementRows]
  /\ \A e \in CardEvents : ~settlement[e].done => settlement[e] = NotSettled

AskedMinor == TotalOf(ApprovedAsks, Asks)
MinorColumn == [e \in CardEvents |-> settlement[e].holdMinor]
HoldColumn == [e \in CardEvents |-> settlement[e].hold]
TestColumn == [e \in CardEvents |-> settlement[e].test]
SettledMinor == Total(MinorColumn)
SettledULXC == Total(HoldColumn)
DoneEvents == {e \in CardEvents : settlement[e].done}

\* No more of the hold is settled than was asked for.
HoldsWithin == SettledMinor <= AskedMinor /\ SettledULXC <= AskedULXC

CardSteps == Cardinality(ApprovedAsks) + Cardinality(DoneEvents)

\* How far the agent's account is off the rate, with and without what is
\* still held.
Off == Den(AgentHolds - agentHas)
       - Num(HeldMinor + CardTotal("capture") - CardTotal("refund"))
OffUnheld == Den(AgentHolds - agentHas - HeldULXC)
             - Num(CardTotal("capture") - CardTotal("refund"))

WithinRounding ==
  /\ -Den(CardSteps) <= Off /\ Off <= Den(CardSteps)
  /\ -Den(CardSteps) <= OffUnheld /\ OffUnheld <= Den(CardSteps)

CardBookInv == CardRows /\ HoldsWithin /\ WithinRounding

\* The columns of the settlements, and the events, total naturals.
LEMMA CardSums ==
  CardRows => /\ MinorColumn \in [CardEvents -> Nat]
              /\ HoldColumn \in [CardEvents -> Nat]
              /\ TestColumn \in [CardEvents -> Int]
              /\ SettledMinor \in Nat /\ SettledULXC \in Nat
              /\ AskedMinor \in Nat /\ AskedULXC \in Nat
              /\ CardTotal("capture") \in Nat /\ CardTotal("refund") \in Nat
              /\ IsFiniteSet(ApprovedAsks) /\ IsFiniteSet(DoneEvents)
              /\ CardSteps \in Nat
<1> SUFFICES ASSUME CardRows
             PROVE  /\ MinorColumn \in [CardEvents -> Nat]
                    /\ HoldColumn \in [CardEvents -> Nat]
                    /\ TestColumn \in [CardEvents -> Int]
                    /\ SettledMinor \in Nat /\ SettledULXC \in Nat
                    /\ AskedMinor \in Nat /\ AskedULXC \in Nat
                    /\ CardTotal("capture") \in Nat /\ CardTotal("refund") \in Nat
                    /\ IsFiniteSet(ApprovedAsks) /\ IsFiniteSet(DoneEvents)
                    /\ CardSteps \in Nat
  OBVIOUS
<1>1. /\ MinorColumn \in [CardEvents -> Nat] /\ HoldColumn \in [CardEvents -> Nat]
      /\ TestColumn \in [CardEvents -> Int]
  BY DEF CardRows, SettlementRows, MinorColumn, HoldColumn, TestColumn
<1>2. SettledMinor \in Nat /\ SettledULXC \in Nat
  BY <1>1, TotalNat, CardConstants DEF SettledMinor, SettledULXC
<1>3. AskedMinor \in Nat /\ AskedULXC \in Nat
  <2>1. Asks \in [CardRequests -> Nat]
    BY CardConstants
  <2>2. [r \in CardRequests |-> Ulxc(Asks[r])] \in [CardRequests -> Nat]
    BY <2>1, Rounds
  <2>3. QED
    BY <2>1, <2>2, TotalOfNat, CardConstants DEF AskedMinor, AskedULXC
<1>4. CardTotal("capture") \in Nat /\ CardTotal("refund") \in Nat
  <2>1. [e \in CardEvents |-> e.minor] \in [CardEvents -> Nat]
    BY CardConstants
  <2>2. QED
    BY <2>1, TotalOfNat, CardConstants DEF CardTotal
<1>5. IsFiniteSet(ApprovedAsks) /\ IsFiniteSet(DoneEvents)
  <2>1. ApprovedAsks \in SUBSET CardRequests /\ DoneEvents \in SUBSET CardEvents
    BY DEF ApprovedAsks, DoneEvents
  <2>2. QED
    BY <2>1, FS_Subset, CardConstants
<1>6. CardSteps \in Nat
  BY <1>5, FS_CardinalityType DEF CardSteps
<1>7. QED
  BY <1>1, <1>2, <1>3, <1>4, <1>5, <1>6

\* What is held is what was asked for less what was settled.
LEMMA HeldIs ==
  CardRows /\ HoldsWithin =>
    HeldMinor = AskedMinor - SettledMinor /\ HeldULXC = AskedULXC - SettledULXC
<1> SUFFICES ASSUME CardRows, HoldsWithin
             PROVE  /\ HeldMinor = AskedMinor - SettledMinor
                    /\ HeldULXC = AskedULXC - SettledULXC
  OBVIOUS
<1>1. /\ SettledMinor \in Nat /\ SettledULXC \in Nat
      /\ AskedMinor \in Nat /\ AskedULXC \in Nat
      /\ SettledMinor <= AskedMinor /\ SettledULXC <= AskedULXC
  BY CardSums DEF HoldsWithin
<1>2. /\ HeldMinor = Most(0, AskedMinor - SettledMinor)
      /\ HeldULXC = Most(0, AskedULXC - SettledULXC)
  BY DEF HeldMinor, HeldULXC, AskedMinor, SettledMinor, SettledULXC, MinorColumn,
     HoldColumn
<1>3. QED
  BY <1>1, <1>2 DEF Most

\* The same of the next state.
HeldSplit ==
  /\ HeldMinor = AskedMinor - SettledMinor
  /\ HeldULXC = AskedULXC - SettledULXC

LEMMA HeldSplits == CardRows /\ HoldsWithin => HeldSplit
BY HeldIs DEF HeldSplit

\* What is held in the next state.
LEMMA HeldIsPrimed ==
  ASSUME CardRows', HoldsWithin'
  PROVE  /\ HeldMinor' = AskedMinor' - SettledMinor'
         /\ HeldULXC' = AskedULXC' - SettledULXC'
<1>1. HeldSplit'
  BY HeldSplits, PTL
<1>2. QED
  BY <1>1 DEF HeldSplit

\* A request approved adds its amount to what was asked for.
LEMMA ApprovalAdds ==
  ASSUME CardRows, NEW r \in CardRequests, decision[r] = "none",
         decision' = [decision EXCEPT ![r] = "approved"],
         settlement' = settlement
  PROVE  /\ AskedMinor' = AskedMinor + Asks[r]
         /\ AskedULXC' = AskedULXC + Ulxc(Asks[r])
         /\ CardSteps' = CardSteps + 1
         /\ SettledMinor' = SettledMinor /\ SettledULXC' = SettledULXC
         /\ CardTotal("capture")' = CardTotal("capture")
         /\ CardTotal("refund")' = CardTotal("refund")
         /\ NetTotal(TestColumn)' = NetTotal(TestColumn)
<1>1. ApprovedAsks' = ApprovedAsks \cup {r} /\ r \notin ApprovedAsks
  BY DEF ApprovedAsks, CardRows
<1>2. PICK rows, others : rows = ApprovedAsks /\ others = ApprovedAsks'
  OBVIOUS
<1>3. /\ \A k \in CardRequests \ {r} : k \in others <=> k \in rows
      /\ r \notin rows /\ r \in others
  BY <1>1, <1>2
<1>4. PICK f \in [CardRequests -> Nat] :
        f = [k \in CardRequests |-> Ulxc(Asks[k])]
  <2>1. [k \in CardRequests |-> Ulxc(Asks[k])] \in [CardRequests -> Nat]
    BY Rounds, CardConstants
  <2>2. QED
    BY <2>1
<1>5. Asks \in [CardRequests -> Nat] /\ IsFiniteSet(CardRequests)
  BY CardConstants
<1>6. TotalOf(others, Asks) = TotalOf(rows, Asks) - 0 + Asks[r]
  BY <1>3, <1>5, TotalOfUpdate
<1>7. TotalOf(others, f) = TotalOf(rows, f) - 0 + f[r]
  BY <1>3, <1>5, TotalOfUpdate
<1>8. AskedMinor' = AskedMinor + Asks[r] /\ AskedULXC' = AskedULXC + Ulxc(Asks[r])
  <2>1. AskedMinor \in Nat /\ AskedULXC \in Nat
    BY CardSums
  <2>2. /\ AskedMinor = TotalOf(rows, Asks) /\ AskedMinor' = TotalOf(others, Asks)
        /\ AskedULXC = TotalOf(rows, f) /\ AskedULXC' = TotalOf(others, f)
        /\ f[r] = Ulxc(Asks[r])
    BY <1>2, <1>4 DEF AskedMinor, AskedULXC
  <2>3. QED
    BY <1>6, <1>7, <2>1, <2>2
<1>9. CardSteps' = CardSteps + 1
  <2>1. Cardinality(ApprovedAsks') = Cardinality(ApprovedAsks) + 1
    BY <1>1, CardSums, FS_AddElement
  <2>2. DoneEvents' = DoneEvents
    BY DEF DoneEvents
  <2>3. Cardinality(ApprovedAsks) \in Nat /\ Cardinality(DoneEvents) \in Nat
    BY CardSums, FS_CardinalityType
  <2>4. QED
    BY <2>1, <2>2, <2>3 DEF CardSteps
<1>10. QED
  BY <1>8, <1>9 DEF SettledMinor, SettledULXC, MinorColumn, HoldColumn, CardTotal,
     SettledOf, TestColumn

\* An event settled adds its row to the totals.
LEMMA SettlementAdds ==
  ASSUME CardRows, NEW e \in CardEvents, ~settlement[e].done,
         NEW k \in Nat, NEW h \in Nat, NEW t \in Int,
         settlement' = [settlement EXCEPT ![e] =
           [done |-> TRUE, holdMinor |-> k, hold |-> h, test |-> t]],
         decision' = decision
  PROVE  /\ SettledMinor' = SettledMinor + k /\ SettledULXC' = SettledULXC + h
         /\ NetTotal(TestColumn) \in Int
         /\ NetTotal(TestColumn)' = NetTotal(TestColumn) + t
         /\ CardSteps' = CardSteps + 1
         /\ AskedMinor' = AskedMinor /\ AskedULXC' = AskedULXC
         /\ CardTotal("capture")' = CardTotal("capture")
              + (IF e.kind = "capture" THEN e.minor ELSE 0)
         /\ CardTotal("refund")' = CardTotal("refund")
              + (IF e.kind = "refund" THEN e.minor ELSE 0)
<1>1. /\ settlement[e] = NotSettled
      /\ settlement'[e] = [done |-> TRUE, holdMinor |-> k, hold |-> h, test |-> t]
      /\ \A d \in CardEvents \ {e} : settlement'[d] = settlement[d]
  BY DEF CardRows
<1>2. IsFiniteSet(CardEvents)
  BY CardConstants
<1>3. PICK fm \in [CardEvents -> Nat], fh \in [CardEvents -> Nat],
           ft \in [CardEvents -> Int] :
        fm = MinorColumn /\ fh = HoldColumn /\ ft = TestColumn
  BY CardSums
<1>4. PICK gm \in [CardEvents -> Nat], gh \in [CardEvents -> Nat],
           gt \in [CardEvents -> Int] :
        gm = MinorColumn' /\ gh = HoldColumn' /\ gt = TestColumn'
  <2>1. /\ MinorColumn' \in [CardEvents -> Nat]
        /\ HoldColumn' \in [CardEvents -> Nat]
        /\ TestColumn' \in [CardEvents -> Int]
    BY <1>1 DEF CardRows, SettlementRows, MinorColumn, HoldColumn, TestColumn
  <2>2. QED
    BY <2>1
<1>5. /\ fm[e] = 0 /\ gm[e] = k /\ \A d \in CardEvents \ {e} : gm[d] = fm[d]
      /\ fh[e] = 0 /\ gh[e] = h /\ \A d \in CardEvents \ {e} : gh[d] = fh[d]
      /\ ft[e] = 0 /\ gt[e] = t /\ \A d \in CardEvents \ {e} : gt[d] = ft[d]
  BY <1>1, <1>3, <1>4 DEF MinorColumn, HoldColumn, TestColumn, NotSettled
<1>6. SettledMinor' = SettledMinor + k
  <2>1. Total(gm) = Total(fm) - fm[e] + gm[e] /\ Total(fm) \in Nat
    BY <1>2, <1>5, TotalUpdate, TotalNat
  <2>2. QED
    BY <1>3, <1>4, <1>5, <2>1 DEF SettledMinor
<1>7. SettledULXC' = SettledULXC + h
  <2>1. Total(gh) = Total(fh) - fh[e] + gh[e] /\ Total(fh) \in Nat
    BY <1>2, <1>5, TotalUpdate, TotalNat
  <2>2. QED
    BY <1>3, <1>4, <1>5, <2>1 DEF SettledULXC
<1>8. NetTotal(TestColumn) \in Int /\ NetTotal(TestColumn)' = NetTotal(TestColumn) + t
  <2>1. NetTotal(ft) \in Int /\ NetTotal(gt) = NetTotal(ft) - ft[e] + gt[e]
    BY <1>2, <1>5, NetTotalMoves
  <2>2. QED
    BY <1>3, <1>4, <1>5, <2>1
<1>9. CardSteps' = CardSteps + 1
  <2>1. DoneEvents' = DoneEvents \cup {e} /\ e \notin DoneEvents
    BY <1>1 DEF DoneEvents
  <2>2. Cardinality(DoneEvents') = Cardinality(DoneEvents) + 1
    BY <2>1, CardSums, FS_AddElement
  <2>3. ApprovedAsks' = ApprovedAsks
    BY DEF ApprovedAsks
  <2>4. Cardinality(ApprovedAsks) \in Nat /\ Cardinality(DoneEvents) \in Nat
    BY CardSums, FS_CardinalityType
  <2>5. QED
    BY <2>2, <2>3, <2>4 DEF CardSteps
<1>10. AskedMinor' = AskedMinor /\ AskedULXC' = AskedULXC
  BY DEF AskedMinor, AskedULXC, ApprovedAsks
<1>11. ASSUME NEW kind \in {"capture", "refund"}
       PROVE  CardTotal(kind)' = CardTotal(kind)
                                 + (IF e.kind = kind THEN e.minor ELSE 0)
  <2>1. PICK f \in [CardEvents -> Nat] : f = [d \in CardEvents |-> d.minor]
    <3>1. [d \in CardEvents |-> d.minor] \in [CardEvents -> Nat]
      BY CardConstants
    <3>2. QED
      BY <3>1
  <2>2. PICK rows, others : rows = SettledOf(kind) /\ others = SettledOf(kind)'
    OBVIOUS
  <2>3. /\ e \notin rows /\ (e \in others <=> e.kind = kind)
        /\ \A d \in CardEvents \ {e} : d \in others <=> d \in rows
    BY <1>1, <2>2 DEF SettledOf
  <2>4. TotalOf(others, f) = TotalOf(rows, f) - (IF e \in rows THEN f[e] ELSE 0)
                             + (IF e \in others THEN f[e] ELSE 0)
    BY <1>2, <2>3, TotalOfUpdate
  <2>5. TotalOf(rows, f) \in Nat
    BY <1>2, TotalOfNat
  <2>6. CardTotal(kind) = TotalOf(rows, f) /\ CardTotal(kind)' = TotalOf(others, f)
    BY <2>1, <2>2 DEF CardTotal
  <2>7. f[e] = e.minor
    BY <2>1
  <2>8. QED
    BY <2>3, <2>4, <2>5, <2>6, <2>7
<1>12. QED
  BY <1>6, <1>7, <1>8, <1>9, <1>10, <1>11

\* The rounding of one conversion, and the two ways a part of the hold can be
\* off the rate: by less than one credit, or with nothing of the hold's value
\* left.
LEMMA PartRounds ==
  ASSUME NEW hm \in Nat, NEW hu \in Nat, NEW k \in Nat, NEW h \in Nat, k <= hm,
         h = (IF k = hm THEN hu ELSE Least(Ulxc(k), hu))
  PROVE  /\ h <= hu
         /\ \/ k = hm /\ h = hu
            \/ k < hm /\ Num(k) <= Den(h) /\ Den(h) < Num(k) + RateDen
            \/ k < hm /\ h = hu /\ Den(h) <= Num(k)
<1>1. CASE k = hm
  BY <1>1
<1>2. CASE k # hm /\ Ulxc(k) <= hu
  <2>1. h = Ulxc(k) /\ Ulxc(k) \in Nat
    BY <1>2, Rounds DEF Least
  <2>2. QED
    BY <1>2, <2>1, Rounds
<1>3. CASE k # hm /\ ~(Ulxc(k) <= hu)
  <2>1. h = hu /\ Ulxc(k) \in Nat
    BY <1>3, Rounds DEF Least
  <2>2. Den(Ulxc(k)) < Num(k) + RateDen
    BY Rounds
  <2>3. PICK x \in Nat \ {0} : Ulxc(k) = h + x
    <3>1. Ulxc(k) - h \in Nat \ {0} /\ Ulxc(k) = h + (Ulxc(k) - h)
      BY <1>3, <2>1
    <3>2. QED
      BY <3>1
  <2>4. h \in Int /\ x \in Int /\ k \in Int
    BY <2>3
  <2>5. Den(h + x) = Den(h) + Den(x)
    BY <2>4, Scales
  <2>6. Den(x) >= RateDen
    BY <2>3, Scales
  <2>7. Den(h) \in Int /\ Den(x) \in Int /\ Num(k) \in Int
    BY <2>4, Scales
  <2>8. RateDen \in Int
    BY CardConstants
  <2>9. Den(h) <= Num(k)
    BY <2>2, <2>3, <2>5, <2>6, <2>7, <2>8
  <2>10. QED
    BY <1>3, <2>1, <2>9
<1>4. QED
  BY <1>1, <1>2, <1>3

-----------------------------------------------------------------------------
(* The initial state, and the numbers a step is about.                     *)

\* Every number the two offs are made of is an integer, and each off is the
\* sum of its parts.
Parts ==
  /\ AgentHolds - agentHas \in Int /\ HeldMinor \in Nat /\ HeldULXC \in Nat
  /\ CardTotal("capture") \in Nat /\ CardTotal("refund") \in Nat
  /\ CardSteps \in Nat
  /\ Off = Den(AgentHolds - agentHas) - Num(HeldMinor)
           - Num(CardTotal("capture")) + Num(CardTotal("refund"))
  /\ OffUnheld = Den(AgentHolds - agentHas) - Den(HeldULXC)
                 - Num(CardTotal("capture")) + Num(CardTotal("refund"))

LEMMA PartsOf ==
  CardRows /\ HoldsWithin => Parts
<1> SUFFICES ASSUME CardRows, HoldsWithin PROVE Parts
  OBVIOUS
<1>1. /\ HeldMinor \in Nat /\ HeldULXC \in Nat
      /\ CardTotal("capture") \in Nat /\ CardTotal("refund") \in Nat
      /\ CardSteps \in Nat
  <2>1. /\ SettledMinor \in Nat /\ SettledULXC \in Nat
        /\ AskedMinor \in Nat /\ AskedULXC \in Nat
        /\ SettledMinor <= AskedMinor /\ SettledULXC <= AskedULXC
    BY CardSums DEF HoldsWithin
  <2>2. HeldMinor \in Nat /\ HeldULXC \in Nat
    BY <2>1, HeldIs
  <2>3. QED
    BY <2>2, CardSums
<1>2. AgentHolds - agentHas \in Int
  BY CardConstants DEF CardRows
<1>3. PICK o \in Int, hm \in Int, hu \in Int, c \in Int, f \in Int :
        /\ o = AgentHolds - agentHas /\ hm = HeldMinor /\ hu = HeldULXC
        /\ c = CardTotal("capture") /\ f = CardTotal("refund")
  BY <1>1, <1>2
<1>4. Num(hm + c - f) = Num(hm) + Num(c) - Num(f)
  <2>1. hm + c \in Int
    OBVIOUS
  <2>2. Num((hm + c) - f) = Num(hm + c) - Num(f)
    BY <2>1, Scales
  <2>3. Num(hm + c) = Num(hm) + Num(c)
    BY Scales
  <2>4. Num(hm) \in Int /\ Num(c) \in Int /\ Num(f) \in Int
    BY Scales
  <2>5. QED
    BY <2>2, <2>3, <2>4
<1>5. Num(c - f) = Num(c) - Num(f) /\ Den(o - hu) = Den(o) - Den(hu)
  BY Scales
<1>6. Num(hm) \in Int /\ Num(c) \in Int /\ Num(f) \in Int
  BY Scales
<1>7. Den(o) \in Int /\ Den(hu) \in Int
  BY Scales
<1>8. /\ Off = Den(o) - Num(hm + c - f)
      /\ OffUnheld = Den(o - hu) - Num(c - f)
  BY <1>3 DEF Off, OffUnheld
<1>9. /\ Off = Den(o) - Num(hm) - Num(c) + Num(f)
      /\ OffUnheld = Den(o) - Den(hu) - Num(c) + Num(f)
  BY <1>4, <1>5, <1>6, <1>7, <1>8
<1>10. QED
  BY <1>1, <1>2, <1>3, <1>9 DEF Parts

\* A new off lies between the two old ones, but for one credit either way.
Near(new, off, unheld) ==
  /\ new >= off - RateDen \/ new >= unheld - RateDen
  /\ new <= off + RateDen \/ new <= unheld + RateDen

\* A step that adds one approval or settlement may add one credit of rounding.
LEMMA RoundingKept ==
  ASSUME WithinRounding, Parts, Parts', CardSteps' = CardSteps + 1,
         Near(Off', Off, OffUnheld), Near(OffUnheld', Off, OffUnheld)
  PROVE  WithinRounding'
<1>1. PICK n \in Nat : n = CardSteps
  BY DEF Parts
<1>2. Den(n + 1) = Den(n) + RateDen /\ Den(n) \in Int /\ RateDen \in Int
  <2>1. n \in Int /\ 1 \in Int
    OBVIOUS
  <2>2. Den(n + 1) = Den(n) + Den(1)
    BY <2>1, Scales
  <2>3. QED
    BY <2>1, <2>2, Scales, CardConstants
<1>3. PICK off \in Int, unheld \in Int : off = Off /\ unheld = OffUnheld
  <2>1. Off \in Int /\ OffUnheld \in Int
    <3>1. PICK o \in Int, hm \in Int, hu \in Int, c \in Int, f \in Int :
            /\ o = AgentHolds - agentHas /\ hm = HeldMinor /\ hu = HeldULXC
            /\ c = CardTotal("capture") /\ f = CardTotal("refund")
      BY DEF Parts
    <3>2. /\ Den(o) \in Int /\ Den(hu) \in Int
          /\ Num(hm) \in Int /\ Num(c) \in Int /\ Num(f) \in Int
      BY Scales
    <3>3. /\ Off = Den(o) - Num(hm) - Num(c) + Num(f)
          /\ OffUnheld = Den(o) - Den(hu) - Num(c) + Num(f)
      BY <3>1 DEF Parts
    <3>4. QED
      BY <3>2, <3>3
  <2>2. QED
    BY <2>1
<1>4. PICK new, left : new = Off' /\ left = OffUnheld'
  OBVIOUS
<1>5. new \in Int /\ left \in Int
  <2>1. /\ (AgentHolds - agentHas)' \in Int /\ HeldMinor' \in Nat /\ HeldULXC' \in Nat
        /\ CardTotal("capture")' \in Nat /\ CardTotal("refund")' \in Nat
    BY DEF Parts
  <2>2. PICK o \in Int, hm \in Int, hu \in Int, c \in Int, f \in Int :
          /\ o = (AgentHolds - agentHas)' /\ hm = HeldMinor' /\ hu = HeldULXC'
          /\ c = CardTotal("capture")' /\ f = CardTotal("refund")'
    BY <2>1
  <2>3. /\ new = Den(o) - Num(hm) - Num(c) + Num(f)
        /\ left = Den(o) - Den(hu) - Num(c) + Num(f)
    BY <1>4, <2>2 DEF Parts, Den, Num
  <2>4. /\ Den(o) \in Int /\ Den(hu) \in Int
        /\ Num(hm) \in Int /\ Num(c) \in Int /\ Num(f) \in Int
    BY Scales
  <2>5. QED
    BY <2>3, <2>4
<1>6. /\ -Den(n) <= off /\ off <= Den(n) /\ -Den(n) <= unheld /\ unheld <= Den(n)
  BY <1>1, <1>3 DEF WithinRounding
<1>7. Near(new, off, unheld) /\ Near(left, off, unheld)
  BY <1>3, <1>4
<1>8. /\ -Den(n + 1) <= new /\ new <= Den(n + 1)
      /\ -Den(n + 1) <= left /\ left <= Den(n + 1)
  BY <1>2, <1>5, <1>6, <1>7 DEF Near
<1>9. CardSteps' = n + 1
  BY <1>1
<1>10. QED
  BY <1>4, <1>8, <1>9 DEF WithinRounding, Den

-----------------------------------------------------------------------------
(* One settlement, in numbers.                                             *)

\* Event e takes k off the hold in the card's currency, h in credits, moves x
\* to the agent and t back to the test-funded credits.
SettlesAs(e, k, h, x, t) ==
  /\ ~settlement[e].done
  /\ settlement' = [settlement EXCEPT ![e] =
       [done |-> TRUE, holdMinor |-> k, hold |-> h, test |-> t]]
  /\ decision' = decision /\ agentHas' = agentHas + x
  /\ t = TestMoved(x)
  /\ testFunded' = IF x = 0 THEN testFunded ELSE TestAfter(x, t)
  /\ k <= HeldMinor
  /\ \/ e.kind = "refund" /\ k = 0 /\ h = 0 /\ x = Ulxc(e.minor)
     \/ e.kind \in {"pending", "closed"} /\ h = PartOfHold(k) /\ x = h
     \/ /\ e.kind = "capture" /\ k = Least(e.minor, HeldMinor)
        /\ h = PartOfHold(k) /\ x = -Ulxc(e.minor - k)

\* The sums of the test-funded credits are integers too.
LEMMA NetTestInt == CardRows => NetTotal(TestColumn) \in Int
<1> SUFFICES ASSUME CardRows PROVE NetTotal(TestColumn) \in Int
  OBVIOUS
<1>1. CASE CardEvents = {}
  <2>1. NetTotal(TestColumn) = 0
    BY <1>1, CardSums, NetTotalZero
  <2>2. QED
    BY <2>1
<1>2. CASE CardEvents # {}
  <2>1. PICK e \in CardEvents : TRUE
    BY <1>2
  <2>2. PICK f \in [CardEvents -> Int] : f = TestColumn
    BY CardSums
  <2>3. IsFiniteSet(CardEvents)
    BY CardConstants
  <2>4. NetTotal(f) \in Int
    BY <2>1, <2>3, NetTotalMoves
  <2>5. QED
    BY <2>2, <2>4
<1>3. QED
  BY <1>1, <1>2

\* What the purchase took, and what can be taken, are numbers.
LEMMA TestSums ==
  CardRows => TestTaken \in Int /\ TestHeld \in Nat
<1> SUFFICES ASSUME CardRows PROVE TestTaken \in Int /\ TestHeld \in Nat
  OBVIOUS
<1>1. NetTotal(TestColumn) \in Int
  BY NetTestInt
<1>2. TestTaken = AskedULXC - NetTotal(TestColumn)
  BY DEF TestTaken, TestColumn
<1>3. TestTaken \in Int
  BY <1>1, <1>2, CardSums
<1>4. agentHas + Elsewhere \in Int /\ testFunded \in Nat
  BY CardConstants DEF CardRows
<1>5. TestHeld \in Nat
  BY <1>4 DEF TestHeld, Least, Most
<1>6. QED
  BY <1>3, <1>5

\* What is moved back is an integer, of the sign of what is moved.
LEMMA TestMovedInt ==
  ASSUME CardRows, NEW x \in Int
  PROVE  /\ TestMoved(x) \in Int
         /\ x >= 0 => TestMoved(x) >= 0 /\ TestMoved(x) <= x
         /\ x < 0 => TestMoved(x) <= 0 /\ -TestMoved(x) <= TestHeld
                     /\ (-TestMoved(x) >= -x => TestMoved(x) = x /\ TestHeld >= -x)
<1>1. TestTaken \in Int /\ TestHeld \in Nat /\ AskedULXC \in Nat
  BY TestSums, CardSums
<1>2. CASE AskedULXC = 0
  <2>1. TestMoved(x) = 0
    BY <1>2 DEF TestMoved
  <2>2. QED
    BY <2>1, <1>1
<1>3. CASE AskedULXC # 0 /\ x >= 0
  <2>1. TestMoved(x) = Most(0, Least(x, TestTaken))
    BY <1>3 DEF TestMoved
  <2>2. QED
    BY <1>1, <1>3, <2>1 DEF Most, Least
<1>4. CASE AskedULXC # 0 /\ x < 0
  <2>1. TestMoved(x) = -Least(-x, TestHeld)
    BY <1>4, <1>1 DEF TestMoved
  <2>2. QED
    BY <1>1, <1>4, <2>1 DEF Least
<1>5. QED
  BY <1>2, <1>3, <1>4

\* Every settlement is one of the three kinds, with numbers for what it takes.
LEMMA SettleNumbers ==
  ASSUME CardRows, HoldsWithin, NEW e \in CardEvents, SettleAgentCard(e)
  PROVE  \E k \in Nat, h \in Nat, x \in Int, t \in Int : SettlesAs(e, k, h, x, t)
<1>1. HeldMinor \in Nat /\ HeldULXC \in Nat
  BY PartsOf DEF Parts
<1>2. /\ e.kind \in {"capture", "pending", "closed", "refund"}
      /\ e.minor \in Nat
  BY CardConstants
<1>3. PICK k : k = HoldSettled(e)
  OBVIOUS
<1>4. k \in Nat /\ k <= HeldMinor
  <2>1. CASE e.kind = "capture"
    <3>1. k = Least(e.minor, HeldMinor)
      BY <1>3, <2>1 DEF HoldSettled
    <3>2. QED
      BY <1>1, <1>2, <3>1 DEF Least
  <2>2. CASE e.kind \in {"pending", "closed"}
    <3>1. k = Releases(e)
      BY <1>3, <2>2 DEF HoldSettled
    <3>2. QED
      BY <1>1, <1>2, <3>1 DEF Releases, Least
  <2>3. CASE e.kind = "refund"
    <3>1. k = 0
      BY <1>3, <2>3 DEF HoldSettled
    <3>2. QED
      BY <1>1, <3>1
  <2>4. QED
    BY <1>2, <2>1, <2>2, <2>3
<1>5. Ulxc(k) \in Nat
  BY <1>4, Rounds
<1>6. PartOfHold(k) \in Nat
  BY <1>1, <1>5 DEF PartOfHold, Least
<1>7. PICK h \in Nat : h = IF e.kind = "refund" THEN 0 ELSE PartOfHold(k)
  BY <1>6
<1>8. PICK x : x = Settles(e)
  OBVIOUS
<1>9. /\ x \in Int
      /\ \/ e.kind = "refund" /\ k = 0 /\ h = 0 /\ x = Ulxc(e.minor)
         \/ e.kind \in {"pending", "closed"} /\ h = PartOfHold(k) /\ x = h
         \/ /\ e.kind = "capture" /\ k = Least(e.minor, HeldMinor)
            /\ h = PartOfHold(k) /\ x = -Ulxc(e.minor - k)
  <2>1. CASE e.kind = "capture"
    <3>1. /\ x = -Ulxc(e.minor - k) /\ k = Least(e.minor, HeldMinor)
          /\ h = PartOfHold(k)
      BY <1>3, <1>7, <1>8, <2>1 DEF HoldSettled, Settles
    <3>2. e.minor - k \in Nat
      BY <1>1, <1>2, <3>1 DEF Least
    <3>3. Ulxc(e.minor - k) \in Nat
      BY <3>2, Rounds
    <3>4. QED
      BY <2>1, <3>1, <3>3
  <2>2. CASE e.kind \in {"pending", "closed"}
    <3>1. x = PartOfHold(k) /\ h = PartOfHold(k)
      BY <1>3, <1>7, <1>8, <2>2 DEF Settles
    <3>2. QED
      BY <1>6, <2>2, <3>1
  <2>3. CASE e.kind = "refund"
    <3>1. k = 0 /\ h = 0 /\ x = Ulxc(e.minor)
      BY <1>3, <1>7, <1>8, <2>3 DEF HoldSettled, Settles
    <3>2. Ulxc(e.minor) \in Nat
      BY <1>2, Rounds
    <3>3. QED
      BY <2>3, <3>1, <3>2
  <2>4. QED
    BY <1>2, <2>1, <2>2, <2>3
<1>10. PICK t \in Int : t = TestMoved(x)
  BY <1>9, TestMovedInt
<1>11. /\ ~settlement[e].done
       /\ settlement' = [settlement EXCEPT ![e] =
            [done |-> TRUE, holdMinor |-> k, hold |-> h, test |-> t]]
       /\ decision' = decision /\ agentHas' = agentHas + x
       /\ testFunded' = IF x = 0 THEN testFunded ELSE TestAfter(x, t)
  BY <1>3, <1>7, <1>8, <1>10 DEF SettleAgentCard, NotYetSettled
<1>12. SettlesAs(e, k, h, x, t)
  BY <1>4, <1>9, <1>10, <1>11 DEF SettlesAs
<1>13. QED
  BY <1>4, <1>9, <1>12

-----------------------------------------------------------------------------
(* The rows and the hold.                                                  *)

\* The part of the test-funded credits that a written balance keeps.
LEMMA BalanceKeeps ==
  ASSUME NEW t \in Nat, NEW b \in Int
  PROVE  /\ WithinBalance(t, b) \in Nat /\ WithinBalance(t, b) <= t
         /\ t <= b => WithinBalance(t, b) = t
BY DEF WithinBalance, Least, Most

\* A decision keeps the rows and takes nothing off the hold.
LEMMA RowsAndHoldsOfApproval ==
  ASSUME CardRows, HoldsWithin, NEW r \in CardRequests, AuthorizeAgentCard(r)
  PROVE  CardRows' /\ HoldsWithin'
<1>1. PICK u \in Nat : u = Ulxc(Asks[r])
  BY Rounds, CardConstants
<1>2. decision[r] = "none" /\ settlement' = settlement
  BY DEF AuthorizeAgentCard
<1>3. TestHeld \in Nat /\ agentHas \in Int /\ Elsewhere \in Nat /\ testFunded \in Nat
  BY TestSums, CardConstants DEF CardRows
<1>4. CASE CardAllows(u)
  <2>1. /\ decision' = [decision EXCEPT ![r] = "approved"]
        /\ agentHas' = agentHas - u
        /\ testFunded' = WithinBalance(TestHeld - u, agentHas + Elsewhere - u)
        /\ TestHeld >= u
    BY <1>1, <1>4 DEF AuthorizeAgentCard, CardAllows
  <2>2. TestHeld - u \in Nat /\ agentHas + Elsewhere - u \in Int
    BY <1>3, <2>1
  <2>3. testFunded' \in Nat
    BY <2>1, <2>2, BalanceKeeps
  <2>4. CardRows'
    BY <1>2, <1>3, <2>1, <2>3 DEF CardRows
  <2>5. /\ AskedMinor' = AskedMinor + Asks[r] /\ AskedULXC' = AskedULXC + u
        /\ SettledMinor' = SettledMinor /\ SettledULXC' = SettledULXC
    BY <1>1, <1>2, <2>1, ApprovalAdds
  <2>6. /\ AskedMinor \in Nat /\ AskedULXC \in Nat /\ Asks[r] \in Nat
        /\ SettledMinor \in Nat /\ SettledULXC \in Nat
    BY CardSums, CardConstants
  <2>7. HoldsWithin'
    BY <2>5, <2>6 DEF HoldsWithin
  <2>8. QED
    BY <2>4, <2>7
<1>5. CASE ~CardAllows(u)
  <2>1. /\ decision' = [decision EXCEPT ![r] = "declined"]
        /\ agentHas' = agentHas /\ testFunded' = testFunded
    BY <1>1, <1>5 DEF AuthorizeAgentCard
  <2>2. CardRows'
    BY <1>2, <1>3, <2>1 DEF CardRows
  <2>3. ApprovedAsks' = ApprovedAsks
    BY <1>2, <2>1 DEF ApprovedAsks, CardRows
  <2>4. /\ AskedMinor' = AskedMinor /\ AskedULXC' = AskedULXC
        /\ SettledMinor' = SettledMinor /\ SettledULXC' = SettledULXC
    BY <1>2, <2>3 DEF AskedMinor, AskedULXC, SettledMinor, SettledULXC,
       MinorColumn, HoldColumn
  <2>5. HoldsWithin'
    BY <2>4 DEF HoldsWithin
  <2>6. QED
    BY <2>2, <2>5
<1>6. QED
  BY <1>4, <1>5

\* A settlement takes no more than is held.
LEMMA RowsAndHoldsOfSettlement ==
  ASSUME CardRows, HoldsWithin, NEW e \in CardEvents,
         NEW k \in Nat, NEW h \in Nat, NEW x \in Int, NEW t \in Int,
         SettlesAs(e, k, h, x, t)
  PROVE  /\ CardRows' /\ HoldsWithin' /\ h <= HeldULXC
         /\ HeldMinor' = HeldMinor - k /\ HeldULXC' = HeldULXC - h
<1>1. agentHas \in Int /\ Elsewhere \in Nat /\ testFunded \in Nat /\ TestHeld \in Nat
  BY TestSums, CardConstants DEF CardRows
<1>2. HeldMinor \in Nat /\ HeldULXC \in Nat
  BY PartsOf DEF Parts
<1>3. testFunded' \in Nat
  <2>1. CASE x = 0
    BY <1>1, <2>1 DEF SettlesAs
  <2>2. CASE x > 0
    <3>1. t >= 0
      BY <2>2, TestMovedInt DEF SettlesAs
    <3>2. testFunded' = WithinBalance(testFunded, agentHas + Elsewhere + x) + t
      BY <2>2 DEF SettlesAs, TestAfter
    <3>3. WithinBalance(testFunded, agentHas + Elsewhere + x) \in Nat
      <4>1. agentHas + Elsewhere + x \in Int
        BY <1>1
      <4>2. QED
        BY <1>1, <4>1, BalanceKeeps
    <3>4. QED
      BY <3>1, <3>2, <3>3
  <2>3. CASE x < 0
    <3>1. -t <= TestHeld
      BY <2>3, TestMovedInt DEF SettlesAs
    <3>2. testFunded' = WithinBalance(TestHeld + t, agentHas + Elsewhere + x)
      BY <2>3 DEF SettlesAs, TestAfter
    <3>3. TestHeld + t \in Nat /\ agentHas + Elsewhere + x \in Int
      BY <1>1, <3>1
    <3>4. QED
      BY <3>2, <3>3, BalanceKeeps
  <2>4. QED
    BY <2>1, <2>2, <2>3
<1>4. CardRows'
  <2>1. agentHas' \in Int /\ decision' = decision
    BY <1>1 DEF SettlesAs
  <2>2. settlement' \in [CardEvents -> SettlementRows]
    BY DEF SettlesAs, CardRows, SettlementRows
  <2>3. \A d \in CardEvents : ~settlement'[d].done => settlement'[d] = NotSettled
    BY DEF SettlesAs, CardRows
  <2>4. QED
    BY <1>3, <2>1, <2>2, <2>3 DEF CardRows
<1>5. h <= HeldULXC
  <2>1. CASE e.kind = "refund"
    BY <1>2, <2>1 DEF SettlesAs
  <2>2. CASE e.kind # "refund"
    <3>1. h = IF k = HeldMinor THEN HeldULXC ELSE Least(Ulxc(k), HeldULXC)
      BY <2>2 DEF SettlesAs, PartOfHold
    <3>2. k <= HeldMinor
      BY DEF SettlesAs
    <3>3. QED
      BY <1>2, <3>1, <3>2, PartRounds
  <2>3. QED
    BY <2>1, <2>2
<1>6. /\ SettledMinor' = SettledMinor + k /\ SettledULXC' = SettledULXC + h
      /\ AskedMinor' = AskedMinor /\ AskedULXC' = AskedULXC
  BY SettlementAdds DEF SettlesAs
<1>7. /\ SettledMinor \in Nat /\ SettledULXC \in Nat
      /\ AskedMinor \in Nat /\ AskedULXC \in Nat
      /\ HeldMinor = AskedMinor - SettledMinor /\ HeldULXC = AskedULXC - SettledULXC
      /\ k <= HeldMinor
  BY CardSums, HeldIs DEF SettlesAs
<1>8. HoldsWithin'
  BY <1>5, <1>6, <1>7 DEF HoldsWithin
<1>9. /\ HeldMinor' = AskedMinor' - SettledMinor'
      /\ HeldULXC' = AskedULXC' - SettledULXC'
  <2>1. /\ HeldMinor' = Most(0, AskedMinor' - SettledMinor')
        /\ HeldULXC' = Most(0, AskedULXC' - SettledULXC')
    BY DEF HeldMinor, HeldULXC, AskedMinor, AskedULXC, SettledMinor, SettledULXC,
       MinorColumn, HoldColumn
  <2>2. AskedMinor' - SettledMinor' \in Nat /\ AskedULXC' - SettledULXC' \in Nat
    BY <1>5, <1>6, <1>7
  <2>3. QED
    BY <2>1, <2>2 DEF Most
<1>10. QED
  BY <1>4, <1>5, <1>6, <1>7, <1>8, <1>9

-----------------------------------------------------------------------------
(* The rounding of every step.                                             *)

\* An approval adds at most one credit of rounding, a refusal none.
LEMMA RoundingOfApproval ==
  ASSUME CardBookInv, NEW r \in CardRequests, AuthorizeAgentCard(r)
  PROVE  WithinRounding'
<1>1. CardRows /\ HoldsWithin /\ WithinRounding /\ CardRows' /\ HoldsWithin'
  BY RowsAndHoldsOfApproval DEF CardBookInv
<1>2. Parts /\ Parts'
  BY <1>1, PartsOf, PTL
<1>3. PICK u \in Nat : u = Ulxc(Asks[r])
  BY Rounds, CardConstants
<1>4. decision[r] = "none" /\ settlement' = settlement
  BY DEF AuthorizeAgentCard
<1>5. CASE CardAllows(u)
  <2>1. /\ decision' = [decision EXCEPT ![r] = "approved"]
        /\ agentHas' = agentHas - u
    BY <1>3, <1>5 DEF AuthorizeAgentCard
  <2>2. /\ AskedMinor' = AskedMinor + Asks[r] /\ AskedULXC' = AskedULXC + u
        /\ SettledMinor' = SettledMinor /\ SettledULXC' = SettledULXC
        /\ CardTotal("capture")' = CardTotal("capture")
        /\ CardTotal("refund")' = CardTotal("refund")
        /\ CardSteps' = CardSteps + 1
    BY <1>1, <1>3, <1>4, <2>1, ApprovalAdds
  <2>3. /\ HeldMinor = AskedMinor - SettledMinor /\ HeldULXC = AskedULXC - SettledULXC
        /\ HeldMinor' = AskedMinor' - SettledMinor'
        /\ HeldULXC' = AskedULXC' - SettledULXC'
    BY <1>1, HeldIs, HeldIsPrimed
  <2>4. PICK o \in Int, hm \in Int, hu \in Int, c \in Int, f \in Int, a \in Nat :
          /\ o = AgentHolds - agentHas /\ hm = HeldMinor /\ hu = HeldULXC
          /\ c = CardTotal("capture") /\ f = CardTotal("refund") /\ a = Asks[r]
    BY <1>2, CardConstants DEF Parts
  <2>5. /\ (AgentHolds - agentHas)' = o + u /\ HeldMinor' = hm + a
        /\ HeldULXC' = hu + u
    <3>1. /\ AskedMinor \in Nat /\ AskedULXC \in Nat /\ SettledMinor \in Nat
          /\ SettledULXC \in Nat /\ agentHas \in Int /\ AgentHolds \in Nat
      BY <1>1, CardSums, CardConstants DEF CardRows
    <3>2. QED
      BY <2>1, <2>2, <2>3, <2>4, <3>1
  <2>6. /\ Off = Den(o) - Num(hm) - Num(c) + Num(f)
        /\ OffUnheld = Den(o) - Den(hu) - Num(c) + Num(f)
        /\ Off' = Den(o + u) - Num(hm + a) - Num(c) + Num(f)
        /\ OffUnheld' = Den(o + u) - Den(hu + u) - Num(c) + Num(f)
    <3>1. /\ Off = Den(o) - Num(hm) - Num(c) + Num(f)
          /\ OffUnheld = Den(o) - Den(hu) - Num(c) + Num(f)
      BY <1>2, <2>4 DEF Parts
    <3>2. /\ Off' = Den(o + u) - Num(hm + a) - Num(c) + Num(f)
          /\ OffUnheld' = Den(o + u) - Den(hu + u) - Num(c) + Num(f)
      BY <1>2, <2>2, <2>4, <2>5 DEF Parts, Num, Den
    <3>3. QED
      BY <3>1, <3>2
  <2>7. a \in Int /\ u \in Int
    OBVIOUS
  <2>8. /\ Den(o + u) = Den(o) + Den(u) /\ Num(hm + a) = Num(hm) + Num(a)
        /\ Den(hu + u) = Den(hu) + Den(u)
    BY <2>7, Scales
  <2>9. /\ Den(o) \in Int /\ Den(u) \in Int /\ Den(hu) \in Int
        /\ Num(hm) \in Int /\ Num(a) \in Int /\ Num(c) \in Int /\ Num(f) \in Int
    BY <2>7, Scales
  <2>10. Num(a) <= Den(u) /\ Den(u) < Num(a) + RateDen /\ RateDen \in Nat
    BY <1>3, <2>4, Rounds, CardConstants
  <2>11. Near(Off', Off, OffUnheld) /\ Near(OffUnheld', Off, OffUnheld)
    BY <2>6, <2>8, <2>9, <2>10 DEF Near
  <2>12. QED
    BY <1>1, <1>2, <2>2, <2>11, RoundingKept
<1>6. CASE ~CardAllows(u)
  <2>1. decision' = [decision EXCEPT ![r] = "declined"] /\ agentHas' = agentHas
    BY <1>3, <1>6 DEF AuthorizeAgentCard
  <2>2. ApprovedAsks' = ApprovedAsks
    BY <1>1, <1>4, <2>1 DEF ApprovedAsks, CardRows
  <2>3. QED
    BY <1>1, <1>4, <2>1, <2>2 DEF WithinRounding, Off, OffUnheld, HeldMinor, HeldULXC,
       AskedULXC, CardTotal, SettledOf, CardSteps, DoneEvents, Num, Den
<1>7. QED
  BY <1>5, <1>6

\* A settlement adds at most one credit of rounding: what it takes off the hold
\* is converted, or is the rest of the hold, and then the two offs meet.
LEMMA RoundingOfSettlement ==
  ASSUME CardBookInv, NEW e \in CardEvents,
         NEW k \in Nat, NEW h \in Nat, NEW x \in Int, NEW t \in Int,
         SettlesAs(e, k, h, x, t)
  PROVE  WithinRounding'
<1>1. /\ CardRows /\ HoldsWithin /\ WithinRounding /\ CardRows' /\ HoldsWithin'
      /\ h <= HeldULXC /\ HeldMinor' = HeldMinor - k /\ HeldULXC' = HeldULXC - h
  BY RowsAndHoldsOfSettlement DEF CardBookInv
<1>2. Parts /\ Parts'
  BY <1>1, PartsOf, PTL
<1>3. /\ CardSteps' = CardSteps + 1
      /\ CardTotal("capture")' = CardTotal("capture")
           + (IF e.kind = "capture" THEN e.minor ELSE 0)
      /\ CardTotal("refund")' = CardTotal("refund")
           + (IF e.kind = "refund" THEN e.minor ELSE 0)
  BY <1>1, SettlementAdds DEF SettlesAs
<1>4. PICK o \in Int, hm \in Nat, hu \in Nat, c \in Int, f \in Int, m \in Nat :
        /\ o = AgentHolds - agentHas /\ hm = HeldMinor /\ hu = HeldULXC
        /\ c = CardTotal("capture") /\ f = CardTotal("refund") /\ m = e.minor
  BY <1>2, CardConstants DEF Parts
<1>5. PICK dc \in Nat, df \in Nat :
        /\ dc = (IF e.kind = "capture" THEN m ELSE 0)
        /\ df = (IF e.kind = "refund" THEN m ELSE 0)
  OBVIOUS
<1>6. /\ (AgentHolds - agentHas)' = o - x /\ HeldMinor' = hm - k /\ HeldULXC' = hu - h
      /\ CardTotal("capture")' = c + dc /\ CardTotal("refund")' = f + df
  <2>1. agentHas' = agentHas + x /\ agentHas \in Int /\ AgentHolds \in Nat
    BY <1>1, CardConstants DEF SettlesAs, CardRows
  <2>2. QED
    BY <1>1, <1>3, <1>4, <1>5, <2>1
<1>7. PICK off, unheld : off = Off /\ unheld = OffUnheld
  OBVIOUS
<1>8. PICK new, left : new = Off' /\ left = OffUnheld'
  OBVIOUS
<1>9. /\ off = Den(o) - Num(hm) - Num(c) + Num(f)
      /\ unheld = Den(o) - Den(hu) - Num(c) + Num(f)
  BY <1>2, <1>4, <1>7 DEF Parts
<1>10. /\ new = Den(o - x) - Num(hm - k) - Num(c + dc) + Num(f + df)
       /\ left = Den(o - x) - Den(hu - h) - Num(c + dc) + Num(f + df)
  BY <1>2, <1>6, <1>8 DEF Parts, Num, Den
<1>11. /\ k \in Int /\ h \in Int /\ hm \in Int /\ hu \in Int /\ m \in Int
       /\ dc \in Int /\ df \in Int
  OBVIOUS
<1>12. Den(o - x) = Den(o) - Den(x) /\ Den(hu - h) = Den(hu) - Den(h)
  BY <1>11, Scales
<1>13. /\ Num(hm - k) = Num(hm) - Num(k) /\ Num(c + dc) = Num(c) + Num(dc)
       /\ Num(f + df) = Num(f) + Num(df)
  BY <1>11, Scales
<1>14. /\ Num(hm) \in Int /\ Num(k) \in Int /\ Num(c) \in Int /\ Num(f) \in Int
       /\ Num(m) \in Int /\ Num(dc) \in Int /\ Num(df) \in Int
  BY <1>11, Scales
<1>15. Den(o) \in Int /\ Den(x) \in Int /\ Den(hu) \in Int /\ Den(h) \in Int
  BY <1>11, Scales
<1>16. /\ new = off - Den(x) + Num(k) - Num(dc) + Num(df)
       /\ left = unheld - Den(x) + Den(h) - Num(dc) + Num(df)
       /\ off = unheld + Den(hu) - Num(hm)
       /\ off \in Int /\ unheld \in Int
  BY <1>9, <1>10, <1>12, <1>13, <1>14, <1>15
<1>17. RateDen \in Nat /\ Num(0) = 0 /\ Den(0) = 0
  BY Scales, CardConstants
<1>18. Num(k) <= Num(hm)
  <2>1. hm - k \in Nat
    BY <1>4 DEF SettlesAs
  <2>2. Num(hm - k) >= 0
    BY <2>1, Scales
  <2>3. QED
    BY <1>13, <1>14, <2>2
<1>19. e.kind # "refund" =>
         \/ k = hm /\ h = hu
         \/ k < hm /\ Num(k) <= Den(h) /\ Den(h) < Num(k) + RateDen
         \/ k < hm /\ h = hu /\ Den(h) <= Num(k)
  <2>1. HAVE e.kind # "refund"
  <2>2. h = (IF k = hm THEN hu ELSE Least(Ulxc(k), hu)) /\ k <= hm
    BY <1>4, <2>1 DEF SettlesAs, PartOfHold
  <2>3. QED
    BY <2>2, PartRounds
<1>20. Near(new, off, unheld) /\ Near(left, off, unheld)
  <2>1. CASE e.kind = "refund"
    <3>1. k = 0 /\ h = 0 /\ x = Ulxc(m) /\ dc = 0 /\ df = m
      BY <1>4, <1>5, <2>1 DEF SettlesAs
    <3>2. Num(m) <= Den(x) /\ Den(x) < Num(m) + RateDen
      BY <3>1, Rounds
    <3>3. new = off - Den(x) + Num(m) /\ left = unheld - Den(x) + Num(m)
      BY <1>14, <1>15, <1>16, <1>17, <3>1
    <3>4. QED
      BY <1>14, <1>15, <1>16, <1>17, <3>2, <3>3 DEF Near
  <2>2. CASE e.kind \in {"pending", "closed"}
    <3>1. x = h /\ dc = 0 /\ df = 0
      BY <1>5, <2>2 DEF SettlesAs
    <3>2. new = off - Den(h) + Num(k) /\ left = unheld
      BY <1>14, <1>15, <1>16, <1>17, <3>1
    <3>3. QED
      BY <1>14, <1>15, <1>16, <1>17, <1>18, <1>19, <2>2, <3>2 DEF Near
  <2>3. CASE e.kind = "capture"
    <3>1. PICK y \in Nat : y = m - k /\ x = -Ulxc(y) /\ (k < hm => y = 0)
      <4>1. k = Least(m, hm) /\ x = -Ulxc(m - k)
        BY <1>4, <2>3 DEF SettlesAs
      <4>2. m - k \in Nat /\ (k < hm => m - k = 0)
        BY <4>1 DEF Least
      <4>3. QED
        BY <4>1, <4>2
    <3>2. PICK u \in Nat : u = Ulxc(y) /\ Num(y) <= Den(u) /\ Den(u) < Num(y) + RateDen
      BY Rounds
    <3>3. Den(x) = -Den(u)
      <4>1. u \in Int /\ 0 \in Int /\ x = 0 - u
        BY <3>1, <3>2
      <4>2. Den(0 - u) = Den(0) - Den(u) /\ Den(u) \in Int
        BY <4>1, Scales
      <4>3. QED
        BY <1>17, <4>1, <4>2
    <3>4. Num(m) = Num(k) + Num(y) /\ Num(y) \in Int /\ Den(u) \in Int
      <4>1. y \in Int /\ m = k + y /\ u \in Int
        BY <3>1
      <4>2. Num(k + y) = Num(k) + Num(y)
        BY <1>11, <4>1, Scales
      <4>3. QED
        BY <4>1, <4>2, Scales
    <3>5. dc = m /\ df = 0
      BY <1>5, <2>3
    <3>6. /\ new = off + Den(u) - Num(y)
          /\ left = unheld + Den(u) - Num(y) + Den(h) - Num(k)
      BY <1>14, <1>15, <1>16, <1>17, <3>3, <3>4, <3>5
    <3>7. Near(new, off, unheld)
      BY <1>14, <1>15, <1>16, <1>17, <3>2, <3>4, <3>6 DEF Near
    <3>8. CASE k = hm /\ h = hu
      <4>1. left = off + Den(u) - Num(y)
        BY <1>14, <1>15, <1>16, <3>4, <3>6, <3>8
      <4>2. Near(left, off, unheld)
        BY <1>16, <1>17, <3>2, <3>4, <4>1 DEF Near
      <4>3. QED
        BY <3>7, <4>2
    <3>9. CASE k < hm
      <4>1. y = 0 /\ u = 0
        <5>1. y = 0
          BY <3>1, <3>9
        <5>2. Ulxc(0) = 0
          BY NothingConverts
        <5>3. QED
          BY <3>2, <5>1, <5>2
      <4>2. left = unheld + Den(h) - Num(k)
        BY <1>14, <1>15, <1>16, <1>17, <3>6, <4>1
      <4>3. \/ Num(k) <= Den(h) /\ Den(h) < Num(k) + RateDen
            \/ h = hu /\ Den(h) <= Num(k)
        BY <1>19, <2>3, <3>9
      <4>4. Near(left, off, unheld)
        BY <1>14, <1>15, <1>16, <1>17, <1>18, <4>2, <4>3 DEF Near
      <4>5. QED
        BY <3>7, <4>4
    <3>10. QED
      BY <1>19, <2>3, <3>8, <3>9
  <2>4. QED
    BY <2>1, <2>2, <2>3 DEF SettlesAs
<1>21. QED
  BY <1>1, <1>2, <1>3, <1>7, <1>8, <1>20, RoundingKept

-----------------------------------------------------------------------------
\* Nothing is off at first.
LEMMA CardBookInit == CardInit => CardBookInv
<1> SUFFICES ASSUME CardInit PROVE CardBookInv
  OBVIOUS
<1>1. CardRows
  BY CardConstants DEF CardInit, CardRows, SettlementRows, NotSettled
<1>2. ApprovedAsks = {} /\ DoneEvents = {}
  BY DEF CardInit, ApprovedAsks, DoneEvents, NotSettled
<1>3. SettledMinor = 0 /\ SettledULXC = 0
  <2>1. /\ \A e \in CardEvents : MinorColumn[e] = 0
        /\ \A e \in CardEvents : HoldColumn[e] = 0
    BY DEF CardInit, MinorColumn, HoldColumn, NotSettled
  <2>2. QED
    BY <1>1, <2>1, CardSums, TotalZero DEF SettledMinor, SettledULXC
<1>4. AskedMinor = 0 /\ AskedULXC = 0
  <2>1. Asks \in [CardRequests -> Nat]
    BY CardConstants
  <2>2. [r \in CardRequests |-> Ulxc(Asks[r])] \in [CardRequests -> Nat]
    BY <2>1, Rounds
  <2>3. \A r \in CardRequests : r \notin ApprovedAsks
    BY <1>2
  <2>4. AskedMinor = 0
    BY <2>1, <2>3, TotalOfZero DEF AskedMinor
  <2>5. AskedULXC = 0
    BY <2>2, <2>3, TotalOfZero DEF AskedULXC
  <2>6. QED
    BY <2>4, <2>5
<1>5. CardTotal("capture") = 0 /\ CardTotal("refund") = 0
  <2>1. [e \in CardEvents |-> e.minor] \in [CardEvents -> Nat]
    BY CardConstants
  <2>2. \A e \in CardEvents : e \notin SettledOf("capture") /\ e \notin SettledOf("refund")
    BY DEF CardInit, SettledOf, NotSettled
  <2>3. QED
    BY <2>1, <2>2, TotalOfZero DEF CardTotal
<1>6. HoldsWithin
  BY <1>3, <1>4 DEF HoldsWithin
<1>7. CardSteps = 0
  BY <1>2, FS_EmptySet DEF CardSteps
<1>8. HeldMinor = 0 /\ HeldULXC = 0
  BY <1>1, <1>3, <1>4, <1>6, HeldIs
<1>9. AgentHolds - agentHas = 0
  BY CardConstants DEF CardInit
<1>10. Num(0) = 0 /\ Den(0) = 0
  BY Scales
<1>11. /\ Off = Den(0) - Num(0) - Num(0) + Num(0)
       /\ OffUnheld = Den(0) - Den(0) - Num(0) + Num(0)
  BY <1>1, <1>5, <1>6, <1>8, <1>9, PartsOf DEF Parts
<1>12. Off = 0 /\ OffUnheld = 0
  BY <1>10, <1>11
<1>13. WithinRounding
  BY <1>7, <1>10, <1>12 DEF WithinRounding
<1>14. QED
  BY <1>1, <1>6, <1>13 DEF CardBookInv

\* Every step keeps the account within the rounding.
LEMMA CardBookStep == CardBookInv /\ [CardNext]_cardVars => CardBookInv'
<1> SUFFICES ASSUME CardBookInv, [CardNext]_cardVars PROVE CardBookInv'
  OBVIOUS
<1>1. CASE \E r \in CardRequests : AuthorizeAgentCard(r)
  BY <1>1, RowsAndHoldsOfApproval, RoundingOfApproval DEF CardBookInv
<1>2. CASE \E e \in CardEvents : SettleAgentCard(e)
  <2>1. PICK e \in CardEvents : SettleAgentCard(e)
    BY <1>2
  <2>2. PICK k \in Nat, h \in Nat, x \in Int, t \in Int : SettlesAs(e, k, h, x, t)
    BY <2>1, SettleNumbers DEF CardBookInv
  <2>3. CardRows' /\ HoldsWithin'
    BY <2>2, RowsAndHoldsOfSettlement DEF CardBookInv
  <2>4. WithinRounding'
    BY <2>2, RoundingOfSettlement
  <2>5. QED
    BY <2>3, <2>4 DEF CardBookInv
<1>3. CASE FreezeAgentCard \/ UNCHANGED cardVars
  <2>1. /\ agentHas' = agentHas /\ testFunded' = testFunded
        /\ decision' = decision /\ settlement' = settlement
    BY <1>3 DEF FreezeAgentCard, cardVars
  <2>2. CardRows'
    BY <2>1 DEF CardBookInv, CardRows
  <2>3. HoldsWithin'
    BY <2>1 DEF CardBookInv, HoldsWithin, SettledMinor, SettledULXC, AskedMinor,
       AskedULXC, ApprovedAsks, MinorColumn, HoldColumn
  <2>4. WithinRounding'
    BY <2>1 DEF CardBookInv, WithinRounding, Off, OffUnheld, HeldMinor, HeldULXC,
       AskedULXC, ApprovedAsks, CardTotal, SettledOf, CardSteps, DoneEvents, Num, Den
  <2>5. QED
    BY <2>2, <2>3, <2>4 DEF CardBookInv
<1>4. QED
  BY <1>1, <1>2, <1>3 DEF CardNext

\* That is what the runs check.
LEMMA CardBookFollows == CardBookInv => CardBookBalances
<1> SUFFICES ASSUME CardBookInv PROVE CardBookBalances
  OBVIOUS
<1>1. CardRows /\ HoldsWithin /\ WithinRounding
  BY DEF CardBookInv
<1>2. Parts
  BY <1>1, PartsOf
<1>3. PICK n \in Nat : n = CardSteps
  BY <1>2 DEF Parts
<1>4. PICK off : off = Off
  OBVIOUS
<1>5. -Den(n) <= off /\ off <= Den(n)
  BY <1>1, <1>3, <1>4 DEF WithinRounding
<1>6. Den(n) \in Int
  <2>1. n \in Int
    OBVIOUS
  <2>2. QED
    BY <2>1, Scales
<1>7. off \in Int
  <2>1. PICK o \in Int, x \in Int :
          /\ o = AgentHolds - agentHas
          /\ x = HeldMinor + CardTotal("capture") - CardTotal("refund")
    BY <1>2 DEF Parts
  <2>2. Den(o) \in Int /\ Num(x) \in Int
    BY Scales
  <2>3. QED
    BY <1>4, <2>1, <2>2 DEF Off
<1>8. off \in -Den(n)..Den(n)
  BY <1>5, <1>6, <1>7
<1>9. QED
  BY <1>3, <1>4, <1>8 DEF CardBookBalances, Off, Den, Num, CardSteps, DoneEvents

\* In whatever order and however often Stripe says what became of an
\* authorisation, the agent is out what is still held plus what was captured
\* less what was refunded, but for one µLXC of rounding per request and
\* settlement (AuthorizeAgentCard, SettleAgentCard): for every rate, amount and
\* number of events.
THEOREM CardBookAlwaysBalances == CardSpec => []CardBookBalances
<1>1. CardSpec => []CardBookInv
  BY CardBookInit, CardBookStep, PTL DEF CardSpec
<1>2. QED
  BY <1>1, CardBookFollows, PTL

-----------------------------------------------------------------------------
(* Test money.                                                             *)

Unforced == \A e \in CardEvents : ~Forced(e)

\* Until a capture is forced, the test-funded column is within the balance: no
\* written balance cuts it.
TestWithin == Unforced => testFunded <= agentHas + Elsewhere

CardTestInv == CardRows /\ HoldsWithin /\ TestMoneyKept /\ TestWithin

\* A forced capture stays forced: a settlement on record never changes.
LEMMA ForcedStays ==
  ASSUME NEW e \in CardEvents, ~settlement[e].done,
         \A d \in CardEvents \ {e} : settlement'[d] = settlement[d], Unforced'
  PROVE  Unforced /\ ~Forced(e)'
BY DEF Unforced, Forced, SettledOf

\* What a step leaves of the test money is no more than it was, and all of it
\* unless a capture was forced.
KeepsTest(taken, now, before) ==
  /\ taken = TestTaken' /\ now = testFunded' /\ before = TestTaken
  /\ Unforced' => /\ Unforced /\ now + taken = testFunded + before
                  /\ now <= agentHas' + Elsewhere

LEMMA TestKept ==
  ASSUME CardTestInv, NEW taken \in Int, NEW now \in Nat, NEW before \in Int,
         KeepsTest(taken, now, before), now + taken <= testFunded + before
  PROVE  TestMoneyKept' /\ TestWithin'
<1>1. testFunded \in Nat /\ CardTestFunded \in Nat
  BY CardConstants DEF CardTestInv, CardRows
<1>2. testFunded + before <= CardTestFunded
  BY DEF CardTestInv, TestMoneyKept, KeepsTest
<1>3. Unforced => testFunded + before = CardTestFunded
  BY DEF CardTestInv, TestMoneyKept, Unforced, KeepsTest
<1>4. now + taken <= CardTestFunded
  BY <1>1, <1>2
<1>5. Unforced' => now + taken = CardTestFunded
  BY <1>3 DEF KeepsTest
<1>6. TestMoneyKept'
  BY <1>4, <1>5 DEF TestMoneyKept, Unforced, KeepsTest
<1>7. TestWithin'
  BY DEF TestWithin, KeepsTest
<1>8. QED
  BY <1>6, <1>7

\* An approval takes test-funded credits only.
LEMMA TestOfApproval ==
  ASSUME CardTestInv, NEW r \in CardRequests, AuthorizeAgentCard(r)
  PROVE  TestMoneyKept' /\ TestWithin'
<1>1. CardRows /\ HoldsWithin /\ CardRows'
  BY RowsAndHoldsOfApproval DEF CardTestInv
<1>2. PICK u \in Nat : u = Ulxc(Asks[r])
  BY Rounds, CardConstants
<1>3. decision[r] = "none" /\ settlement' = settlement
  BY DEF AuthorizeAgentCard
<1>4. Unforced' => Unforced
  BY <1>3 DEF Unforced, Forced, SettledOf
<1>5. /\ TestTaken \in Int /\ TestHeld \in Nat /\ agentHas \in Int /\ Elsewhere \in Nat
      /\ testFunded \in Nat
  BY <1>1, TestSums, CardConstants DEF CardRows
<1>6. TestTaken = AskedULXC - NetTotal(TestColumn)
      /\ TestTaken' = AskedULXC' - NetTotal(TestColumn)'
  BY DEF TestTaken, TestColumn
<1>7. CASE CardAllows(u)
  <2>1. /\ decision' = [decision EXCEPT ![r] = "approved"]
        /\ agentHas' = agentHas - u
        /\ testFunded' = WithinBalance(TestHeld - u, agentHas + Elsewhere - u)
        /\ TestHeld >= u /\ agentHas + Elsewhere >= u
    BY <1>2, <1>7 DEF AuthorizeAgentCard, CardAllows
  <2>2. /\ AskedULXC' = AskedULXC + u /\ NetTotal(TestColumn)' = NetTotal(TestColumn)
        /\ AskedULXC \in Nat
    BY <1>1, <1>2, <1>3, <2>1, ApprovalAdds, CardSums
  <2>3. TestTaken' = TestTaken + u
    <3>1. NetTotal(TestColumn) \in Int
      BY <1>1, NetTestInt
    <3>2. QED
      BY <1>6, <2>2, <3>1
  <2>4. /\ TestHeld <= testFunded /\ TestHeld <= agentHas + Elsewhere
        /\ testFunded <= agentHas + Elsewhere => TestHeld = testFunded
    BY <1>5, <2>1 DEF TestHeld, Least, Most
  <2>5. testFunded' = TestHeld - u
    <3>1. /\ TestHeld - u \in Nat /\ agentHas + Elsewhere - u \in Int
          /\ TestHeld - u <= agentHas + Elsewhere - u
      BY <1>5, <2>1, <2>4
    <3>2. QED
      BY <2>1, <3>1, BalanceKeeps
  <2>6. PICK taken \in Int, now \in Nat, before \in Int :
          taken = TestTaken' /\ now = testFunded' /\ before = TestTaken
    BY <1>5, <2>1, <2>3, <2>5
  <2>7. now + taken <= testFunded + before
    BY <1>5, <2>3, <2>4, <2>5, <2>6
  <2>8. Unforced' => /\ Unforced /\ now + taken = testFunded + before
                     /\ now <= agentHas' + Elsewhere
    <3>1. Unforced => testFunded <= agentHas + Elsewhere
      BY DEF CardTestInv, TestWithin
    <3>2. QED
      BY <1>4, <1>5, <2>1, <2>3, <2>4, <2>5, <2>6, <3>1
  <2>9. QED
    BY <2>6, <2>7, <2>8, TestKept DEF KeepsTest
<1>8. CASE ~CardAllows(u)
  <2>1. /\ decision' = [decision EXCEPT ![r] = "declined"]
        /\ agentHas' = agentHas /\ testFunded' = testFunded
    BY <1>2, <1>8 DEF AuthorizeAgentCard
  <2>2. ApprovedAsks' = ApprovedAsks
    BY <1>1, <1>3, <2>1 DEF ApprovedAsks, CardRows
  <2>3. TestTaken' = TestTaken
    BY <1>3, <2>2 DEF TestTaken, AskedULXC
  <2>4. Unforced' <=> Unforced
    BY <1>3 DEF Unforced, Forced, SettledOf
  <2>5. QED
    BY <1>4, <2>1, <2>3, <2>4 DEF CardTestInv, TestMoneyKept, TestWithin, Unforced
<1>9. QED
  BY <1>7, <1>8

\* A settlement gives back at most what it moves, and a debit that is not forced
\* takes test-funded credits only.
LEMMA TestOfSettlement ==
  ASSUME CardTestInv, NEW e \in CardEvents,
         NEW k \in Nat, NEW h \in Nat, NEW x \in Int, NEW t \in Int,
         SettlesAs(e, k, h, x, t)
  PROVE  TestMoneyKept' /\ TestWithin'
<1>1. CardRows /\ HoldsWithin /\ CardRows'
  BY RowsAndHoldsOfSettlement DEF CardTestInv
<1>2. /\ TestTaken \in Int /\ TestHeld \in Nat /\ agentHas \in Int /\ Elsewhere \in Nat
      /\ testFunded \in Nat /\ testFunded' \in Nat
  BY <1>1, TestSums, CardConstants DEF CardRows
<1>3. TestTaken' = TestTaken - t
  <2>1. /\ TestTaken = AskedULXC - NetTotal(TestColumn)
        /\ TestTaken' = AskedULXC' - NetTotal(TestColumn)'
    BY DEF TestTaken, TestColumn
  <2>2. /\ AskedULXC' = AskedULXC /\ NetTotal(TestColumn) \in Int
        /\ NetTotal(TestColumn)' = NetTotal(TestColumn) + t
    BY <1>1, SettlementAdds DEF SettlesAs
  <2>3. AskedULXC \in Nat
    BY <1>1, CardSums
  <2>4. QED
    BY <2>1, <2>2, <2>3
<1>4. PICK taken \in Int, now \in Nat, before \in Int :
        taken = TestTaken' /\ now = testFunded' /\ before = TestTaken
  BY <1>2, <1>3
<1>5. PICK worth \in Int : worth = agentHas + Elsewhere /\ agentHas' + Elsewhere = worth + x
  BY <1>2 DEF SettlesAs
<1>6. /\ settlement'[e] = [done |-> TRUE, holdMinor |-> k, hold |-> h, test |-> t]
      /\ \A d \in CardEvents \ {e} : settlement'[d] = settlement[d]
      /\ ~settlement[e].done
  BY <1>1 DEF SettlesAs, CardRows
<1>7. Unforced' => Unforced /\ ~Forced(e)'
  BY <1>6, ForcedStays
<1>8. Unforced => testFunded <= worth
  BY <1>5 DEF CardTestInv, TestWithin
<1>9. t = TestMoved(x)
  BY DEF SettlesAs
<1>10. CASE x = 0
  <2>1. t = 0
    BY <1>1, <1>9, <1>10, TestMovedInt
  <2>2. now = testFunded /\ taken = before
    BY <1>2, <1>3, <1>4, <1>10, <2>1 DEF SettlesAs
  <2>3. Unforced' => /\ Unforced /\ now + taken = testFunded + before
                     /\ now <= agentHas' + Elsewhere
    BY <1>2, <1>5, <1>7, <1>8, <1>10, <2>2
  <2>4. QED
    BY <1>2, <1>4, <2>2, <2>3, TestKept DEF KeepsTest
<1>11. CASE x > 0
  <2>1. t >= 0 /\ t <= x
    BY <1>1, <1>9, <1>11, TestMovedInt
  <2>2. now = WithinBalance(testFunded, worth + x) + t
    BY <1>4, <1>5, <1>11 DEF SettlesAs, TestAfter
  <2>3. PICK kept \in Nat : /\ kept = WithinBalance(testFunded, worth + x)
                            /\ kept <= testFunded
                            /\ testFunded <= worth + x => kept = testFunded
    <3>1. worth + x \in Int
      OBVIOUS
    <3>2. /\ WithinBalance(testFunded, worth + x) \in Nat
          /\ WithinBalance(testFunded, worth + x) <= testFunded
          /\ testFunded <= worth + x => WithinBalance(testFunded, worth + x) = testFunded
      BY <1>2, <3>1, BalanceKeeps
    <3>3. QED
      BY <3>2
  <2>4. now + taken <= testFunded + before
    BY <1>2, <1>3, <1>4, <2>2, <2>3
  <2>5. Unforced' => /\ Unforced /\ now + taken = testFunded + before
                     /\ now <= agentHas' + Elsewhere
    <3>1. HAVE Unforced'
    <3>2. Unforced /\ testFunded <= worth
      BY <1>7, <1>8, <3>1
    <3>3. kept = testFunded
      BY <1>2, <1>11, <2>3, <3>2
    <3>4. QED
      BY <1>2, <1>3, <1>4, <1>5, <2>1, <2>2, <2>3, <3>2, <3>3
  <2>6. QED
    BY <1>4, <2>4, <2>5, TestKept DEF KeepsTest
<1>12. CASE x < 0
  <2>1. /\ t <= 0 /\ -t <= TestHeld
        /\ -t >= -x => t = x /\ TestHeld >= -x
    BY <1>1, <1>9, <1>12, TestMovedInt
  <2>2. now = WithinBalance(TestHeld + t, worth + x)
    BY <1>4, <1>5, <1>12 DEF SettlesAs, TestAfter
  <2>3. /\ now <= TestHeld + t
        /\ TestHeld + t <= worth + x => now = TestHeld + t
    <3>1. TestHeld + t \in Nat /\ worth + x \in Int
      BY <1>2, <2>1
    <3>2. QED
      BY <2>2, <3>1, BalanceKeeps
  <2>4. TestHeld <= testFunded /\ (testFunded <= worth => TestHeld = testFunded)
    BY <1>2, <1>5 DEF TestHeld, Least, Most
  <2>5. now + taken <= testFunded + before
    <3>1. taken = before - t
      BY <1>3, <1>4
    <3>2. now <= TestHeld + t /\ TestHeld <= testFunded
      BY <2>3, <2>4
    <3>3. QED
      BY <1>2, <3>1, <3>2
  <2>6. /\ e.kind = "capture" /\ x = -Ulxc(e.minor - k) /\ k < e.minor
    <3>1. e.minor \in Nat /\ HeldMinor \in Nat
      BY <1>1, PartsOf, CardConstants DEF Parts
    <3>2. CASE e.kind = "refund"
      <4>1. x \in Nat
        BY <3>1, <3>2, Rounds DEF SettlesAs
      <4>2. QED
        BY <1>12, <4>1
    <3>3. CASE e.kind \in {"pending", "closed"}
      <4>1. x \in Nat
        BY <3>3 DEF SettlesAs
      <4>2. QED
        BY <1>12, <4>1
    <3>4. CASE e.kind = "capture"
      <4>1. k = Least(e.minor, HeldMinor) /\ x = -Ulxc(e.minor - k)
        BY <3>4 DEF SettlesAs
      <4>2. k <= e.minor
        BY <3>1, <4>1 DEF Least
      <4>3. k # e.minor
        <5>1. SUFFICES ASSUME k = e.minor PROVE FALSE
          OBVIOUS
        <5>2. e.minor - k = 0
          BY <3>1, <5>1
        <5>3. x = 0
          BY <4>1, <5>2, NothingConverts
        <5>4. QED
          BY <1>12, <5>3
      <4>4. QED
        BY <3>1, <3>4, <4>1, <4>2, <4>3
    <3>5. QED
      BY <3>2, <3>3, <3>4 DEF SettlesAs
  <2>7. ~Forced(e)' => -t >= -x
    <3>1. HAVE ~Forced(e)'
    <3>2. e \in SettledOf("capture")'
      BY <1>6, <2>6 DEF SettledOf
    <3>3. settlement'[e].holdMinor = k /\ settlement'[e].test = t
      BY <1>6
    <3>4. ~(-t < Ulxc(e.minor - k))
      BY <2>6, <3>1, <3>2, <3>3 DEF Forced
    <3>5. Ulxc(e.minor - k) = -x
      <4>1. e.minor - k \in Nat
        BY <2>6, CardConstants
      <4>2. Ulxc(e.minor - k) \in Nat
        BY <4>1, Rounds
      <4>3. QED
        BY <2>6, <4>2
    <3>6. QED
      BY <3>4, <3>5
  <2>8. Unforced' => /\ Unforced /\ now + taken = testFunded + before
                     /\ now <= agentHas' + Elsewhere
    <3>1. HAVE Unforced'
    <3>2. Unforced /\ testFunded <= worth /\ -t >= -x
      BY <1>7, <1>8, <2>7, <3>1
    <3>3. t = x /\ TestHeld = testFunded
      BY <2>1, <2>4, <3>2
    <3>4. now = testFunded + x
      BY <1>2, <2>3, <3>2, <3>3
    <3>5. QED
      BY <1>2, <1>3, <1>4, <1>5, <3>2, <3>3, <3>4
  <2>9. QED
    BY <1>4, <2>5, <2>8, TestKept DEF KeepsTest
<1>13. QED
  BY <1>10, <1>11, <1>12

\* All test money is there at first.
LEMMA CardTestInit == CardInit => CardTestInv
<1> SUFFICES ASSUME CardInit PROVE CardTestInv
  OBVIOUS
<1>1. CardRows /\ HoldsWithin
  BY CardBookInit DEF CardBookInv
<1>2. testFunded = CardTestFunded /\ agentHas = AgentHolds
  BY DEF CardInit
<1>3. TestTaken = 0
  <2>1. NetTotal(TestColumn) = 0
    <3>1. \A e \in CardEvents : TestColumn[e] = 0
      BY DEF CardInit, TestColumn, NotSettled
    <3>2. QED
      BY <1>1, <3>1, CardSums, NetTotalZero
  <2>2. AskedULXC = 0
    <3>1. [r \in CardRequests |-> Ulxc(Asks[r])] \in [CardRequests -> Nat]
      BY Rounds, CardConstants
    <3>2. \A r \in CardRequests : r \notin ApprovedAsks
      BY DEF CardInit, ApprovedAsks
    <3>3. QED
      BY <3>1, <3>2, TotalOfZero DEF AskedULXC
  <2>3. QED
    BY <2>1, <2>2 DEF TestTaken, TestColumn
<1>4. /\ CardTestFunded \in Nat /\ CardTestFunded <= AgentHolds + Elsewhere
  BY CardConstants
<1>5. QED
  BY <1>1, <1>2, <1>3, <1>4 DEF CardTestInv, TestMoneyKept, TestWithin

\* Every step keeps it.
LEMMA CardTestStep == CardTestInv /\ [CardNext]_cardVars => CardTestInv'
<1> SUFFICES ASSUME CardTestInv, [CardNext]_cardVars PROVE CardTestInv'
  OBVIOUS
<1>1. CASE \E r \in CardRequests : AuthorizeAgentCard(r)
  BY <1>1, RowsAndHoldsOfApproval, TestOfApproval DEF CardTestInv
<1>2. CASE \E e \in CardEvents : SettleAgentCard(e)
  <2>1. PICK e \in CardEvents : SettleAgentCard(e)
    BY <1>2
  <2>2. PICK k \in Nat, h \in Nat, x \in Int, t \in Int : SettlesAs(e, k, h, x, t)
    BY <2>1, SettleNumbers DEF CardTestInv
  <2>3. CardRows' /\ HoldsWithin'
    BY <2>2, RowsAndHoldsOfSettlement DEF CardTestInv
  <2>4. TestMoneyKept' /\ TestWithin'
    BY <2>2, TestOfSettlement
  <2>5. QED
    BY <2>3, <2>4 DEF CardTestInv
<1>3. CASE FreezeAgentCard \/ UNCHANGED cardVars
  <2>1. /\ agentHas' = agentHas /\ testFunded' = testFunded
        /\ decision' = decision /\ settlement' = settlement
    BY <1>3 DEF FreezeAgentCard, cardVars
  <2>2. CardRows'
    BY <2>1 DEF CardTestInv, CardRows
  <2>3. HoldsWithin'
    BY <2>1 DEF CardTestInv, HoldsWithin, SettledMinor, SettledULXC, AskedMinor,
       AskedULXC, ApprovedAsks, MinorColumn, HoldColumn
  <2>4. TestMoneyKept' /\ TestWithin'
    BY <2>1 DEF CardTestInv, TestMoneyKept, TestWithin, Unforced, Forced, SettledOf,
       TestTaken, AskedULXC, ApprovedAsks
  <2>5. QED
    BY <2>2, <2>3, <2>4 DEF CardTestInv
<1>4. QED
  BY <1>1, <1>2, <1>3 DEF CardNext

\* Settling a card's purchases makes no test money, and loses none unless a
\* capture was forced on credits that are not test money (cardTestFunded,
\* writeLXCBalance).
THEOREM CardTestMoneyAlwaysKept == CardSpec => []TestMoneyKept
<1>1. CardSpec => []CardTestInv
  BY CardTestInit, CardTestStep, PTL DEF CardSpec
<1>2. CardTestInv => TestMoneyKept
  BY DEF CardTestInv
<1>3. QED
  BY <1>1, <1>2, PTL
=============================================================================
