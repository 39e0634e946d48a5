---------------------------- MODULE AgentCards -----------------------------
(***************************************************************************)
(* An agent's card (internal/economy/agent_cards.go and                    *)
(* agent_card_settlements.go): approved requests of one authorisation      *)
(* debit the agent at once, and what Stripe says of it afterwards, in any  *)
(* order and any number of times, settles that hold.  Amounts in the       *)
(* card's currency convert at the rate on record, rounded up.  Cards are   *)
(* RED and uncleared: a purchase takes test-funded credits.                *)
(***************************************************************************)
EXTENDS Integers, FiniteSets, Totals

CONSTANTS
  CardRequests,  \* authorisation requests, by event id
  Asks,          \* the amount each asks for, in the card's currency
  CardEvents,    \* settlement events: [id, kind, minor]
  RateNum,       \* the ECB rate is RateNum / RateDen
  RateDen,
  AgentHolds,    \* what the agent holds at first
  Elsewhere,     \* the rest of the workspace's balance
  CardTestFunded \* test-funded credits at first

ASSUME CardConstants ==
  /\ IsFiniteSet(CardRequests) /\ IsFiniteSet(CardEvents)
  /\ Asks \in [CardRequests -> Nat \ {0}]
  /\ \A e \in CardEvents :
       /\ e.kind \in {"capture", "pending", "closed", "refund"}
       /\ e.minor \in Nat
  /\ RateNum \in Nat \ {0} /\ RateDen \in Nat \ {0}
  /\ AgentHolds \in Nat /\ Elsewhere \in Nat
  /\ CardTestFunded \in 0..(AgentHolds + Elsewhere)

VARIABLES
  agentHas,   \* the agent's account; the workspace's balance moves with it
  testFunded, \* lxc_balances.test_funded_ulxc
  decision,   \* agent_card_authorizations, by request
  settlement, \* agent_card_settlements, by event
  cardFrozen

cardVars == <<agentHas, testFunded, decision, settlement, cardFrozen>>

\* cardRate.ulxc: rounded up, 0 for 0.
Ulxc(minor) == (minor * RateNum + RateDen - 1) \div RateDen

NotSettled == [done |-> FALSE, holdMinor |-> 0, hold |-> 0, test |-> 0]

CardInit ==
  /\ agentHas = AgentHolds /\ testFunded = CardTestFunded
  /\ decision = [r \in CardRequests |-> "none"]
  /\ settlement = [e \in CardEvents |-> NotSettled]
  /\ cardFrozen \in BOOLEAN

\* writeLXCBalance keeps the test-funded part within the balance written.
WithinBalance(test, balance) ==
  IF test <= balance THEN test ELSE Least(test, Most(balance, 0))

\* testFundedULXC reads it within the balance.
TestHeld == Least(testFunded, Most(agentHas + Elsewhere, 0))

ApprovedAsks == {r \in CardRequests : decision[r] = "approved"}

\* cardHold: what the authorisation still holds, in the card's currency and
\* in credits.
HeldMinor ==
  Most(0, TotalOf(ApprovedAsks, Asks)
          - Total([e \in CardEvents |-> settlement[e].holdMinor]))

AskedULXC == TotalOf(ApprovedAsks, [r \in CardRequests |-> Ulxc(Asks[r])])

HeldULXC ==
  Most(0, AskedULXC - Total([e \in CardEvents |-> settlement[e].hold]))

\* What it has taken of test-funded credits, less what it gave back.
TestTaken ==
  AskedULXC - NetTotal([e \in CardEvents |-> settlement[e].test])

-----------------------------------------------------------------------------
(* AuthorizeAgentCard: a request already decided moves nothing.            *)

\* approveCard's refusals, in one transaction with the debit.
CardAllows(amount) ==
  ~cardFrozen /\ agentHas >= amount /\ TestHeld >= amount
    /\ agentHas + Elsewhere >= amount

AuthorizeAgentCard(r) ==
  LET amount == Ulxc(Asks[r]) IN
  /\ decision[r] = "none"
  /\ IF CardAllows(amount)
       THEN /\ decision' = [decision EXCEPT ![r] = "approved"]
            /\ agentHas' = agentHas - amount
            /\ testFunded' = WithinBalance(TestHeld - amount,
                                    agentHas + Elsewhere - amount)
       ELSE /\ decision' = [decision EXCEPT ![r] = "declined"]
            /\ UNCHANGED <<agentHas, testFunded>>
  /\ UNCHANGED <<settlement, cardFrozen>>

FreezeAgentCard ==
  /\ cardFrozen' = ~cardFrozen
  /\ UNCHANGED <<agentHas, testFunded, decision, settlement>>

-----------------------------------------------------------------------------
(* SettleAgentCard.                                                        *)

\* What part of the hold, converted, is taken off it: its whole value when
\* nothing of it is left.
PartOfHold(minor) ==
  IF minor = HeldMinor THEN HeldULXC ELSE Least(Ulxc(minor), HeldULXC)

\* What a release leaves: a pending authorisation still holds what Stripe
\* says, never more than is held here.
Releases(e) ==
  HeldMinor - (IF e.kind = "pending" THEN Least(e.minor, HeldMinor) ELSE 0)

HoldSettled(e) ==
  CASE e.kind = "capture" -> Least(e.minor, HeldMinor)
    [] e.kind \in {"pending", "closed"} -> Releases(e)
    [] e.kind = "refund" -> 0

\* What the agent is credited, or debited when negative.
Settles(e) ==
  CASE e.kind = "capture" -> -Ulxc(e.minor - HoldSettled(e))
    [] e.kind \in {"pending", "closed"} -> PartOfHold(HoldSettled(e))
    [] e.kind = "refund" -> Ulxc(e.minor)

\* Mutant: a debit takes test-funded credits after the balance is written.
TakenAfter(amount, back) ==
  IF amount < 0
    THEN Most(0, WithinBalance(TestHeld, agentHas + Elsewhere + amount) + back)
    ELSE WithinBalance(testFunded, agentHas + Elsewhere + amount) + back

\* cardTestFunded: a debit takes test-funded credits before the balance is
\* written, a credit gives back after it, up to what the purchase has taken.
TestAfter(amount, back) ==
  IF amount < 0
    THEN WithinBalance(TestHeld + back, agentHas + Elsewhere + amount)
    ELSE WithinBalance(testFunded, agentHas + Elsewhere + amount) + back

TestMoved(amount) ==
  CASE AskedULXC = 0 -> 0
    [] AskedULXC # 0 /\ amount >= 0 -> Most(0, Least(amount, TestTaken))
    [] AskedULXC # 0 /\ amount < 0 -> -Least(-amount, TestHeld)

\* Mutant: an event Stripe sends again settles again.
SettledAgain(e) == TRUE

\* Events settled are on record; one that found nothing to settle is not.
NotYetSettled(e) == ~settlement[e].done

\* A rate is on record once a request was decided, declined or not.
RateKnown == \E r \in CardRequests : decision[r] # "none"

SettleAgentCard(e) ==
  LET held == HoldSettled(e)
      amount == Settles(e)
      hold == IF e.kind = "refund" THEN 0 ELSE PartOfHold(held)
      back == TestMoved(amount)
  IN
  /\ NotYetSettled(e) /\ RateKnown
  /\ held # 0 \/ hold # 0 \/ amount # 0
  /\ settlement' = [settlement EXCEPT ![e] =
       [done |-> TRUE, holdMinor |-> held, hold |-> hold, test |-> back]]
  /\ agentHas' = agentHas + amount
  /\ testFunded' = IF amount = 0 THEN testFunded ELSE TestAfter(amount, back)
  /\ UNCHANGED <<decision, cardFrozen>>

CardNext ==
  \/ \E r \in CardRequests : AuthorizeAgentCard(r)
  \/ \E e \in CardEvents : SettleAgentCard(e)
  \/ FreezeAgentCard

CardSpec == CardInit /\ [][CardNext]_cardVars

-----------------------------------------------------------------------------
(* What is checked.                                                        *)

\* Every variable holds a value of its kind.
CardTypeOK ==
  /\ agentHas \in Int /\ testFunded \in Nat /\ cardFrozen \in BOOLEAN
  /\ \A r \in CardRequests : decision[r] \in {"none", "approved", "declined"}
  /\ \A e \in CardEvents : settlement[e].hold >= 0 /\ settlement[e].holdMinor >= 0

SettledOf(kind) == {e \in CardEvents : e.kind = kind /\ settlement[e].done}
CardTotal(kind) == TotalOf(SettledOf(kind), [e \in CardEvents |-> e.minor])

\* In whatever order captures, partial reversals, closes and refunds arrive,
\* and however often, the agent is out what is still held plus what was
\* captured less what was refunded, but for at most one µLXC of rounding per
\* request and settlement ("captures and closes arrive in either order; both
\* orders end on the same balance").
CardBookBalances ==
  LET out == AgentHolds - agentHas
      exact == HeldMinor + CardTotal("capture") - CardTotal("refund")
      steps == Cardinality(ApprovedAsks)
                 + Cardinality({e \in CardEvents : settlement[e].done})
      off == RateDen * out - RateNum * exact
  IN off \in -(RateDen * steps)..(RateDen * steps)

\* A capture on an authorisation nobody approved, or above what there is:
\* it took ordinary credits.
Forced(e) ==
  /\ e \in SettledOf("capture") /\ settlement[e].holdMinor < e.minor
  /\ -settlement[e].test < Ulxc(e.minor - settlement[e].holdMinor)

\* The test-funded credits the purchase took and has not given back, and
\* those the workspace holds, are never more than there were, and are all of
\* them unless a capture was forced: settling makes no test money and loses
\* none (cardTestFunded).
TestMoneyKept ==
  /\ testFunded + TestTaken <= CardTestFunded
  /\ (\A e \in CardEvents : ~Forced(e)) => testFunded + TestTaken = CardTestFunded
=============================================================================
