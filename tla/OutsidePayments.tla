-------------------------- MODULE OutsidePayments --------------------------
(***************************************************************************)
(* Payments out of Talyvor (internal/economy/money_payments.go).  A call   *)
(* of PayOutside holds the money in one transaction, asks the partner with *)
(* no transaction open, and applies its answer in another; a read of the   *)
(* payment asks again.  Calls of one idempotency key, reads, lost answers, *)
(* a server that dies between two steps and a compliance freeze            *)
(* interleave, and an answer may be applied long after it was given.       *)
(***************************************************************************)
EXTENDS Integers, Totals

CONSTANTS
  PayKeys,   \* idempotency keys, each of one payment
  Calls,     \* calls of PayOutside and RefreshOutsidePayment
  Sends,     \* what a payment sends and the partner's cost, by key
  Fee,       \* Talyvor's fee on it, by key: 0 unless international
  Opening    \* what the paying account holds at first

ASSUME OutsideConstants ==
  /\ IsFiniteSet(PayKeys)
  /\ Sends \in [PayKeys -> Nat \ {0}] /\ Fee \in [PayKeys -> Nat]
  /\ Opening \in Nat

VARIABLES
  account,    \* the paying account's balance
  holdAcct,   \* the workspace's hold account
  revenue,    \* Talyvor's fees
  outAcct,    \* the partner account of the ledger
  payment,    \* money_payments, by key
  atPartner,  \* the partner's record of the payment, by key
  moneyCall,  \* where each call is
  wsFrozen    \* the workspace is frozen (B30.8)

outsideVars == <<account, holdAcct, revenue, outAcct, payment, atPartner,
                 moneyCall, wsFrozen>>
ledger == <<account, holdAcct, revenue, outAcct>>

Debit(k) == Sends[k] + Fee[k]

NoPayment == [status |-> "none", ref |-> FALSE]
NotSent == [status |-> "none", first |-> "none"]
IdleCall == [at |-> "idle", key |-> "none", ref |-> FALSE, result |-> "none"]

OutsideInit ==
  /\ account = Opening /\ holdAcct = 0 /\ revenue = 0 /\ outAcct = 0
  /\ payment = [k \in PayKeys |-> NoPayment]
  /\ atPartner = [k \in PayKeys |-> NotSent]
  /\ moneyCall = [c \in Calls |-> IdleCall]
  /\ wsFrozen = FALSE

-----------------------------------------------------------------------------
(* The partner (internal/partners): it takes one payment per id, answers a *)
(* repeat with its first answer, and decides in its own time.  The account *)
(* at the partner is assumed to stay open while a payment is in flight:    *)
(* SendPayment refuses a repeat from one that is closed.                   *)

\* What it may decide at once.  A request refused as invalid, which it refuses
\* at every repeat too, is one that failed.
PartnerStates == {"pending", "completed", "failed"}

\* What the partner's book holds and answers once it has the request.
PartnerRecord(k, decided) ==
  IF atPartner[k].status = "none"
    THEN [status |-> decided, first |-> decided]
    ELSE atPartner[k]

PartnerDecides(k) ==
  /\ \E s \in {"completed", "failed", "returned"} :
       /\ \/ atPartner[k].status = "pending" /\ s # "returned"
          \/ atPartner[k].status = "completed" /\ s = "returned"
       /\ atPartner' = [atPartner EXCEPT ![k].status = s]
  /\ UNCHANGED <<ledger, payment, moneyCall, wsFrozen>>

-----------------------------------------------------------------------------
(* PayOutside.                                                             *)

\* The prior payment under the key answers; without one the call goes on.
CheckPrior(c, k) ==
  /\ moneyCall[c].at = "idle"
  /\ moneyCall' = [moneyCall EXCEPT ![c] =
       [IdleCall EXCEPT !.at = IF payment[k].status = "none" THEN "paying"
                                                             ELSE "done",
                        !.key = k]]
  /\ UNCHANGED <<ledger, payment, atPartner, wsFrozen>>

\* The balance read with the accounts locked.
Held(k) == account >= Debit(k)

\* The hold's transaction: the payment recorded and its money moved to the
\* hold account.  Another call that recorded the key first answers.
HoldPayment(c) ==
  LET k == moneyCall[c].key IN
  /\ moneyCall[c].at = "paying"
  /\ IF payment[k].status = "none" /\ ~wsFrozen /\ Held(k)
       THEN /\ payment' = [payment EXCEPT ![k].status = "pending"]
            /\ account' = account - Debit(k)
            /\ holdAcct' = holdAcct + Debit(k)
            /\ moneyCall' = [moneyCall EXCEPT ![c].at = "asking"]
       ELSE /\ moneyCall' = [moneyCall EXCEPT ![c].at = "done"]
            /\ UNCHANGED <<payment, account, holdAcct>>
  /\ UNCHANGED <<revenue, outAcct, atPartner, wsFrozen>>

-----------------------------------------------------------------------------
(* RefreshOutsidePayment.                                                  *)

ReadPayment(c, k) ==
  /\ moneyCall[c].at = "idle"
  /\ payment[k].status \in {"pending", "sent", "completed"}
  /\ moneyCall' = [moneyCall EXCEPT ![c] =
       [IdleCall EXCEPT !.at = "asking", !.key = k, !.ref = payment[k].ref]]
  /\ UNCHANGED <<ledger, payment, atPartner, wsFrozen>>

-----------------------------------------------------------------------------
(* The question to the partner, of both calls.                             *)

PartnerAnswers(c, result) ==
  moneyCall' = [moneyCall EXCEPT ![c].at = "answered", ![c].result = result]

\* Mutant: a payment the partner did not answer is taken to have failed.
NoAnswerFails(c) == PartnerAnswers(c, "failed")

\* The partner did not answer: the payment stays as it is.
NoAnswer(c) == moneyCall' = [moneyCall EXCEPT ![c].at = "done"]

\* SendPayment, for a payment no partner reference is known of.
SendPayment(c) ==
  LET k == moneyCall[c].key IN
  /\ moneyCall[c].at = "asking" /\ ~moneyCall[c].ref
  /\ \/ \E decided \in PartnerStates :        \* it got the request ...
          /\ atPartner' = [atPartner EXCEPT ![k] = PartnerRecord(k, decided)]
          /\ \/ PartnerAnswers(c, PartnerRecord(k, decided).first)
             \/ NoAnswer(c)                   \* ... and its answer was lost
     \/ NoAnswer(c) /\ UNCHANGED atPartner    \* it never heard of it
  /\ UNCHANGED <<ledger, payment, wsFrozen>>

PaymentStatus(c) ==
  LET k == moneyCall[c].key IN
  /\ moneyCall[c].at = "asking" /\ moneyCall[c].ref
  /\ PartnerAnswers(c, atPartner[k].status) \/ NoAnswer(c)
  /\ UNCHANGED <<ledger, payment, atPartner, wsFrozen>>

-----------------------------------------------------------------------------
(* applyPartnerResult.                                                     *)

\* Mutant: what the call read of the payment is taken for where it stands.
OpenWhenRead(k) == payment[k].status # "none"

\* The payment, its row locked, has its money held.
StillOpen(k) == payment[k].status \in {"pending", "sent"}

\* What a returned payment brings back: the fee stays.
ComesBack(k) == Sends[k]

\* Where the payment goes on the result.
Reaches(k, result) ==
  CASE result = "pending" -> IF payment[k].status = "pending" THEN "sent"
                                                    ELSE payment[k].status
    [] result = "failed" -> IF StillOpen(k) THEN "failed"
                                            ELSE payment[k].status
    [] result = "completed" -> IF StillOpen(k) THEN "completed"
                                               ELSE payment[k].status
    [] result = "returned" -> IF StillOpen(k)
                                 \/ payment[k].status = "completed"
                                THEN "returned" ELSE payment[k].status

\* The entries that take it there, in the order they are posted.
ApplyPartnerResult(c) ==
  LET k == moneyCall[c].key
      result == moneyCall[c].result
      to == Reaches(k, result)
      fails == result = "failed" /\ StillOpen(k)
      goes == result \in {"completed", "returned"} /\ StillOpen(k)
      returns == to = "returned" /\ payment[k].status # "returned"
      back == IF returns THEN ComesBack(k) ELSE 0
      moves == fails \/ goes \/ returns
  IN
  /\ moneyCall[c].at = "answered"
  /\ moneyCall' = [moneyCall EXCEPT ![c].at = "done"]
  /\ IF wsFrozen /\ moves   \* a frozen workspace moves nothing: rolled back
       THEN UNCHANGED <<ledger, payment>>
       ELSE /\ payment' = [payment EXCEPT ![k].status = to,
                             ![k].ref = @ \/ atPartner[k].status # "none"]
            /\ holdAcct' = holdAcct - (IF fails \/ goes THEN Debit(k) ELSE 0)
            /\ account' = account + (IF fails THEN Debit(k) ELSE 0) + back
            /\ outAcct' = outAcct + (IF goes THEN Sends[k] ELSE 0) - back
            /\ revenue' = revenue + (IF goes THEN Fee[k] ELSE 0)
  /\ UNCHANGED <<atPartner, wsFrozen>>

-----------------------------------------------------------------------------

\* The server dies under a call: what it had in memory is gone.
CallDies(c) ==
  /\ moneyCall[c].at \notin {"idle", "done"}
  /\ moneyCall' = [moneyCall EXCEPT ![c].at = "done"]
  /\ UNCHANGED <<ledger, payment, atPartner, wsFrozen>>

\* An operator freezes the workspace, or unfreezes it.
FreezeWorkspace ==
  /\ wsFrozen' = ~wsFrozen
  /\ UNCHANGED <<ledger, payment, atPartner, moneyCall>>

OutsideNext ==
  \/ \E c \in Calls :
       \/ \E k \in PayKeys : CheckPrior(c, k) \/ ReadPayment(c, k)
       \/ HoldPayment(c) \/ SendPayment(c) \/ PaymentStatus(c)
       \/ ApplyPartnerResult(c) \/ CallDies(c)
  \/ \E k \in PayKeys : PartnerDecides(k)
  \/ FreezeWorkspace

OutsideSpec == OutsideInit /\ [][OutsideNext]_outsideVars

-----------------------------------------------------------------------------
(* What is checked.                                                        *)

\* Balances are never negative, and every state is one the code writes.
OutsideTypeOK ==
  /\ account \in Nat /\ holdAcct \in Nat /\ revenue \in Nat
  /\ outAcct \in Nat /\ wsFrozen \in BOOLEAN
  /\ \A k \in PayKeys : payment[k].status \in {"none", "pending", "sent",
                                  "completed", "failed", "returned"}

\* What the payments of a status in states come to, when each of them is
\* worth amount[k].
Standing(states, amount) ==
  Total([k \in PayKeys |-> IF payment[k].status \in states THEN amount[k] ELSE 0])

\* The hold account holds exactly the payments still open, the partner
\* account what completed, and the paying account the rest but for the fees
\* of what went: no result is applied twice or in the wrong order
\* (applyPartnerResult's "a state already reached moves nothing again").
MoneyIsWherePaymentsSay ==
  /\ holdAcct = Standing({"pending", "sent"}, [k \in PayKeys |-> Debit(k)])
  /\ outAcct = Standing({"completed"}, Sends)
  /\ revenue = Standing({"completed", "returned"}, Fee)
  /\ account + holdAcct + outAcct + revenue = Opening

\* A payment is given back only when the partner did not make it, and gone
\* only when it did: whatever answers were lost, repeated, or applied late,
\* Talyvor's record never contradicts the partner's.
RecordAgreesWithPartner ==
  \A k \in PayKeys :
    /\ payment[k].status = "failed"
         => atPartner[k].status \in {"none", "failed"}
    /\ payment[k].status = "completed"
         => atPartner[k].status \in {"completed", "returned"}
    /\ payment[k].status = "returned" => atPartner[k].status = "returned"
=============================================================================
