----------------------------- MODULE AgentServe -----------------------------
(***************************************************************************)
(* How the proxy charges an agent's request (internal/proxy/               *)
(* agent_allocator.go and the seams of proxy.go and stream.go that call    *)
(* it), over the wallet of AgentWallet: before the serve a hold, or with   *)
(* reservations off a debit; after it a settle or a release; and the       *)
(* sweeper of cmd/lens/main.go for the holds a crash leaves behind.        *)
(*                                                                         *)
(* An attempt is one HTTP request.  Attempts with the same id are a        *)
(* request and its retries under one Idempotency-Key: agentDebitKeyFor     *)
(* gives them one reservation or claim id.                                 *)
(***************************************************************************)
EXTENDS AgentWallet

CONSTANTS
  Attempts,            \* requests made
  IdOf,                \* agentDebitKeyFor: the hold or claim id of each
  KeyOf,               \* the API key each is made with
  Estimate,            \* the estimate each is held or debited for
  MaxFailures          \* bound on crashes and failed settles

ASSUME ServeConstants ==
  /\ IdOf \in [Attempts -> Reservations \cap Debits]
  /\ KeyOf \in [Attempts -> Keys]
  /\ Estimate \in Amounts
  /\ 0 \in Delivered   \* what a free answer, such as an own-cache hit, costs
  /\ MaxFailures \in Nat

VARIABLES
  mode,      \* LXCReservationEnabled, "holds" or "debits", fixed at the start
  pc,        \* where each attempt is
  holder,    \* the attempt whose hold each reservation is
  answered,  \* the attempts that got an answer from a model or the pool
  failures

serveVars == <<vars, mode, pc, holder, answered, failures>>

\* LXCReservationEnabled: requests are held for, and not debited.
ByHold == mode = "holds"

Goto(t, place) == pc' = [pc EXCEPT ![t] = place]

Live(t) == pc[t] \in {"serving", "answered", "cached", "failed"}

-----------------------------------------------------------------------------
(* Before the serve.                                                       *)

\* agentReserve: a fresh hold, or an id that already has one in any state.
AdmitWithHold(t) ==
  LET r == IdOf[t]
  IN /\ pc[t] = "new" /\ ByHold
     /\ Goto(t, "serving")
     /\ \/ /\ res[r].status # "none"
           /\ UNCHANGED <<vars, holder>>
        \/ /\ \E bps \in FeeRates : ReserveLXCForAgent(KeyOf[t], r, Estimate, bps)
           /\ holder' = [holder EXCEPT ![r] = t]
     /\ UNCHANGED <<answered, failures, mode>>

\* agentAllocate: a fresh debit, or an id whose claim is there already.
AdmitWithDebit(t) ==
  LET d == IdOf[t]
  IN /\ pc[t] = "new" /\ ~ByHold
     /\ Goto(t, "serving")
     /\ \/ debit[d].status # "none" /\ UNCHANGED vars
        \/ \E bps \in FeeRates : SpendLXCForAgent(KeyOf[t], d, Estimate, bps)
     /\ UNCHANGED <<holder, answered, failures, mode>>

\* writeAgentRefusal: the agent's balance, its ceiling, one of its rules or any
\* error of the hold or the debit blocks the request, and nothing was taken.
Refuse(t) ==
  /\ pc[t] = "new"
  /\ Goto(t, "refused")
  /\ UNCHANGED <<vars, holder, answered, failures, mode>>

-----------------------------------------------------------------------------
(* The serve, and what follows it.                                         *)

\* A model answers, or the pool does, and the answer is written to the caller;
\* or the request fails.
Answer(t) ==
  /\ pc[t] = "serving"
  /\ Goto(t, "answered")
  /\ answered' = answered \cup {t}
  /\ UNCHANGED <<vars, holder, failures, mode>>

\* The workspace's own cache has the answer, which is then free.
OwnCacheHit(t) ==
  /\ pc[t] = "serving"
  /\ Goto(t, "cached")
  /\ UNCHANGED <<vars, holder, answered, failures, mode>>

UpstreamFails(t) ==
  /\ pc[t] = "serving"
  /\ Goto(t, "failed")
  /\ UNCHANGED <<vars, holder, answered, failures, mode>>

\* Mutant: a serve off the upstream seams neither settles nor releases.
LeaveUnsettled(t) ==
  /\ pc[t] = "answered"
  /\ Goto(t, "done")
  /\ UNCHANGED <<vars, holder, answered, failures, mode>>

\* settleReservation and settleAgentDebit: no-ops unless the hold is still held,
\* or the debit not settled.
SettleAnswered(t) ==
  LET id == IdOf[t]
  IN /\ pc[t] = "answered"
     /\ Goto(t, "done")
     /\ IF ByHold
          THEN IF IsHeld(id)
                 THEN \E n \in Delivered : SettleLXCReservation(id, n)
                 ELSE UNCHANGED vars
          ELSE IF debit[id].status = "debited"
                 THEN \E n, rules \in Delivered : SettleAgentDebit(id, n, rules)
                 ELSE UNCHANGED vars
     /\ UNCHANGED <<holder, answered, failures, mode>>

\* Mutant: a serve that delivered nothing settles its hold at the estimate.
SettleUnanswered(t) ==
  LET r == IdOf[t]
  IN /\ pc[t] = "failed"
     /\ Goto(t, "done")
     /\ IF ByHold /\ IsHeld(r)
          THEN SettleLXCReservation(r, Estimate) ELSE UNCHANGED vars
     /\ UNCHANGED <<holder, answered, failures, mode>>

\* An exit that delivered nothing.  Most call releaseReservation; some, such as
\* a prompt that the guardrails block or a body that cannot be rebuilt, return
\* without it and leave the hold to the sweeper.  Nothing is to be done when
\* the request was debited or its hold is resolved.
ReleaseUnanswered(t) ==
  LET r == IdOf[t]
  IN /\ pc[t] = "failed"
     /\ Goto(t, "done")
     /\ \/ ByHold /\ IsHeld(r) /\ ReleaseLXCReservation(r)
        \/ UNCHANGED vars
     /\ UNCHANGED <<holder, answered, failures, mode>>

\* settlePooledServe of an own-cache hit: a hold is released, a debit is settled
\* to nothing.
SettleCached(t) ==
  LET id == IdOf[t]
  IN /\ pc[t] = "cached"
     /\ Goto(t, "done")
     /\ \/ ByHold /\ IsHeld(id) /\ ReleaseLXCReservation(id)
        \/ ByHold /\ ~IsHeld(id) /\ UNCHANGED vars
        \/ /\ ~ByHold /\ debit[id].status = "debited"
           /\ \E rules \in Delivered : SettleAgentDebit(id, 0, rules)
        \/ /\ ~ByHold /\ debit[id].status # "debited"
           /\ UNCHANGED vars
     /\ UNCHANGED <<holder, answered, failures, mode>>

\* The server dies with the attempt, or its settle or release fails.
Lose(t) ==
  /\ Live(t)
  /\ failures < MaxFailures
  /\ failures' = failures + 1
  /\ Goto(t, "lost")
  /\ UNCHANGED <<vars, holder, answered, mode>>

\* Mutant: only holds of attempts that ended in this process are swept.
StrandedInProcess(r) == IsHeld(r) /\ pc[holder[r]] = "done"

\* The threshold counts from the hold and is longer than any one attempt, so
\* the attempt that took a stranded hold is over.  A retry that found it may
\* not be.
Stranded(r) == IsHeld(r) /\ ~Live(holder[r])

\* ReleaseStrandedReservations.
Sweep(r) ==
  /\ Stranded(r)
  /\ ReleaseLXCReservation(r)
  /\ UNCHANGED <<pc, holder, answered, failures, mode>>

\* The rest of the wallet, as far as it gives the agent money to spend.
FundWallet ==
  /\ Credit \/ MoveFunds
  /\ UNCHANGED <<pc, holder, answered, failures, mode>>

ServeInit ==
  /\ Init
  /\ mode \in {"holds", "debits"}
  /\ pc = [t \in Attempts |-> "new"]
  /\ holder = [r \in Reservations |-> NoAgent]
  /\ answered = {} /\ failures = 0

Step(t) == \/ AdmitWithHold(t) \/ AdmitWithDebit(t) \/ Refuse(t)
           \/ Answer(t) \/ OwnCacheHit(t) \/ UpstreamFails(t)
           \/ SettleAnswered(t) \/ SettleCached(t) \/ ReleaseUnanswered(t)

ServeNext ==
  \/ \E t \in Attempts : Step(t) \/ Lose(t)
  \/ \E r \in Reservations : Sweep(r)
  \/ FundWallet

\* An attempt that was admitted goes on (the upstream client has a timeout), and
\* the sweeper's ticker keeps ticking.
ServeSpec ==
  /\ ServeInit /\ [][ServeNext]_serveVars
  /\ \A t \in Attempts : WF_serveVars(Live(t) /\ Step(t))
  /\ \A r \in Reservations : WF_serveVars(Sweep(r))

-----------------------------------------------------------------------------
(* Properties.                                                             *)

AttemptsAt(id) == {t \in Attempts : IdOf[t] = id}

Ids == {IdOf[t] : t \in Attempts}

\* All attempts of the id have ended, and none of them was lost.
Over(id) == \A t \in AttemptsAt(id) : pc[t] \in {"refused", "done"}

\* A request charged by a hold, none of whose attempts was answered, is charged
\* nothing: "a refused request or a blocked output is charged nothing"
\* (proxy.go).
UnansweredIsFree ==
  ByHold =>
    \A id \in Ids :
      Over(id) /\ AttemptsAt(id) \cap answered = {} => res[id].status # "settled"

\* A request that was answered, at the first attempt or at a retry, has been
\* settled once all its attempts are over (settleReservation,
\* settleAgentDebit).
AnsweredIsSettled ==
  \A id \in Ids :
    Over(id) /\ AttemptsAt(id) \cap answered # {} =>
      IF ByHold THEN res[id].status = "settled"
      ELSE debit[id].status = "settled"

\* The same of the requests charged by a debit: the claim outlives every
\* attempt, so whichever attempt is answered finds it to settle.
AnsweredDebitIsSettled == ByHold \/ AnsweredIsSettled

\* No hold is kept for ever: whatever crashes, it is settled or given back.
HoldsResolve == \A r \in Reservations : IsHeld(r) ~> ~IsHeld(r)
=============================================================================
