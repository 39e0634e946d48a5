---------------------------- MODULE ServeProofs ----------------------------
(***************************************************************************)
(* What is proved of the charging of requests (AgentServe): whatever the   *)
(* proxy does with its attempts, retries, crashes and sweeps is something  *)
(* the wallet's own specification allows, so all that is proved of the     *)
(* wallet holds of it; and a request is charged if, and only if, it was    *)
(* answered.                                                               *)
(***************************************************************************)
EXTENDS AgentServe, AgentWalletProofs

-----------------------------------------------------------------------------
(* The proxy over the wallet.                                              *)

\* The id of an attempt is one of the wallet's reservations and debits, and its
\* key one of the workspace's keys.
LEMMA AttemptConstants ==
  ASSUME NEW t \in Attempts
  PROVE  /\ IdOf[t] \in Reservations /\ IdOf[t] \in Debits
         /\ KeyOf[t] \in Keys /\ Estimate \in Amounts /\ 0 \in Delivered
BY ServeConstants

\* A step of an attempt is a step of the wallet, or leaves it alone.
LEMMA StepMovesWallet ==
  ASSUME NEW t \in Attempts, Step(t) \/ Lose(t)
  PROVE  [Next]_vars
<1>0. /\ IdOf[t] \in Reservations /\ IdOf[t] \in Debits
      /\ KeyOf[t] \in Keys /\ Estimate \in Amounts /\ 0 \in Delivered
  BY AttemptConstants
<1>1. CASE AdmitWithHold(t)
  <2>1. CASE UNCHANGED vars
    BY <2>1
  <2>2. CASE \E bps \in FeeRates :
               ReserveLXCForAgent(KeyOf[t], IdOf[t], Estimate, bps)
    BY <1>0, <2>2 DEF Reserve, Next
  <2>3. QED
    BY <1>1, <2>1, <2>2 DEF AdmitWithHold
<1>2. CASE AdmitWithDebit(t)
  <2>1. CASE UNCHANGED vars
    BY <2>1
  <2>2. CASE \E bps \in FeeRates :
               SpendLXCForAgent(KeyOf[t], IdOf[t], Estimate, bps)
    BY <1>0, <2>2 DEF PreServeDebit, Next
  <2>3. QED
    BY <1>2, <2>1, <2>2 DEF AdmitWithDebit
<1>3. CASE SettleAnswered(t)
  <2>1. CASE UNCHANGED vars
    BY <2>1
  <2>2. CASE \E n \in Delivered : SettleLXCReservation(IdOf[t], n)
    BY <1>0, <2>2 DEF Settle, Next
  <2>3. CASE \E n, rules \in Delivered : SettleAgentDebit(IdOf[t], n, rules)
    BY <1>0, <2>3 DEF DebitSettle, Next
  <2>4. QED
    BY <1>3, <2>1, <2>2, <2>3 DEF SettleAnswered
<1>4. CASE SettleCached(t)
  <2>1. CASE UNCHANGED vars
    BY <2>1
  <2>2. CASE ReleaseLXCReservation(IdOf[t])
    BY <1>0, <2>2 DEF Release, Next
  <2>3. CASE /\ debit[IdOf[t]].status = "debited"
             /\ \E rules \in Delivered : SettleAgentDebit(IdOf[t], 0, rules)
    BY <1>0, <2>3 DEF DebitSettle, Next
  <2>4. QED
    BY <1>4, <2>1, <2>2, <2>3 DEF SettleCached
<1>5. CASE ReleaseUnanswered(t)
  <2>1. CASE UNCHANGED vars
    BY <2>1
  <2>2. CASE ReleaseLXCReservation(IdOf[t])
    BY <1>0, <2>2 DEF Release, Next
  <2>3. QED
    BY <1>5, <2>1, <2>2 DEF ReleaseUnanswered
<1>6. CASE Refuse(t) \/ Answer(t) \/ OwnCacheHit(t) \/ UpstreamFails(t)
           \/ Lose(t)
  BY <1>6 DEF Refuse, Answer, OwnCacheHit, UpstreamFails, Lose
<1>7. QED
  BY <1>1, <1>2, <1>3, <1>4, <1>5, <1>6 DEF Step
\* Every step of the proxy is a step of the wallet, or leaves it alone.
LEMMA ServeMovesWallet ==
  ASSUME [ServeNext]_serveVars
  PROVE  [Next]_vars
<1>1. CASE \E t \in Attempts : Step(t) \/ Lose(t)
  BY <1>1, StepMovesWallet
<1>2. CASE \E r \in Reservations : Sweep(r)
  BY <1>2 DEF Sweep, Release, Next
<1>3. CASE FundWallet
  BY <1>3 DEF FundWallet, Next
<1>4. CASE UNCHANGED serveVars
  BY <1>4 DEF serveVars
<1>5. QED
  BY <1>1, <1>2, <1>3, <1>4 DEF ServeNext

\* Admissions, settles, releases, retries, crashes and sweeps, in whatever order
\* they come, do to the wallet only what its specification says: every theorem
\* of AgentWallet's Spec holds while the proxy serves.
THEOREM ServingIsWalletWork == ServeSpec => Spec
<1>1. ServeInit => Init
  BY DEF ServeInit
<1>2. [ServeNext]_serveVars => [Next]_vars
  BY ServeMovesWallet
<1>3. QED
  BY <1>1, <1>2, PTL DEF ServeSpec, Spec

\* Among them that the agents' money stays covered by the workspace's balance.
THEOREM ServedAgentsCovered == ServeSpec => []AgentsCovered
BY ServingIsWalletWork, AgentsAlwaysCovered, PTL

-----------------------------------------------------------------------------
(* What is charged, and what was answered.                                 *)

Places == {"new", "refused", "serving", "answered", "cached", "failed", "done",
           "lost"}

ServeTypes ==
  /\ WalletInv
  /\ pc \in [Attempts -> Places]
  /\ answered \subseteq Attempts

\* An attempt is among the answered from its answer on, and only from then on.
AnswersKnown ==
  \A t \in Attempts :
    /\ pc[t] = "answered" => t \in answered
    /\ t \in answered => pc[t] \in {"answered", "done", "lost"}

\* What makes UnansweredIsFree inductive: a hold that was settled had an answered
\* attempt, whether or not its attempts are over.
ChargedWasAnswered ==
  ByHold => \A r \in Reservations :
              res[r].status = "settled" => AttemptsAt(r) \cap answered # {}

\* What makes AnsweredDebitIsSettled inductive: the claim is there from the
\* admission on, and the attempt that was answered leaves it settled.
ClaimOutlives ==
  ~ByHold => \A t \in Attempts :
    /\ pc[t] \notin {"new", "refused"} => debit[IdOf[t]].status # "none"
    /\ pc[t] = "done" /\ t \in answered => debit[IdOf[t]].status = "settled"

ServeInv == ServeTypes /\ AnswersKnown /\ ChargedWasAnswered /\ ClaimOutlives

\* The invariant holds at first.
LEMMA ServeInitInv == ServeInit => ServeInv
<1> SUFFICES ASSUME ServeInit PROVE ServeInv
  OBVIOUS
<1>1. WalletInv
  BY InitInv DEF ServeInit
<1>2. \A r \in Reservations : res[r].status = "none"
  BY DEF ServeInit, Init, NoReservation
<1>3. QED
  BY <1>1, <1>2 DEF ServeInit, ServeInv, ServeTypes, AnswersKnown,
     ChargedWasAnswered, ClaimOutlives, Places

\* What the wallet's operations do to the status of a hold.
LEMMA HoldStatuses ==
  ASSUME WalletTyped, NEW r \in Reservations
  PROVE  /\ \A k, n, bps : ReserveLXCForAgent(k, r, n, bps) =>
              \A q \in Reservations : res'[q].status = "settled" =>
                                        res[q].status = "settled"
         /\ ReleaseLXCReservation(r) =>
              \A q \in Reservations : res'[q].status = "settled" =>
                                        res[q].status = "settled"
         /\ \A n : SettleLXCReservation(r, n) =>
              \A q \in Reservations \ {r} : res'[q] = res[q]
<1>1. DOMAIN res = Reservations /\ res[r] \in Reservation
  BY DEF WalletTyped
<1>2. ASSUME NEW k, NEW n, NEW bps, ReserveLXCForAgent(k, r, n, bps),
             NEW q \in Reservations, res'[q].status = "settled"
      PROVE  res[q].status = "settled"
  BY <1>1, <1>2 DEF ReserveLXCForAgent
<1>3. ASSUME ReleaseLXCReservation(r),
             NEW q \in Reservations, res'[q].status = "settled"
      PROVE  res[q].status = "settled"
  <2>1. res' = [res EXCEPT ![r].status = "released"]
    BY <1>3 DEF ReleaseLXCReservation
  <2>2. QED
    BY <1>1, <1>3, <2>1 DEF Reservation
<1>4. ASSUME NEW n, SettleLXCReservation(r, n), NEW q \in Reservations \ {r}
      PROVE  res'[q] = res[q]
  BY <1>1, <1>4 DEF SettleLXCReservation
<1>5. QED
  BY <1>2, <1>3, <1>4

\* What they do to the status of a claim.
LEMMA ClaimStatuses ==
  ASSUME WalletTyped, NEW d \in Debits
  PROVE  /\ \A k, n, bps : SpendLXCForAgent(k, d, n, bps) =>
              /\ debit'[d].status = "debited" /\ debit[d].status = "none"
              /\ \A e \in Debits \ {d} : debit'[e] = debit[e]
         /\ \A n, rules : SettleAgentDebit(d, n, rules) =>
              /\ debit'[d].status = "settled"
              /\ \A e \in Debits \ {d} : debit'[e] = debit[e]
<1>1. DOMAIN debit = Debits /\ debit[d] \in DebitRow
  BY DEF WalletTyped
<1>2. ASSUME NEW k, NEW n, NEW bps, SpendLXCForAgent(k, d, n, bps)
      PROVE  /\ debit'[d].status = "debited" /\ debit[d].status = "none"
             /\ \A e \in Debits \ {d} : debit'[e] = debit[e]
  BY <1>1, <1>2 DEF SpendLXCForAgent
<1>3. ASSUME NEW n, NEW rules, SettleAgentDebit(d, n, rules)
      PROVE  /\ debit'[d].status = "settled"
             /\ \A e \in Debits \ {d} : debit'[e] = debit[e]
  <2>1. PICK charge :
          debit' = [debit EXCEPT ![d].status = "settled", ![d].charge = charge]
    BY <1>3 DEF SettleAgentDebit
  <2>2. QED
    BY <1>1, <2>1 DEF DebitRow
<1>4. QED
  BY <1>2, <1>3
\* An attempt's step moves the place of that attempt only.
LEMMA GotoPlace ==
  ASSUME ServeTypes, NEW t \in Attempts, NEW place \in Places, Goto(t, place)
  PROVE  /\ pc' \in [Attempts -> Places] /\ pc'[t] = place
         /\ \A u \in Attempts \ {t} : pc'[u] = pc[u]
BY DEF ServeTypes, Goto

\* Admission by a hold settles nothing; by a debit it leaves the claim there.
LEMMA AdmitServeInv ==
  ASSUME ServeInv, WalletInv', NEW t \in Attempts,
         AdmitWithHold(t) \/ AdmitWithDebit(t)
  PROVE  ServeInv'
<1> USE DEF ServeInv
<1>0. /\ WalletTyped /\ IdOf[t] \in Reservations /\ IdOf[t] \in Debits
      /\ pc[t] = "new" /\ mode' = mode /\ answered' = answered
      /\ \A u \in Attempts : IdOf[u] \in Debits
  BY AttemptConstants DEF ServeTypes, WalletInv, AdmitWithHold, AdmitWithDebit
<1>1. /\ pc' \in [Attempts -> Places] /\ pc'[t] = "serving"
      /\ \A u \in Attempts \ {t} : pc'[u] = pc[u]
  <2>1. Goto(t, "serving")
    BY DEF AdmitWithHold, AdmitWithDebit
  <2>2. QED
    BY <2>1, GotoPlace DEF Places
<1>2. ServeTypes' /\ AnswersKnown'
  BY <1>0, <1>1 DEF ServeTypes, AnswersKnown
<1>3. CASE AdmitWithHold(t)
  <2>1. \A r \in Reservations : res'[r].status = "settled" =>
                                 res[r].status = "settled"
    <3>1. CASE UNCHANGED vars
      BY <3>1 DEF vars
    <3>2. CASE \E bps \in FeeRates :
                 ReserveLXCForAgent(KeyOf[t], IdOf[t], Estimate, bps)
      BY <1>0, <3>2, HoldStatuses
    <3>3. QED
      BY <1>3, <3>1, <3>2 DEF AdmitWithHold
  <2>2. ByHold /\ ByHold'
    BY <1>0, <1>3 DEF AdmitWithHold, ByHold
  <2>3. ChargedWasAnswered' /\ ClaimOutlives'
    BY <1>0, <2>1, <2>2 DEF ChargedWasAnswered, ClaimOutlives, AttemptsAt
  <2>4. QED
    BY <1>2, <2>3
<1>4. CASE AdmitWithDebit(t)
  <2>1. /\ debit'[IdOf[t]].status # "none"
        /\ \A e \in Debits : debit[e].status # "none" => debit'[e] = debit[e]
    <3>1. CASE debit[IdOf[t]].status # "none" /\ UNCHANGED vars
      BY <3>1 DEF vars
    <3>2. CASE \E bps \in FeeRates :
                 SpendLXCForAgent(KeyOf[t], IdOf[t], Estimate, bps)
      <4>1. /\ debit'[IdOf[t]].status = "debited"
            /\ debit[IdOf[t]].status = "none"
            /\ \A e \in Debits \ {IdOf[t]} : debit'[e] = debit[e]
        BY <1>0, <3>2, ClaimStatuses
      <4>2. QED
        BY <4>1
    <3>3. QED
      BY <1>4, <3>1, <3>2 DEF AdmitWithDebit
  <2>2. ~ByHold /\ ~ByHold'
    BY <1>0, <1>4 DEF AdmitWithDebit, ByHold
  <2>3. t \notin answered
    BY <1>0 DEF AnswersKnown
  <2>4. ASSUME NEW u \in Attempts
        PROVE  /\ pc'[u] \notin {"new", "refused"} =>
                    debit'[IdOf[u]].status # "none"
               /\ pc'[u] = "done" /\ u \in answered =>
                    debit'[IdOf[u]].status = "settled"
    BY <1>0, <1>1, <2>1, <2>2, <2>3 DEF ClaimOutlives
  <2>5. ChargedWasAnswered' /\ ClaimOutlives'
    BY <1>0, <2>2, <2>4 DEF ChargedWasAnswered, ClaimOutlives
  <2>6. QED
    BY <1>2, <2>5
<1>5. QED
  BY <1>3, <1>4

\* The steps that leave the wallet alone: a refusal, the three ends of a serve
\* and a crash.
LEMMA PlainServeInv ==
  ASSUME ServeInv, WalletInv', NEW t \in Attempts,
         \/ Refuse(t) \/ Answer(t) \/ OwnCacheHit(t) \/ UpstreamFails(t)
         \/ Lose(t)
  PROVE  ServeInv'
<1> USE DEF ServeInv
<1>1. res' = res /\ debit' = debit /\ mode' = mode
  BY DEF Refuse, Answer, OwnCacheHit, UpstreamFails, Lose, vars
<1>2. PICK place \in {"refused", "answered", "cached", "failed", "lost"} :
        /\ Goto(t, place)
        /\ place = "refused" => pc[t] = "new"
        /\ place # "refused" => pc[t] \in {"serving", "answered", "cached",
                                           "failed"}
        /\ place \in {"answered", "cached", "failed"} => pc[t] = "serving"
        /\ answered' = IF place = "answered" THEN answered \cup {t} ELSE answered
  BY DEF Refuse, Answer, OwnCacheHit, UpstreamFails, Lose, Live
<1>3. /\ pc' \in [Attempts -> Places] /\ pc'[t] = place
      /\ \A u \in Attempts \ {t} : pc'[u] = pc[u]
  BY <1>2, GotoPlace DEF Places
<1>4. ServeTypes'
  BY <1>2, <1>3 DEF ServeTypes
<1>5. AnswersKnown'
  BY <1>2, <1>3 DEF AnswersKnown
<1>6. ChargedWasAnswered'
  BY <1>1, <1>2 DEF ChargedWasAnswered, ByHold, AttemptsAt
<1>7. ClaimOutlives'
  BY <1>1, <1>2, <1>3 DEF ClaimOutlives, ByHold
<1>8. QED
  BY <1>4, <1>5, <1>6, <1>7
\* The settle of an answered attempt: its hold is settled only now that it was
\* answered, and its claim is settled after it.
LEMMA SettleServeInv ==
  ASSUME ServeInv, WalletInv', NEW t \in Attempts, SettleAnswered(t)
  PROVE  ServeInv'
<1> USE DEF ServeInv
<1>0. /\ WalletTyped /\ IdOf[t] \in Reservations /\ IdOf[t] \in Debits
      /\ pc[t] = "answered" /\ mode' = mode /\ answered' = answered
      /\ t \in answered
      /\ \A u \in Attempts : IdOf[u] \in Debits
  BY AttemptConstants
  DEF ServeTypes, WalletInv, SettleAnswered, AnswersKnown
<1>1. /\ pc' \in [Attempts -> Places] /\ pc'[t] = "done"
      /\ \A u \in Attempts \ {t} : pc'[u] = pc[u]
  <2>1. Goto(t, "done")
    BY DEF SettleAnswered
  <2>2. QED
    BY <2>1, GotoPlace DEF Places
<1>2. ServeTypes' /\ AnswersKnown'
  BY <1>0, <1>1 DEF ServeTypes, AnswersKnown
<1>3. CASE ByHold
  <2>1. \A r \in Reservations \ {IdOf[t]} : res'[r] = res[r]
    <3>1. CASE UNCHANGED vars
      BY <3>1 DEF vars
    <3>2. CASE \E n \in Delivered : SettleLXCReservation(IdOf[t], n)
      BY <1>0, <3>2, HoldStatuses
    <3>3. QED
      BY <1>3, <3>1, <3>2 DEF SettleAnswered
  <2>2. t \in AttemptsAt(IdOf[t]) \cap answered
    BY <1>0 DEF AttemptsAt
  <2>3. ChargedWasAnswered' /\ ClaimOutlives'
    BY <1>0, <1>3, <2>1, <2>2
    DEF ChargedWasAnswered, ClaimOutlives, ByHold, AttemptsAt
  <2>4. QED
    BY <1>2, <2>3
<1>4. CASE ~ByHold
  <2>1. /\ debit'[IdOf[t]].status = "settled"
        /\ \A e \in Debits \ {IdOf[t]} : debit'[e] = debit[e]
    <3>1. CASE debit[IdOf[t]].status = "debited"
      <4>1. \E n, rules \in Delivered : SettleAgentDebit(IdOf[t], n, rules)
        BY <1>4, <3>1 DEF SettleAnswered
      <4>2. QED
        BY <1>0, <4>1, ClaimStatuses
    <3>2. CASE debit[IdOf[t]].status # "debited"
      <4>1. UNCHANGED vars
        BY <1>4, <3>2 DEF SettleAnswered
      <4>2. debit[IdOf[t]].status \in {"none", "debited", "settled"}
        BY <1>0 DEF WalletTyped, DebitRow
      <4>3. debit[IdOf[t]].status # "none"
        BY <1>0, <1>4 DEF ClaimOutlives
      <4>4. QED
        BY <3>2, <4>1, <4>2, <4>3 DEF vars
    <3>3. QED
      BY <3>1, <3>2
  <2>2. ASSUME NEW u \in Attempts
        PROVE  /\ pc'[u] \notin {"new", "refused"} =>
                    debit'[IdOf[u]].status # "none"
               /\ pc'[u] = "done" /\ u \in answered =>
                    debit'[IdOf[u]].status = "settled"
    BY <1>0, <1>1, <1>4, <2>1 DEF ClaimOutlives
  <2>3. ChargedWasAnswered' /\ ClaimOutlives'
    BY <1>0, <1>4, <2>2 DEF ChargedWasAnswered, ClaimOutlives, ByHold
  <2>4. QED
    BY <1>2, <2>3
<1>5. QED
  BY <1>3, <1>4

\* The end of an attempt that was not answered: a hold is released, a claim is
\* settled or stays, and neither changes what was answered.
LEMMA UnansweredServeInv ==
  ASSUME ServeInv, WalletInv', NEW t \in Attempts,
         SettleCached(t) \/ ReleaseUnanswered(t)
  PROVE  ServeInv'
<1> USE DEF ServeInv
<1>0. /\ WalletTyped /\ IdOf[t] \in Reservations /\ IdOf[t] \in Debits
      /\ pc[t] \in {"cached", "failed"} /\ mode' = mode
      /\ answered' = answered
      /\ \A u \in Attempts : IdOf[u] \in Debits
  BY AttemptConstants
  DEF ServeTypes, WalletInv, SettleCached, ReleaseUnanswered
<1>1. /\ pc' \in [Attempts -> Places] /\ pc'[t] = "done"
      /\ \A u \in Attempts \ {t} : pc'[u] = pc[u]
  <2>1. Goto(t, "done")
    BY DEF SettleCached, ReleaseUnanswered
  <2>2. QED
    BY <2>1, GotoPlace DEF Places
<1>2. t \notin answered
  BY <1>0 DEF AnswersKnown
<1>3. ServeTypes' /\ AnswersKnown'
  BY <1>0, <1>1, <1>2 DEF ServeTypes, AnswersKnown
<1>4. ByHold => \A r \in Reservations : res'[r].status = "settled" =>
                                         res[r].status = "settled"
  <2>1. CASE UNCHANGED vars
    BY <2>1 DEF vars
  <2>2. CASE ReleaseLXCReservation(IdOf[t])
    BY <1>0, <2>2, HoldStatuses
  <2>3. QED
    BY <2>1, <2>2 DEF SettleCached, ReleaseUnanswered
<1>5. ~ByHold => \A e \in Debits : \/ debit'[e] = debit[e]
                                   \/ debit'[e].status = "settled"
  <2>1. CASE UNCHANGED vars
    BY <2>1 DEF vars
  <2>2. CASE \E rules \in Delivered : SettleAgentDebit(IdOf[t], 0, rules)
    BY <1>0, <2>2, ClaimStatuses
  <2>3. QED
    BY <2>1, <2>2 DEF SettleCached, ReleaseUnanswered
<1>6. ChargedWasAnswered'
  BY <1>0, <1>4 DEF ChargedWasAnswered, ByHold, AttemptsAt
<1>7. ASSUME ~ByHold, NEW u \in Attempts
      PROVE  /\ pc'[u] \notin {"new", "refused"} =>
                  debit'[IdOf[u]].status # "none"
             /\ pc'[u] = "done" /\ u \in answered =>
                  debit'[IdOf[u]].status = "settled"
  BY <1>0, <1>1, <1>2, <1>5, <1>7 DEF ClaimOutlives
<1>8. ClaimOutlives'
  BY <1>0, <1>7 DEF ClaimOutlives, ByHold
<1>9. QED
  BY <1>3, <1>6, <1>8

\* The sweeper releases a hold, the rest of the wallet touches none.
LEMMA OutsideServeInv ==
  ASSUME ServeInv, WalletInv',
         \/ \E r \in Reservations : Sweep(r)
         \/ FundWallet \/ UNCHANGED serveVars
  PROVE  ServeInv'
<1> USE DEF ServeInv
<1>1. mode' = mode /\ pc' = pc /\ answered' = answered
  BY DEF Sweep, FundWallet, serveVars
<1>2. /\ debit' = debit
      /\ \A q \in Reservations : res'[q].status = "settled" =>
                                  res[q].status = "settled"
  <2>1. ASSUME NEW r \in Reservations, Sweep(r)
        PROVE  /\ debit' = debit
               /\ \A q \in Reservations : res'[q].status = "settled" =>
                                           res[q].status = "settled"
    <3>1. ReleaseLXCReservation(r) /\ WalletTyped
      BY <2>1 DEF Sweep, ServeTypes, WalletInv
    <3>2. debit' = debit
      BY <3>1 DEF ReleaseLXCReservation
    <3>3. QED
      BY <3>1, <3>2, HoldStatuses
  <2>2. CASE FundWallet \/ UNCHANGED serveVars
    BY <2>2 DEF FundWallet, serveVars, vars, Credit, CreditLXC, MoveFunds,
       FundAgent, WithdrawAgent
  <2>3. QED
    BY <2>1, <2>2
<1>3. ServeTypes' /\ AnswersKnown'
  BY <1>1 DEF ServeTypes, AnswersKnown
<1>4. ChargedWasAnswered'
  BY <1>1, <1>2 DEF ChargedWasAnswered, ByHold, AttemptsAt
<1>5. ClaimOutlives'
  BY <1>1, <1>2 DEF ClaimOutlives, ByHold
<1>6. QED
  BY <1>3, <1>4, <1>5

\* The inductive invariant of the serve holds of every behaviour.
THEOREM ServeInvHolds == ServeSpec => []ServeInv
<1>1. ASSUME ServeInv, WalletInv', [ServeNext]_serveVars
      PROVE  ServeInv'
  <2>1. WalletInv'
    BY <1>1
  <2>2. ASSUME NEW t \in Attempts, Step(t) \/ Lose(t)
        PROVE  ServeInv'
    <3>1. CASE AdmitWithHold(t) \/ AdmitWithDebit(t)
      BY <1>1, <2>1, <3>1, AdmitServeInv
    <3>2. CASE \/ Refuse(t) \/ Answer(t) \/ OwnCacheHit(t) \/ UpstreamFails(t)
               \/ Lose(t)
      BY <1>1, <2>1, <3>2, PlainServeInv
    <3>3. CASE SettleAnswered(t)
      BY <1>1, <2>1, <3>3, SettleServeInv
    <3>4. CASE SettleCached(t) \/ ReleaseUnanswered(t)
      BY <1>1, <2>1, <3>4, UnansweredServeInv
    <3>5. QED
      BY <2>2, <3>1, <3>2, <3>3, <3>4 DEF Step
  <2>3. CASE \/ \E r \in Reservations : Sweep(r)
             \/ FundWallet \/ UNCHANGED serveVars
    BY <1>1, <2>1, <2>3, OutsideServeInv
  <2>4. QED
    BY <1>1, <2>2, <2>3 DEF ServeNext
<1>2. ServeSpec => []WalletInv
  BY ServingIsWalletWork, WalletInvHolds, PTL
<1>3. QED
  BY <1>1, <1>2, ServeInitInv, PTL DEF ServeSpec

\* Whatever its attempts go through -- retries under the same key, crashes, a
\* sweep of the hold between two of them -- a request none of whose attempts was
\* answered is charged nothing.
THEOREM UnansweredAlwaysFree == ServeSpec => []UnansweredIsFree
<1>1. ServeInv => UnansweredIsFree
  <2> SUFFICES ASSUME ServeInv, ByHold, NEW id \in Ids,
                      AttemptsAt(id) \cap answered = {}
               PROVE  res[id].status # "settled"
    BY DEF UnansweredIsFree
  <2>1. id \in Reservations
    BY AttemptConstants DEF Ids
  <2>2. QED
    BY <2>1 DEF ServeInv, ChargedWasAnswered
<1>2. QED
  BY <1>1, ServeInvHolds, PTL

\* With requests charged by a debit, an answered request whose attempts are all
\* over has been settled, whichever attempt was answered.
THEOREM AnsweredDebitsAlwaysSettled == ServeSpec => []AnsweredDebitIsSettled
<1>1. ServeInv => AnsweredDebitIsSettled
  <2> SUFFICES ASSUME ServeInv, ~ByHold, NEW id \in Ids, Over(id),
                      AttemptsAt(id) \cap answered # {}
               PROVE  debit[id].status = "settled"
    BY DEF AnsweredDebitIsSettled, AnsweredIsSettled
  <2>1. PICK t \in Attempts : IdOf[t] = id /\ t \in answered
    BY DEF AttemptsAt
  <2>2. pc[t] \in {"refused", "done"}
    BY <2>1 DEF Over, AttemptsAt
  <2>3. pc[t] = "done"
    BY <2>1, <2>2 DEF ServeInv, AnswersKnown
  <2>4. QED
    BY <2>1, <2>3 DEF ServeInv, ClaimOutlives
<1>2. QED
  BY <1>1, ServeInvHolds, PTL
=============================================================================
