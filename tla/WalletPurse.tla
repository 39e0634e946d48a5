---------------------------- MODULE WalletPurse ----------------------------
(* The wallet of AgentWallet implements the purse: the mapping.            *)
EXTENDS AgentWallet

PurseQuestions == ({"hold"} \X Reservations) \cup ({"debit"} \X Debits)

PurseMoney ==
  [p \in Agents \cup {NoAgent} |->
     IF p = NoAgent THEN balance - allocated ELSE agentBal[p]]

NewQuestion == [phase |-> "new", place |-> NoAgent, held |-> 0]

ClosedQuestion == [phase |-> "closed", place |-> NoAgent, held |-> 0]

OpenQuestion(k, n) == [phase |-> "open", place |-> AgentOf[k], held |-> n]

HoldQuestion(r) ==
  IF res[r].status = "none" THEN NewQuestion
  ELSE IF res[r].status = "held" THEN OpenQuestion(res[r].key, res[r].held)
  ELSE ClosedQuestion

DebitQuestion(d) ==
  IF debit[d].status = "none" THEN NewQuestion
  ELSE IF debit[d].status = "debited"
    THEN OpenQuestion(debit[d].key, Gross(debit[d].amount, debit[d].bps))
  ELSE ClosedQuestion

PurseQuestion ==
  [q \in PurseQuestions |-> IF q[1] = "hold" THEN HoldQuestion(q[2])
                            ELSE DebitQuestion(q[2])]

P == INSTANCE Purse
       WITH Places <- Agents \cup {NoAgent}, Own <- NoAgent,
            Questions <- PurseQuestions,
            Capped <- {"hold"} \X Reservations, Limit <- LineLimit,
            money <- PurseMoney, question <- PurseQuestion,
            debt <- line.used

\* The wallet is a purse: every operation moves money between the workspace's
\* own and its agents', or takes it for one question and gives the rest back
\* once to where it came from, and overdraws nobody -- through late refunds,
\* archived agents, lent money and settles above the estimate
\* (reserveLXCForAgent, settleLXCReservation, releaseLXCReservation,
\* spendLXCForAgent, settleAgentDebit, moveAgentFunds).
IsAPurse == P!PurseSpec
=============================================================================
