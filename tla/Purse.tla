------------------------------- MODULE Purse -------------------------------
(***************************************************************************)
(* What a workspace's wallet promises, whatever rows it keeps: money is at *)
(* places (the workspace itself and its agents), a question takes money    *)
(* from one place once and gives back at most that, to the same place, and *)
(* no place is ever overdrawn.  Steps are described by what they may do to *)
(* the money, not by how much is asked for.                                *)
(***************************************************************************)
EXTENDS Integers

CONSTANTS
  Places,      \* the workspace's own money and each agent's
  Own,         \* the workspace's place
  Questions,   \* what money is held for
  Capped,      \* those that never cost more than was held
  Limit        \* what the credit line lends at most

VARIABLES
  money,       \* what is at each place
  question,    \* what each question holds, and of which place
  debt         \* what the credit line has lent and was not paid back

purseVars == <<money, question, debt>>

Unasked == [phase |-> "new", place |-> Own, held |-> 0]

Closed == [phase |-> "closed", place |-> Own, held |-> 0]

Question == [phase : {"new", "open", "closed"}, place : Places, held : Nat]

PurseInit ==
  /\ money = [p \in Places |-> 0]
  /\ question = [q \in Questions |-> Unasked]
  /\ debt = 0

\* Money moves at the places S and nowhere else.
OnlyAt(S) == \A p \in Places \ S : money'[p] = money[p]

OnlyQuestion(q) == \A r \in Questions \ {q} : question'[r] = question[r]

\* The line may lend to place p in this step: to agents, within its limit.
Lends(p) ==
  /\ debt' >= debt
  /\ debt' > debt => p # Own /\ debt' <= Limit

Lent == debt' - debt

\* The workspace is credited, or spends of its own.
OwnMoney == OnlyAt({Own}) /\ UNCHANGED <<question, debt>>

\* Money goes from one place to another.
Move(p, q) ==
  /\ money'[p] + money'[q] = money[p] + money[q]
  /\ OnlyAt({p, q})
  /\ UNCHANGED <<question, debt>>

\* A question takes its money, and what the place lacks is lent to it.
Open(q, p) ==
  /\ question[q] = Unasked
  /\ question'[q].phase = "open" /\ question'[q].place = p
  /\ money'[p] + question'[q].held = money[p] + Lent
  /\ Lends(p)
  /\ OnlyAt({p}) /\ OnlyQuestion(q)

\* A question ends: its place gets back at most what was held.  One that is
\* not capped may cost more instead, which the line may lend.
Close(q) ==
  LET p == question[q].place
  IN /\ question[q].phase = "open"
     /\ question'[q] = Closed
     /\ money'[p] <= money[p] + question[q].held + Lent
     /\ q \in Capped => money'[p] >= money[p] /\ debt' = debt
     /\ Lends(p)
     /\ OnlyAt({p}) /\ OnlyQuestion(q)

\* The company pays the line.
Repay == debt' < debt /\ UNCHANGED <<money, question>>

PurseStep ==
  \/ OwnMoney
  \/ \E p, q \in Places : p # q /\ Move(p, q)
  \/ \E q \in Questions, p \in Places : Open(q, p)
  \/ \E q \in Questions : Close(q)
  \/ Repay

\* No step overdraws a place.
PurseNext ==
  /\ PurseStep
  /\ money' \in [Places -> Nat]
  /\ question' \in [Questions -> Question]
  /\ debt' \in Nat

PurseSpec == PurseInit /\ [][PurseNext]_purseVars
=============================================================================
