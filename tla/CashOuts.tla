----------------------------- MODULE CashOuts ------------------------------
(***************************************************************************)
(* Agents' cash-outs (internal/economy/agent_cash_outs.go): credits held,  *)
(* handed to the partner, and gone or given back as it says.  Every server *)
(* runs RunCashOuts each minute over the cash-outs it found open, oldest   *)
(* first, stopping at the partner's first error; a call to the partner is  *)
(* made with the row locked, and the commit after it may be lost.          *)
(***************************************************************************)
EXTENDS Integers, FiniteSets

CONSTANTS
  CashIds,     \* cash-outs, numbered in the order of created_at, id
  TickServers, \* servers that run the tick
  NoServer,    \* the holder of a row nobody has locked
  CashAmount,  \* what each cash-out takes
  CashOpening  \* what the agent holds at first

ASSUME CashConstants ==
  /\ CashIds \subseteq Nat /\ IsFiniteSet(CashIds)
  /\ NoServer \notin TickServers /\ CashAmount \in Nat \ {0} /\ CashOpening \in Nat

VARIABLES
  purse,      \* the agent's account
  cashOut,    \* agent_cash_outs.status, by id
  cashLock,   \* the server that has the row locked, by id
  tick,       \* what is left of each server's run: <<id, status>> pairs
  payout      \* the partner's record, by id

cashVars == <<purse, cashOut, cashLock, tick, payout>>

CashInit ==
  /\ purse = CashOpening
  /\ cashOut = [c \in CashIds |-> "none"]
  /\ cashLock = [c \in CashIds |-> NoServer]
  /\ tick = [s \in TickServers |-> {}]
  /\ payout = [c \in CashIds |-> "none"]

\* RequestCashOut's transaction.  Ids are given in order.
RequestCashOut(c) ==
  /\ \A d \in CashIds : d < c => cashOut[d] # "none"
  /\ cashOut[c] = "none" /\ purse >= CashAmount
  /\ cashOut' = [cashOut EXCEPT ![c] = "held"]
  /\ purse' = purse - CashAmount
  /\ UNCHANGED <<cashLock, tick, payout>>

\* ... and its own submitCashOut, of a server with no run under way.
HandOver(s, c) ==
  /\ tick[s] = {} /\ cashOut[c] = "held"
  /\ tick' = [tick EXCEPT ![s] = {<<c, "held">>}]
  /\ UNCHANGED <<purse, cashOut, cashLock, payout>>

-----------------------------------------------------------------------------
(* RunCashOuts.                                                            *)

\* Mutant: only what was never handed over is run.
DueOnlyHeld(status) == status = "held"

DueCashOut(status) == status \in {"held", "submitted"}

StartTick(s) ==
  LET open == {c \in CashIds : DueCashOut(cashOut[c])} IN
  /\ tick[s] = {} /\ open # {}
  /\ tick' = [tick EXCEPT ![s] = {<<c, cashOut[c]>> : c \in open}]
  /\ UNCHANGED <<purse, cashOut, cashLock, payout>>

\* The row a run is at: the oldest of those left, in the status it was found.
CurrentRow(s, c, status) ==
  <<c, status>> \in tick[s] /\ \A row \in tick[s] : c <= row[1]

Rest(s, c) == {row \in tick[s] : row[1] # c}

\* Mutant: the row is taken as the run found it, and not locked.
TakenAsFound(c, status) == TRUE

\* FOR UPDATE SKIP LOCKED, of a row still in the status the run found.
RowTaken(c, status) == cashOut[c] = status /\ cashLock[c] = NoServer

\* The next row is locked; one decided, moved on or locked meanwhile is left.
TakeRow(s, c, status) ==
  /\ CurrentRow(s, c, status) /\ \A d \in CashIds : cashLock[d] # s
  /\ IF RowTaken(c, status)
       THEN cashLock' = [cashLock EXCEPT ![c] = s] /\ UNCHANGED tick
       ELSE tick' = [tick EXCEPT ![s] = Rest(s, c)] /\ UNCHANGED cashLock
  /\ UNCHANGED <<purse, cashOut, payout>>

HasRow(s, c, status) == CurrentRow(s, c, status) /\ cashLock[c] = s

Unlock(s, c, rest) ==
  /\ cashLock' = [cashLock EXCEPT ![c] = NoServer]
  /\ tick' = [tick EXCEPT ![s] = rest]

\* submitCashOut: the partner takes it, once per id; the commit may be lost.
Pay(c) == payout' = [payout EXCEPT ![c] = IF @ = "none" THEN "submitted" ELSE @]

SubmitCashOut(s, c) ==
  /\ HasRow(s, c, "held")
  /\ Pay(c)
  /\ cashOut' = [cashOut EXCEPT ![c] = "submitted"]
  /\ Unlock(s, c, Rest(s, c))
  /\ UNCHANGED purse

SubmitLost(s, c) ==
  /\ HasRow(s, c, "held")
  /\ Pay(c) \/ UNCHANGED payout
  /\ Unlock(s, c, {})
  /\ UNCHANGED <<purse, cashOut>>

\* settleCashOut: what the partner says is recorded.
SettleCashOut(s, c) ==
  /\ HasRow(s, c, "submitted")
  /\ IF payout[c] = "submitted" THEN UNCHANGED <<cashOut, purse>>
       ELSE /\ cashOut' = [cashOut EXCEPT ![c] = payout[c]]
            /\ purse' = purse + (IF payout[c] = "failed" THEN CashAmount ELSE 0)
  /\ Unlock(s, c, Rest(s, c))
  /\ UNCHANGED payout

\* The partner does not answer, or the server dies: the run ends.
SettleLost(s, c) ==
  /\ HasRow(s, c, "submitted")
  /\ Unlock(s, c, {})
  /\ UNCHANGED <<purse, cashOut, payout>>

\* The partner makes the payment or fails to.
PartnerSettles(c) ==
  /\ payout[c] = "submitted"
  /\ \E r \in {"paid", "failed"} : payout' = [payout EXCEPT ![c] = r]
  /\ UNCHANGED <<purse, cashOut, cashLock, tick>>

RunStep(s) ==
  \/ StartTick(s)
  \/ \E c \in CashIds : \/ TakeRow(s, c, "held") \/ TakeRow(s, c, "submitted")
                        \/ SubmitCashOut(s, c) \/ SubmitLost(s, c)
                        \/ SettleCashOut(s, c) \/ SettleLost(s, c)

CashNext ==
  \/ \E c \in CashIds : \/ RequestCashOut(c) \/ PartnerSettles(c)
                        \/ \E s \in TickServers : HandOver(s, c)
  \/ \E s \in TickServers : RunStep(s)

\* The minute's tick keeps running on every server, the partner settles what
\* it took, and of the calls made for a cash-out not all fail forever.
Answered(c) ==
  \E s \in TickServers : SubmitCashOut(s, c) \/ SettleCashOut(s, c)

CashFairness ==
  /\ \A s \in TickServers : WF_cashVars(RunStep(s))
  /\ \A c \in CashIds : /\ WF_cashVars(PartnerSettles(c))
                        /\ SF_cashVars(Answered(c))

CashSpec == CashInit /\ [][CashNext]_cashVars /\ CashFairness

-----------------------------------------------------------------------------
(* What is checked.                                                        *)

\* Every variable holds a value of its kind, and a lock's holder is running.
CashTypeOK ==
  /\ purse \in Nat
  /\ \A c \in CashIds : /\ cashOut[c] \in {"none", "held", "submitted", "paid",
                                       "failed"}
                    /\ cashLock[c] # NoServer => tick[cashLock[c]] # {}

CountIn(states) == Cardinality({c \in CashIds : cashOut[c] \in states})

\* The agent is out exactly the cash-outs open or paid, and credits come back
\* only for a payment the partner did not make: no two servers, lost commit
\* or repeated call settles a cash-out twice.
CashOutsReconcile ==
  /\ purse + CashAmount * CountIn({"held", "submitted", "paid"}) = CashOpening
  /\ \A c \in CashIds : cashOut[c] \in {"paid", "failed"} => payout[c] = cashOut[c]

\* Every cash-out asked for is decided, whatever the earlier ones in the run
\* meet, as long as the partner answers now and then.
CashOutsDecided ==
  \A c \in CashIds : cashOut[c] = "held" ~> cashOut[c] \in {"paid", "failed"}
=============================================================================
