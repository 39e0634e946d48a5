----------------------------- MODULE NodeStakes -----------------------------
(***************************************************************************)
(* The collateral of one workspace's inference nodes: staking, unbonding   *)
(* and release (povi/stakes.go over mining/stake_ledger.go), and the       *)
(* challenges that burn it (povi/challenge.go).  A stake operation is one  *)
(* transaction under the node's advisory lock; a challenge is several      *)
(* steps, run by any server of the cluster, which may die between them.    *)
(***************************************************************************)
EXTENDS Integers, Totals

CONSTANTS Nodes, Receipts, ServedBy,   \* the node each receipt is about
          Challengers, NoReceipt,
          StakeAmounts, LensOpening,
          UnbondPeriod, LastDay,
          SlashNum, SlashDen           \* slashFraction, in (0, 1]

ASSUME StakeAssumption ==
  /\ IsFiniteSet(Nodes)
  /\ ServedBy \in [Receipts -> Nodes]
  /\ NoReceipt \notin Receipts
  /\ StakeAmounts \subseteq Nat \ {0}
  /\ {LensOpening, UnbondPeriod, LastDay} \subseteq Nat
  /\ SlashNum \in Nat \ {0} /\ SlashDen \in Nat /\ SlashNum <= SlashDen

VARIABLES
  free,        \* lens_token_balances.balance
  locked,      \* lens_token_balances.locked_balance
  burned,      \* what stake_slash rows took out of the supply
  stake,       \* povi_stakes
  today,
  challenge,   \* povi_challenges, one row a receipt at most
  challenger,  \* where each server is in Challenge()
  slashes      \* history: the slashes committed for each receipt

stakeVars == <<free, locked, burned, stake, today, challenge, challenger, slashes>>

NoStake == [status |-> "none", amount |-> 0, slashed |-> 0, unbondAt |-> 0]
NotChallenged == [result |-> "none", slashed |-> 0]
IdleChallenger == [pc |-> "idle", receipt |-> NoReceipt, result |-> "none", slashed |-> 0]

StakeInit ==
  /\ free = LensOpening /\ locked = 0 /\ burned = 0
  /\ stake = [n \in Nodes |-> NoStake]
  /\ today = 0
  /\ challenge = [r \in Receipts |-> NotChallenged]
  /\ challenger = [c \in Challengers |-> IdleChallenger]
  /\ slashes = [r \in Receipts |-> 0]

-----------------------------------------------------------------------------
\* Stake() tops up an active stake and writes a fresh record over any other.
Staked(st, a) ==
  IF st.status = "active"
  THEN [st EXCEPT !.amount = @ + a]
  ELSE [status |-> "active", amount |-> a, slashed |-> 0, unbondAt |-> 0]

Stake(n, a) ==
  /\ free >= a
  /\ free' = free - a
  /\ locked' = locked + a
  /\ stake' = [stake EXCEPT ![n] = Staked(@, a)]
  /\ UNCHANGED <<burned, today, challenge, challenger, slashes>>

Unbond(n) ==
  /\ stake[n].status = "active"
  /\ stake' = [stake EXCEPT ![n].status = "unbonding",
                            ![n].unbondAt = today + UnbondPeriod]
  /\ UNCHANGED <<free, locked, burned, today, challenge, challenger, slashes>>

Release(n) ==
  /\ stake[n].status = "unbonding"
  /\ today >= stake[n].unbondAt
  /\ locked >= stake[n].amount
  /\ free' = free + stake[n].amount
  /\ locked' = locked - stake[n].amount
  /\ stake' = [stake EXCEPT ![n].status = "released", ![n].amount = 0]
  /\ UNCHANGED <<burned, today, challenge, challenger, slashes>>

NextDay ==
  /\ today < LastDay
  /\ today' = today + 1
  /\ UNCHANGED <<free, locked, burned, stake, challenge, challenger, slashes>>

-----------------------------------------------------------------------------
\* Challenge(): a cheap look, the claim of the receipt, the node's answer,
\* the slash, the result.

AlreadyChallenged(r) == challenge[r].result # "none"

Look(c, r) ==
  /\ challenger[c].pc = "idle"
  /\ ~ AlreadyChallenged(r)
  /\ challenger' = [challenger EXCEPT ![c] = [IdleChallenger EXCEPT !.pc = "claim",
                                                          !.receipt = r]]
  /\ UNCHANGED <<free, locked, burned, stake, today, challenge, slashes>>

\* Mutant: the claim counts whoever holds the row.
RecordOver(c, r) ==
  /\ challenge' = [challenge EXCEPT ![r].result = "pending"]
  /\ challenger' = [challenger EXCEPT ![c].pc = "ask"]

\* insertChallengeSQL: ON CONFLICT (request_id) DO NOTHING.
Record(c, r) ==
  IF AlreadyChallenged(r)
  THEN challenge' = challenge /\ challenger' = [challenger EXCEPT ![c] = IdleChallenger]
  ELSE /\ challenge' = [challenge EXCEPT ![r].result = "pending"]
       /\ challenger' = [challenger EXCEPT ![c].pc = "ask"]

Claim(c) ==
  /\ challenger[c].pc = "claim"
  /\ Record(c, challenger[c].receipt)
  /\ UNCHANGED <<free, locked, burned, stake, today, slashes>>

\* FetchPaths and pathsValid: the node's answer, right, wrong or none.
Hear(c, result) ==
  /\ challenger[c].pc = "ask"
  /\ challenger' = [challenger EXCEPT
       ![c].pc = IF result = "pass" THEN "write" ELSE "slash",
       ![c].result = result]
  /\ UNCHANGED <<free, locked, burned, stake, today, challenge, slashes>>

Slashable(st) == st.status \in {"active", "unbonding"} /\ st.amount > 0

\* mining.MulCeil: a burn rounds up.
SlashAmount(amount) == (amount * SlashNum + SlashDen - 1) \div SlashDen

\* Mutant: the record keeps its amount.
SlashNotRecorded(st, a) == [st EXCEPT !.slashed = @ + a]

SlashRecorded(st, a) ==
  [st EXCEPT !.amount = @ - a, !.slashed = @ + a,
             !.status = IF st.amount = a THEN "slashed" ELSE @]

\* A node with nothing to slash leaves the challenge with slashed_amount 0.
Slash(c) ==
  LET r == challenger[c].receipt
      n == ServedBy[r]
      a == SlashAmount(stake[n].amount)
  IN /\ challenger[c].pc = "slash"
     /\ \/ /\ Slashable(stake[n]) /\ locked >= a
           /\ locked' = locked - a
           /\ burned' = burned + a
           /\ stake' = [stake EXCEPT ![n] = SlashRecorded(@, a)]
           /\ slashes' = [slashes EXCEPT ![r] = @ + 1]
           /\ challenger' = [challenger EXCEPT ![c].pc = "write", ![c].slashed = a]
        \/ /\ ~ (Slashable(stake[n]) /\ locked >= a)
           /\ challenger' = [challenger EXCEPT ![c].pc = "write"]
           /\ UNCHANGED <<locked, burned, stake, slashes>>
     /\ UNCHANGED <<free, today, challenge>>

UpdateResult(c) ==
  /\ challenger[c].pc = "write"
  /\ challenge' = [challenge EXCEPT ![challenger[c].receipt] =
       [result |-> challenger[c].result, slashed |-> challenger[c].slashed]]
  /\ challenger' = [challenger EXCEPT ![c] = IdleChallenger]
  /\ UNCHANGED <<free, locked, burned, stake, today, slashes>>

\* The server stops; a claimed receipt stays pending and is never asked again.
ChallengerDies(c) ==
  /\ challenger[c].pc # "idle"
  /\ challenger' = [challenger EXCEPT ![c] = IdleChallenger]
  /\ UNCHANGED <<free, locked, burned, stake, today, challenge, slashes>>

StakeNext ==
  \/ \E n \in Nodes : (\E a \in StakeAmounts : Stake(n, a)) \/ Unbond(n) \/ Release(n)
  \/ NextDay
  \/ \E c \in Challengers :
       \/ \E r \in Receipts : Look(c, r)
       \/ Claim(c)
       \/ \E result \in {"pass", "fail", "timeout"} : Hear(c, result)
       \/ Slash(c)
       \/ UpdateResult(c)
       \/ ChallengerDies(c)

StakeSpec == StakeInit /\ [][StakeNext]_stakeVars

-----------------------------------------------------------------------------
\* The SUM(amount) of povi_stakes.
Collateral == Total([n \in Nodes |-> stake[n].amount])

\* No balance, collateral or slash is negative; a challenger past its claim
\* works on a receipt that is on record.
StakeTypeOK ==
  /\ {free, locked, burned} \subseteq Nat
  /\ \A n \in Nodes :
       /\ stake[n].status \in {"none", "active", "unbonding", "released", "slashed"}
       /\ {stake[n].amount, stake[n].slashed, stake[n].unbondAt} \subseteq Nat
  /\ \A c \in Challengers :
       challenger[c].pc \in {"ask", "slash", "write"} =>
         AlreadyChallenged(challenger[c].receipt)

\* No LENS appears or disappears, and what is locked covers every stake on
\* record: a release or a slash never fails for want of locked balance, nor
\* takes the collateral of the workspace's other nodes (stakeInner, Release,
\* Slash).
CollateralReconciles ==
  /\ free + locked + burned = LensOpening
  /\ Collateral <= locked

\* A receipt costs its node collateral at most once, however many servers
\* challenge it and wherever they die, and never after the challenge is
\* recorded as passed (Challenge, "DOUBLE-SLASH SAFETY").
SlashedOncePerReceipt ==
  \A r \in Receipts :
    /\ slashes[r] <= 1
    /\ challenge[r].result \in {"none", "pass"} => slashes[r] = 0

\* Every locked LENS is in the record of some node's stake, so a slash or a
\* release can still reach it: "The stake stays slashable throughout
\* (anti-yank)", the comment of Unbond says.
LockedIsOnRecord == locked = Collateral
=============================================================================
