---------------------------- MODULE CashBacking ----------------------------
(***************************************************************************)
(* Cash backing (internal/economy/cash_backed.go): the part of a fungible  *)
(* LXC balance that a purchase paid for, kept as one number beside the     *)
(* balance.  A spend takes credit that no cash paid for first.             *)
(***************************************************************************)
EXTENDS Integers

MinOf(a, b) == IF a <= b THEN a ELSE b

MaxOf(a, b) == IF a >= b THEN a ELSE b

\* consumeCashBacked: the cash-backed part of a spend out of a balance of
\* `before`, which has any hold of the spend already undone.
FromCash(cash, before, spend) ==
  IF spend <= 0 THEN 0
  ELSE MinOf(spend - MinOf(spend, MaxOf(before - cash, 0)), cash)

\* Mutant: the fee's consumption overwrites the charge's.
BackingAfterStale(cash, before, charge, fee) ==
  cash - FromCash(cash, before - charge, fee)

\* The backing left once a charge and then its fee have consumed theirs.
BackingAfter(cash, before, charge, fee) ==
  LET c == cash - FromCash(cash, before, charge)
  IN c - FromCash(c, before - charge, fee)

\* addCashBacked for a credit of type: only a purchase adds backing.
AddsBacking(type) == type = "purchase"

\* Mutant: a refund is not clamped at the backing there is.
BackingAfterRefundUnclamped(cash, refund) == cash - refund

\* ReduceCashBackedForRefund: what a refund leaves of the backing it read.
BackingAfterRefund(cash, refund) ==
  IF refund <= 0 THEN cash ELSE MaxOf(cash - refund, 0)
=============================================================================
