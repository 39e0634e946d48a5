------------------------------- MODULE Totals -------------------------------
(***************************************************************************)
(* The total of a column of naturals, as SUM(...) over the rows of a table *)
(* computes it.  A row of value n stands for n units <<row, 1>> ... <<row, *)
(* n>>, and the total is the number of units of all rows: a definition     *)
(* without recursion, so that the facts about finite sets and their        *)
(* cardinality give the facts about totals (module TotalsProofs).  Least   *)
(* and Most are LEAST and GREATEST of two columns.                         *)
(***************************************************************************)
EXTENDS Integers, FiniteSets

\* The units of row x when its column holds n.
UnitsOf(x, n) == {x} \X (1..n)

\* The units of all rows of f.
Units(f) == UNION {UnitsOf(x, f[x]) : x \in DOMAIN f}

\* SUM(f), for f a function from a finite set of rows to the naturals.
Total(f) == Cardinality(Units(f))

\* SUM(f) over some of the rows only, as a WHERE clause picks them.
TotalOf(rows, f) == Total([x \in DOMAIN f |-> IF x \in rows THEN f[x] ELSE 0])

Least(a, b) == IF a <= b THEN a ELSE b

Most(a, b) == IF a >= b THEN a ELSE b

\* SUM(f) of a column that may be negative.
NetTotal(f) == Total([x \in DOMAIN f |-> Most(f[x], 0)])
               - Total([x \in DOMAIN f |-> Most(-f[x], 0)])
=============================================================================
