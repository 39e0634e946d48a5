---------------------------- MODULE TotalsProofs ----------------------------
(***************************************************************************)
(* What the total of a column does when one row of it changes.  Every      *)
(* proof about money that must add up cites these facts.                   *)
(***************************************************************************)
EXTENDS Totals, FiniteSetTheorems, TLAPS

\* A row of value n has n units.
LEMMA UnitsOfRow ==
  ASSUME NEW x, NEW n \in Nat
  PROVE  /\ IsFiniteSet(UnitsOf(x, n))
         /\ Cardinality(UnitsOf(x, n)) = n
<1>1. IsFiniteSet({x}) /\ Cardinality({x}) = 1
  BY FS_Singleton
<1>2. IsFiniteSet(1..n) /\ Cardinality(1..n) = n
  BY FS_Interval
<1>3. /\ IsFiniteSet({x} \X (1..n))
      /\ Cardinality({x} \X (1..n)) = Cardinality({x}) * Cardinality(1..n)
  BY <1>1, <1>2, FS_Product
<1>4. QED
  BY <1>1, <1>2, <1>3 DEF UnitsOf

\* The units of a finite table are finitely many.
LEMMA UnitsFinite ==
  ASSUME NEW S, IsFiniteSet(S), NEW f \in [S -> Nat]
  PROVE  IsFiniteSet(Units(f))
<1> DEFINE rowUnits == [x \in S |-> UnitsOf(x, f[x])]
           all == {UnitsOf(x, f[x]) : x \in S}
<1>1. rowUnits \in Surjection(S, all)
  BY DEF Surjection
<1>2. IsFiniteSet(all)
  BY <1>1, FS_Surjection
<1>3. \A u \in all : IsFiniteSet(u)
  BY UnitsOfRow
<1>4. QED
  BY <1>2, <1>3, FS_UNION DEF Units

\* A total is a natural number.
LEMMA TotalNat ==
  ASSUME NEW S, IsFiniteSet(S), NEW f \in [S -> Nat]
  PROVE  Total(f) \in Nat
BY UnitsFinite, FS_CardinalityType DEF Total

\* When only row x of a table changes, its total changes by what the row does.
LEMMA TotalUpdate ==
  ASSUME NEW S, IsFiniteSet(S), NEW f \in [S -> Nat], NEW g \in [S -> Nat],
         NEW x \in S, \A y \in S \ {x} : g[y] = f[y]
  PROVE  Total(g) = Total(f) - f[x] + g[x]
<1> DEFINE rest == UNION {UnitsOf(y, f[y]) : y \in S \ {x}}
<1>2. /\ Units(f) = rest \cup UnitsOf(x, f[x])
      /\ Units(g) = rest \cup UnitsOf(x, g[x])
  BY DEF Units
<1>3. IsFiniteSet(rest)
  <2>1. rest \in SUBSET Units(f)
    BY <1>2
  <2>2. QED
    BY <2>1, UnitsFinite, FS_Subset
<1>4. ASSUME NEW n \in Nat
      PROVE  Cardinality(rest \cup UnitsOf(x, n)) = Cardinality(rest) + n
  <2>1. rest \cap UnitsOf(x, n) = {}
    BY DEF UnitsOf
  <2> HIDE DEF rest
  <2>2. IsFiniteSet(UnitsOf(x, n)) /\ Cardinality(UnitsOf(x, n)) = n
    BY UnitsOfRow
  <2>3. Cardinality(rest \cup UnitsOf(x, n))
          = Cardinality(rest) + Cardinality(UnitsOf(x, n)) - Cardinality({})
    BY <1>3, <2>1, <2>2, FS_Union
  <2>4. Cardinality({}) = 0 /\ Cardinality(rest) \in Nat
    BY <1>3, FS_EmptySet, FS_CardinalityType
  <2>5. QED
    BY <2>2, <2>3, <2>4
<1> HIDE DEF rest
<1>5. Cardinality(rest) \in Nat
  BY <1>3, FS_CardinalityType
<1>6. QED
  BY <1>2, <1>4, <1>5 DEF Total

\* When row x changes by delta, so does the total.
LEMMA TotalMoves ==
  ASSUME NEW S, IsFiniteSet(S), NEW f \in [S -> Nat], NEW g \in [S -> Nat],
         NEW x \in S, NEW delta \in Int, g[x] = f[x] + delta,
         \A y \in S \ {x} : g[y] = f[y]
  PROVE  Total(g) = Total(f) + delta /\ Total(f) \in Nat
<1>1. Total(g) = Total(f) - f[x] + g[x]
  BY TotalUpdate
<1>2. Total(f) \in Nat
  BY TotalNat
<1>3. QED
  BY <1>1, <1>2

\* When delta moves from row x to row y, the total stays.
LEMMA TotalStays ==
  ASSUME NEW S, IsFiniteSet(S), NEW f \in [S -> Nat], NEW g \in [S -> Nat],
         NEW x \in S, NEW y \in S, x # y, NEW delta \in Int,
         g[x] = f[x] - delta, g[y] = f[y] + delta,
         \A z \in S \ {x, y} : g[z] = f[z]
  PROVE  Total(g) = Total(f)
<1> DEFINE h == [f EXCEPT ![x] = g[x]]
<1>1. /\ h \in [S -> Nat] /\ h[x] = f[x] + (-delta)
      /\ \A z \in S \ {x} : h[z] = f[z]
  OBVIOUS
<1>2. g[y] = h[y] + delta /\ \A z \in S \ {y} : g[z] = h[z]
  OBVIOUS
<1> HIDE DEF h
<1>3. -delta \in Int
  OBVIOUS
<1>4. Total(h) = Total(f) + (-delta) /\ Total(f) \in Nat
  BY <1>1, <1>3, TotalMoves
<1>5. Total(g) = Total(h) + delta
  BY <1>1, <1>2, TotalMoves
<1>6. QED
  BY <1>4, <1>5

\* A table of zeros totals zero.
LEMMA TotalZero ==
  ASSUME NEW S, NEW f \in [S -> Nat], \A x \in S : f[x] = 0
  PROVE  Total(f) = 0
<1>1. Units(f) = {}
  BY DEF Units, UnitsOf
<1>2. QED
  BY <1>1, FS_EmptySet DEF Total

\* Tables that agree on every row have the same total.
LEMMA TotalSame ==
  ASSUME NEW S, NEW f \in [S -> Nat], NEW g \in [S -> Nat],
         \A x \in S : g[x] = f[x]
  PROVE  Total(g) = Total(f)
<1>1. g = f
  OBVIOUS
<1>2. QED
  BY <1>1

\* No row exceeds the total.
LEMMA TotalBoundsRow ==
  ASSUME NEW S, IsFiniteSet(S), NEW f \in [S -> Nat], NEW x \in S
  PROVE  f[x] <= Total(f)
<1>1. IsFiniteSet(Units(f))
  BY UnitsFinite
<1>2. UnitsOf(x, f[x]) \in SUBSET Units(f)
  BY DEF Units
<1>3. Cardinality(UnitsOf(x, f[x])) <= Cardinality(Units(f))
  BY <1>1, <1>2, FS_Subset
<1>4. QED
  BY <1>3, UnitsOfRow DEF Total

-----------------------------------------------------------------------------
(* Totals of some of the rows.                                             *)

\* A total of some rows is a natural, and no row of them exceeds it.
LEMMA TotalOfNat ==
  ASSUME NEW S, IsFiniteSet(S), NEW f \in [S -> Nat], NEW rows
  PROVE  /\ TotalOf(rows, f) \in Nat
         /\ \A x \in S : x \in rows => f[x] <= TotalOf(rows, f)
<1> DEFINE part == [x \in S |-> IF x \in rows THEN f[x] ELSE 0]
<1>1. part \in [S -> Nat] /\ TotalOf(rows, f) = Total(part)
  BY DEF TotalOf
<1>2. \A x \in S : x \in rows => part[x] = f[x]
  OBVIOUS
<1> HIDE DEF part
<1>3. Total(part) \in Nat
  BY <1>1, TotalNat
<1>4. ASSUME NEW x \in S, x \in rows
      PROVE  f[x] <= TotalOf(rows, f)
  BY <1>1, <1>2, <1>4, TotalBoundsRow
<1>5. QED
  BY <1>1, <1>3, <1>4

\* When only row x changes, or only whether it is one of the rows, the total
\* changes by what x counts for.
LEMMA TotalOfUpdate ==
  ASSUME NEW S, IsFiniteSet(S), NEW f \in [S -> Nat], NEW g \in [S -> Nat],
         NEW x \in S, \A y \in S \ {x} : g[y] = f[y],
         NEW rows, NEW others, \A y \in S \ {x} : y \in others <=> y \in rows
  PROVE  TotalOf(others, g) = TotalOf(rows, f)
           - (IF x \in rows THEN f[x] ELSE 0)
           + (IF x \in others THEN g[x] ELSE 0)
<1> DEFINE part == [y \in S |-> IF y \in rows THEN f[y] ELSE 0]
           new  == [y \in S |-> IF y \in others THEN g[y] ELSE 0]
<1>1. /\ part \in [S -> Nat] /\ TotalOf(rows, f) = Total(part)
      /\ new \in [S -> Nat] /\ TotalOf(others, g) = Total(new)
  BY DEF TotalOf
<1>2. /\ part[x] = IF x \in rows THEN f[x] ELSE 0
      /\ new[x] = IF x \in others THEN g[x] ELSE 0
      /\ \A y \in S \ {x} : new[y] = part[y]
  OBVIOUS
<1> HIDE DEF part, new
<1>3. Total(new) = Total(part) - part[x] + new[x]
  BY <1>1, <1>2, TotalUpdate
<1>4. QED
  BY <1>1, <1>2, <1>3

\* When row x changes by delta, the total does if x is one of the rows.
LEMMA TotalOfMoves ==
  ASSUME NEW S, IsFiniteSet(S), NEW f \in [S -> Nat], NEW g \in [S -> Nat],
         NEW x \in S, NEW delta \in Int, g[x] = f[x] + delta,
         \A y \in S \ {x} : g[y] = f[y], NEW rows
  PROVE  TotalOf(rows, g) = TotalOf(rows, f)
                            + (IF x \in rows THEN delta ELSE 0)
<1>1. TotalOf(rows, g) = TotalOf(rows, f) - (IF x \in rows THEN f[x] ELSE 0)
                                          + (IF x \in rows THEN g[x] ELSE 0)
  BY TotalOfUpdate
<1>2. TotalOf(rows, f) \in Nat
  BY TotalOfNat
<1>3. QED
  BY <1>1, <1>2

\* When delta moves from row x to row y, each counts for its part.
LEMMA TotalOfPasses ==
  ASSUME NEW S, IsFiniteSet(S), NEW f \in [S -> Nat], NEW g \in [S -> Nat],
         NEW x \in S, NEW y \in S, x # y, NEW delta \in Int,
         g[x] = f[x] - delta, g[y] = f[y] + delta,
         \A z \in S \ {x, y} : g[z] = f[z], NEW rows
  PROVE  TotalOf(rows, g) = TotalOf(rows, f)
                            - (IF x \in rows THEN delta ELSE 0)
                            + (IF y \in rows THEN delta ELSE 0)
<1> DEFINE h == [f EXCEPT ![x] = g[x]]
<1>1. /\ h \in [S -> Nat] /\ h[x] = f[x] + (-delta)
      /\ \A z \in S \ {x} : h[z] = f[z]
  OBVIOUS
<1>2. g[y] = h[y] + delta /\ \A z \in S \ {y} : g[z] = h[z]
  OBVIOUS
<1> HIDE DEF h
<1>3. -delta \in Int
  OBVIOUS
<1>4. TotalOf(rows, h) = TotalOf(rows, f)
                         + (IF x \in rows THEN -delta ELSE 0)
  BY <1>1, <1>3, TotalOfMoves
<1>5. TotalOf(rows, g) = TotalOf(rows, h) + (IF y \in rows THEN delta ELSE 0)
  BY <1>1, <1>2, TotalOfMoves
<1>6. TotalOf(rows, f) \in Nat /\ TotalOf(rows, h) \in Nat
  BY <1>1, TotalOfNat
<1>7. QED
  BY <1>4, <1>5, <1>6

\* Rows that are all zero, or none at all, total zero.
LEMMA TotalOfZero ==
  ASSUME NEW S, NEW f \in [S -> Nat], NEW rows,
         \A x \in S : x \in rows => f[x] = 0
  PROVE  TotalOf(rows, f) = 0
<1> DEFINE part == [x \in S |-> IF x \in rows THEN f[x] ELSE 0]
<1>1. part \in [S -> Nat] /\ TotalOf(rows, f) = Total(part)
  BY DEF TotalOf
<1>2. \A x \in S : part[x] = 0
  OBVIOUS
<1> HIDE DEF part
<1>3. QED
  BY <1>1, <1>2, TotalZero

-----------------------------------------------------------------------------
(* Totals of a column that may be negative.                                *)

\* When only one row changes, the net total changes by what the row does.
LEMMA NetTotalMoves ==
  ASSUME NEW S, IsFiniteSet(S), NEW f \in [S -> Int], NEW g \in [S -> Int],
         NEW x \in S, \A y \in S \ {x} : g[y] = f[y]
  PROVE  NetTotal(f) \in Int /\ NetTotal(g) = NetTotal(f) - f[x] + g[x]
<1> DEFINE fIn  == [y \in S |-> Most(f[y], 0)]
           fOut == [y \in S |-> Most(-f[y], 0)]
           gIn  == [y \in S |-> Most(g[y], 0)]
           gOut == [y \in S |-> Most(-g[y], 0)]
<1>1. /\ fIn \in [S -> Nat] /\ fOut \in [S -> Nat]
      /\ gIn \in [S -> Nat] /\ gOut \in [S -> Nat]
  BY DEF Most
<1>2. /\ \A y \in S \ {x} : gIn[y] = fIn[y]
      /\ \A y \in S \ {x} : gOut[y] = fOut[y]
  OBVIOUS
<1>3. fIn[x] - fOut[x] = f[x] /\ gIn[x] - gOut[x] = g[x]
  BY DEF Most
<1>4. /\ NetTotal(f) = Total(fIn) - Total(fOut)
      /\ NetTotal(g) = Total(gIn) - Total(gOut)
  BY DEF NetTotal
<1> HIDE DEF fIn, fOut, gIn, gOut
<1>5. /\ Total(gIn) = Total(fIn) - fIn[x] + gIn[x]
      /\ Total(gOut) = Total(fOut) - fOut[x] + gOut[x]
  BY <1>1, <1>2, TotalUpdate
<1>6. Total(fIn) \in Nat /\ Total(fOut) \in Nat
  BY <1>1, TotalNat
<1>7. QED
  BY <1>1, <1>3, <1>4, <1>5, <1>6

\* A column of zeros has no net total.
LEMMA NetTotalZero ==
  ASSUME NEW S, NEW f \in [S -> Int], \A x \in S : f[x] = 0
  PROVE  NetTotal(f) = 0
<1> DEFINE zeros == [x \in S |-> 0]
<1>1. NetTotal(f) = Total(zeros) - Total(zeros)
  <2>1. /\ [x \in S |-> Most(f[x], 0)] = zeros
        /\ [x \in S |-> Most(-f[x], 0)] = zeros
    BY DEF Most
  <2>2. DOMAIN f = S
    OBVIOUS
  <2>3. QED
    BY <2>1, <2>2 DEF NetTotal
<1>2. Total(zeros) = 0
  BY TotalZero
<1>3. QED
  BY <1>1, <1>2
=============================================================================
