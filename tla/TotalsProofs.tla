----------------------------- MODULE TotalsProofs -----------------------------
(* What the theorems need to know of a sum, and of what is worked out number   *)
(* by number.                                                                  *)
EXTENDS Totals, FiniteSetTheorems, TLAPS

-------------------------------------------------------------------------------
\* A finite set brings finitely many units.
LEMMA UnitsFinite ==
  ASSUME NEW S, IsFiniteSet(S), NEW f, \A x \in S : f[x] \in Int
  PROVE  IsFiniteSet(UnitsOf(S, f)) /\ Cardinality(UnitsOf(S, f)) \in Nat
<1> DEFINE U(x) == {x} \X (1..f[x])
           T == {U(x) : x \in S}
<1>1. ASSUME NEW x \in S PROVE IsFiniteSet(U(x))
  <2>1. IsFiniteSet({x})  BY FS_Singleton
  <2>2. f[x] \in Int /\ 1 \in Int  OBVIOUS
  <2>3. IsFiniteSet(1..f[x])  BY ONLY <2>2, FS_Interval
  <2> QED  BY <2>1, <2>3, FS_Product
<1>2. IsFiniteSet(T)
  <2>1. [x \in S |-> U(x)] \in Surjection(S, T)  BY DEF Surjection
  <2> QED  BY <2>1, FS_Surjection
<1>3. IsFiniteSet(UNION T)  BY <1>1, <1>2, FS_UNION
<1> QED  BY <1>3, FS_CardinalityType DEF UnitsOf

\* Only the values on the set count.
LEMMA UnitsSame ==
  ASSUME NEW S, NEW f, NEW g, \A x \in S : f[x] = g[x]
  PROVE  UnitsOf(S, f) = UnitsOf(S, g)
BY DEF UnitsOf

\* One more element brings its own units.
LEMMA UnitsAdd ==
  ASSUME NEW S, IsFiniteSet(S), NEW x, x \notin S, NEW f, \A y \in S \cup {x} : f[y] \in Int
  PROVE  Cardinality(UnitsOf(S \cup {x}, f)) =
           Cardinality(UnitsOf(S, f)) + (IF f[x] > 0 THEN f[x] ELSE 0)
<1> DEFINE A == UnitsOf(S, f)
           B == {x} \X (1..f[x])
<1>1. UnitsOf(S \cup {x}, f) = A \cup B  BY DEF UnitsOf
<1>2. A \cap B = {}  BY DEF UnitsOf
<1>3. IsFiniteSet(A) /\ Cardinality(A) \in Nat  BY UnitsFinite
<1>4. f[x] \in Int /\ IsFiniteSet({x}) /\ Cardinality({x}) = 1  BY FS_Singleton
<1>5. IsFiniteSet(1..f[x]) /\ Cardinality(1..f[x]) = IF f[x] > 0 THEN f[x] ELSE 0
  BY <1>4, FS_Interval
<1>6. IsFiniteSet(B) /\ Cardinality(B) = IF f[x] > 0 THEN f[x] ELSE 0
  <2>1. IsFiniteSet(B) /\ Cardinality(B) = Cardinality({x}) * Cardinality(1..f[x])
    BY <1>4, <1>5, FS_Product
  <2> QED  BY <1>4, <1>5, <2>1
<1>7. Cardinality(A \cup B) = Cardinality(A) + Cardinality(B) - Cardinality({})
  BY <1>2, <1>3, <1>6, FS_Union
<1>8. Cardinality({}) = 0  BY FS_EmptySet
<1> HIDE DEF A, B
<1>9. Cardinality(A \cup B) = Cardinality(A) + (IF f[x] > 0 THEN f[x] ELSE 0)
  BY <1>3, <1>4, <1>6, <1>7, <1>8
<1> QED  BY <1>1, <1>9 DEF A

\* A sum of integers is an integer, and of none it is 0.
LEMMA TotalType ==
  ASSUME NEW S, IsFiniteSet(S), NEW f, \A x \in S : f[x] \in Int
  PROVE  Total(S, f) \in Int
<1>1. \A x \in S : [y \in S |-> -f[y]][x] \in Int  OBVIOUS
<1> QED  BY <1>1, UnitsFinite DEF Total

LEMMA TotalNone == ASSUME NEW f PROVE Total({}, f) = 0
BY FS_EmptySet DEF Total, UnitsOf

LEMMA TotalSame ==
  ASSUME NEW S, NEW f, NEW g, \A x \in S : f[x] = g[x]
  PROVE  Total(S, f) = Total(S, g)
<1>1. \A x \in S : [y \in S |-> -f[y]][x] = [y \in S |-> -g[y]][x]  OBVIOUS
<1> QED  BY <1>1, UnitsSame DEF Total

\* An element that joins adds its value.
LEMMA TotalAdd ==
  ASSUME NEW S, IsFiniteSet(S), NEW x, x \notin S, NEW T, T = S \cup {x}, NEW f, NEW g,
         \A y \in S : f[y] \in Int /\ g[y] = f[y], g[x] \in Int
  PROVE  Total(T, g) = Total(S, f) + g[x]
<1> DEFINE mf == [y \in S |-> -f[y]]
           mg == [y \in T |-> -g[y]]
<1>1. /\ \A y \in T : g[y] \in Int /\ mg[y] \in Int
      /\ \A y \in S : mf[y] = mg[y] /\ mf[y] \in Int
      /\ mg[x] = -g[x]
  OBVIOUS
<1> HIDE DEF mf, mg
<1>2. Cardinality(UnitsOf(T, g)) = Cardinality(UnitsOf(S, g)) + (IF g[x] > 0 THEN g[x] ELSE 0)
  BY <1>1, UnitsAdd
<1>3. Cardinality(UnitsOf(T, mg)) = Cardinality(UnitsOf(S, mg)) + (IF mg[x] > 0 THEN mg[x] ELSE 0)
  BY <1>1, UnitsAdd
<1>4. UnitsOf(S, g) = UnitsOf(S, f) /\ UnitsOf(S, mg) = UnitsOf(S, mf)
  BY <1>1, UnitsSame
<1>5. Cardinality(UnitsOf(S, f)) \in Nat /\ Cardinality(UnitsOf(S, mf)) \in Nat
  BY <1>1, UnitsFinite
<1>6. Total(S, f) = Cardinality(UnitsOf(S, f)) - Cardinality(UnitsOf(S, mf))
  BY DEF Total, mf
<1>7. Total(T, g) = Cardinality(UnitsOf(T, g)) - Cardinality(UnitsOf(T, mg))
  BY DEF Total, mg
<1> QED  BY <1>1, <1>2, <1>3, <1>4, <1>5, <1>6, <1>7

\* An element that leaves takes its value away.
LEMMA TotalDrop ==
  ASSUME NEW S, IsFiniteSet(S), NEW x \in S, NEW R, R = S \ {x}, NEW f, NEW g,
         \A y \in S : f[y] \in Int, \A y \in R : g[y] = f[y]
  PROVE  Total(R, g) = Total(S, f) - f[x]
<1>1. IsFiniteSet(R) /\ x \notin R  BY FS_RemoveElement
<1>10. S = R \cup {x}  OBVIOUS
<1>2. f[x] \in Int /\ (\A y \in R : g[y] \in Int /\ f[y] = g[y])  OBVIOUS
<1>3. Total(S, f) = Total(R, g) + f[x]  BY ONLY <1>1, <1>10, <1>2, TotalAdd
<1>4. Total(R, g) \in Int  BY <1>1, <1>2, TotalType
<1> QED  BY <1>2, <1>3, <1>4

\* An element whose value changes moves the sum by the difference.
LEMMA TotalMove ==
  ASSUME NEW S, IsFiniteSet(S), NEW x \in S, NEW f, NEW g,
         \A y \in S : f[y] \in Int /\ g[y] \in Int, \A y \in S \ {x} : g[y] = f[y]
  PROVE  Total(S, g) = Total(S, f) + g[x] - f[x]
<1> DEFINE R == S \ {x}
<1>1. IsFiniteSet(R) /\ x \notin R  BY FS_RemoveElement
<1>10. S = R \cup {x} /\ R = S \ {x}  OBVIOUS
<1> HIDE DEF R
<1>2. Total(R, f) = Total(S, f) - f[x]  BY <1>10, TotalDrop
<1>3. g[x] \in Int /\ f[x] \in Int /\ (\A y \in R : f[y] \in Int /\ g[y] = f[y])  BY DEF R
<1>4. Total(S, g) = Total(R, f) + g[x]  BY ONLY <1>1, <1>10, <1>3, TotalAdd
<1>5. Total(S, f) \in Int  BY TotalType
<1> QED  BY <1>2, <1>3, <1>4, <1>5

\* Nothing is subtracted from a sum of naturals.
LEMMA TotalOfNat ==
  ASSUME NEW S, IsFiniteSet(S), NEW f, \A x \in S : f[x] \in Nat
  PROVE  Total(S, f) = Cardinality(UnitsOf(S, f))
<1> DEFINE mf == [x \in S |-> -f[x]]
<1>1. UnitsOf(S, mf) = {}
  <2>1. ASSUME NEW x \in S PROVE 1..mf[x] = {}
    <3>1. mf[x] = -f[x] /\ f[x] \in Nat  OBVIOUS
    <3> QED  BY <3>1
  <2> QED  BY <2>1 DEF UnitsOf
<1>2. Cardinality({}) = 0  BY FS_EmptySet
<1>3. Total(S, f) = Cardinality(UnitsOf(S, f)) - Cardinality(UnitsOf(S, mf))  BY DEF Total
<1>4. Cardinality(UnitsOf(S, f)) \in Nat  BY UnitsFinite
<1> HIDE DEF mf
<1> QED  BY <1>1, <1>2, <1>3, <1>4

\* Naturals over two sets that cover a third sum to no less than over the third.
LEMMA TotalCovered ==
  ASSUME NEW S, NEW A, NEW B, IsFiniteSet(A), IsFiniteSet(B), S \subseteq A \cup B,
         NEW f, \A x \in A \cup B : f[x] \in Nat
  PROVE  Total(S, f) <= Total(A, f) + Total(B, f)
<1> DEFINE U == UnitsOf(S, f)
           V == UnitsOf(A, f)
           W == UnitsOf(B, f)
<1>1. U \subseteq V \cup W  BY DEF UnitsOf
<1>2. IsFiniteSet(V) /\ IsFiniteSet(W)  BY UnitsFinite
<1>3. Cardinality(V) \in Nat /\ Cardinality(W) \in Nat /\ Cardinality(V \cap W) \in Nat
  <2>1. IsFiniteSet(V \cap W)  BY <1>2, FS_Intersection
  <2> QED  BY <1>2, <2>1, FS_CardinalityType
<1>4. /\ IsFiniteSet(V \cup W)
      /\ Cardinality(V \cup W) = Cardinality(V) + Cardinality(W) - Cardinality(V \cap W)
  BY <1>2, FS_Union
<1>5. Cardinality(U) <= Cardinality(V \cup W) /\ IsFiniteSet(U)  BY <1>1, <1>4, FS_Subset
<1>6. Cardinality(U) \in Nat  BY <1>5, FS_CardinalityType
<1>7. Total(S, f) = Cardinality(U) /\ Total(A, f) = Cardinality(V) /\ Total(B, f) = Cardinality(W)
  <2>1. IsFiniteSet(A \cup B)  BY FS_Union
  <2>2. IsFiniteSet(S)  BY <2>1, FS_Subset
  <2> QED  BY <2>2, TotalOfNat
<1> HIDE DEF U, V, W
<1> QED  BY <1>3, <1>4, <1>5, <1>6, <1>7

-------------------------------------------------------------------------------
(***************************************************************************)
(* Induction. Its principle is a theorem about operators in the library, and*)
(* a lemma about sets here: a set of naturals has a least one.              *)
(***************************************************************************)

\* Some naturals have a least.
LEMMA LeastNatural ==
  ASSUME NEW T \in SUBSET Nat, T # {}
  PROVE  \E x \in T : \A y \in T : x <= y
<1>1. PICK x \in T : \A y \in T : ~ (<<y, x>> \in OpToRel(<, Nat))
  BY WFMin, NatLessThanWellFounded
<1>2. \A y \in T : y < x => <<y, x>> \in OpToRel(<, Nat)  BY DEF OpToRel
<1>3. \A y \in T : ~(y < x)  BY <1>1, <1>2
<1>4. \A y \in T : x <= y  BY ONLY <1>3, x \in Nat, \A y \in T : y \in Nat
<1> QED  BY <1>4

\* Induction on naturals, said of a set.
LEMMA AllNaturals ==
  ASSUME NEW T, 0 \in T, \A n \in Nat : n \in T => n + 1 \in T
  PROVE  \A n \in Nat : n \in T
<1> SUFFICES ASSUME NEW m \in Nat, m \notin T PROVE FALSE  OBVIOUS
<1>1. PICK x \in Nat \ T : \A y \in Nat \ T : x <= y  BY LeastNatural
<1>2. x # 0  OBVIOUS
<1>3. x - 1 \in Nat /\ x - 1 \notin Nat \ T  BY <1>1, <1>2
<1>4. x - 1 + 1 = x  OBVIOUS
<1> QED  BY <1>3, <1>4

\* The same, from all the smaller ones.
LEMMA AllNaturalsFromSmaller ==
  ASSUME NEW T, \A n \in Nat : (\A m \in 0..(n - 1) : m \in T) => n \in T
  PROVE  \A n \in Nat : n \in T
<1> SUFFICES ASSUME NEW k \in Nat, k \notin T PROVE FALSE  OBVIOUS
<1>1. PICK x \in Nat \ T : \A y \in Nat \ T : x <= y  BY LeastNatural
<1>2. \A m \in 0..(x - 1) : m \in T  BY <1>1
<1> QED  BY <1>1, <1>2

-----------------------------------------------------------------------------
\* A function f that is worked out from smaller numbers: given where it stops, and
\* otherwise made of the value at a smaller number.
WorksOut(f, stop, base, down, step, N) ==
  \A n \in N : f[n] = IF n \in stop THEN base[n] ELSE step[f[down[n]], n]

Recipe(S, stop, base, down, step) ==
  /\ stop \in SUBSET Nat /\ base \in [Nat -> S] /\ down \in [Nat \ stop -> Nat]
  /\ step \in [S \X Nat -> S]
  /\ \A n \in Nat \ stop : down[n] < n

\* What is worked out up to n is worked out up to any smaller number in one way.
LEMMA WorkedOutOnce ==
  ASSUME NEW S, NEW stop, NEW base, NEW down, NEW step, Recipe(S, stop, base, down, step),
         NEW n \in Nat, NEW m \in Nat, m <= n,
         NEW f, WorksOut(f, stop, base, down, step, 0..n),
         NEW g, WorksOut(g, stop, base, down, step, 0..m)
  PROVE  \A k \in 0..m : f[k] = g[k]
<1> USE DEF Recipe
<1> DEFINE T == {k \in Nat : k <= m => f[k] = g[k]}
<1>1. ASSUME NEW k \in Nat, \A i \in 0..(k - 1) : i \in T PROVE k \in T
  <2> SUFFICES ASSUME k <= m PROVE f[k] = g[k]  OBVIOUS
  <2>1. k \in 0..m /\ k \in 0..n  OBVIOUS
  <2>2. /\ f[k] = IF k \in stop THEN base[k] ELSE step[f[down[k]], k]
        /\ g[k] = IF k \in stop THEN base[k] ELSE step[g[down[k]], k]
    BY <2>1 DEF WorksOut
  <2>3. k \notin stop => f[down[k]] = g[down[k]]  BY <1>1
  <2> QED  BY <2>2, <2>3
<1> HIDE DEF T
<1>2. \A k \in Nat : k \in T  BY <1>1, AllNaturalsFromSmaller
<1> QED  BY <1>2 DEF T

\* There is such a function.
LEMMA WorkedOut ==
  ASSUME NEW S, NEW stop, NEW base, NEW down, NEW step, Recipe(S, stop, base, down, step)
  PROVE  \E f \in [Nat -> S] : WorksOut(f, stop, base, down, step, Nat)
<1> USE DEF Recipe
<1> DEFINE Upto(n, g) == g \in [0..n -> S] /\ WorksOut(g, stop, base, down, step, 0..n)
           T == {n \in Nat : \E g : Upto(n, g)}
<1>1. ASSUME NEW n \in Nat, \A m \in 0..(n - 1) : m \in T PROVE n \in T
  <2>1. PICK v \in S : \E g : /\ n > 0 => Upto(n - 1, g)
                              /\ v = IF n \in stop THEN base[n] ELSE step[g[down[n]], n]
    <3>1. CASE n \in stop
      <4>1. PICK g : n > 0 => Upto(n - 1, g)
        <5>1. CASE n = 0  BY <5>1
        <5>2. CASE n # 0  BY <1>1, <5>2
        <5> QED  BY <5>1, <5>2
      <4>2. base[n] \in S  OBVIOUS
      <4> QED  BY <3>1, <4>1, <4>2
    <3>2. CASE n \notin stop
      <4>1. down[n] \in 0..(n - 1) /\ n > 0 /\ n - 1 \in 0..(n - 1)  BY <3>2
      <4>2. PICK g : Upto(n - 1, g)  BY <1>1, <4>1
      <4>3. g[down[n]] \in S  BY <4>1, <4>2
      <4>4. step[g[down[n]], n] \in S  BY <4>3
      <4> QED  BY <3>2, <4>2, <4>4
    <3> QED  BY <3>1, <3>2
  <2>2. PICK g : /\ n > 0 => Upto(n - 1, g)
                 /\ v = IF n \in stop THEN base[n] ELSE step[g[down[n]], n]
    BY <2>1
  <2> DEFINE h == [k \in 0..n |-> IF k = n THEN v ELSE g[k]]
  <2>3. \A k \in 0..n : k # n => k \in 0..(n - 1) /\ n > 0  OBVIOUS
  <2>4. h \in [0..n -> S]  BY <2>2, <2>3
  <2>5. ASSUME NEW k \in 0..n PROVE h[k] = IF k \in stop THEN base[k] ELSE step[h[down[k]], k]
    <3>1. k \notin stop => down[k] \in 0..n /\ down[k] < k /\ h[down[k]] = g[down[k]]  OBVIOUS
    <3>2. CASE k = n  BY <2>2, <3>1, <3>2
    <3>3. CASE k # n
      <4>1. k \in 0..(n - 1) /\ Upto(n - 1, g)  BY <2>2, <2>3, <3>3
      <4>2. g[k] = IF k \in stop THEN base[k] ELSE step[g[down[k]], k]  BY <4>1 DEF WorksOut
      <4> QED  BY <3>1, <3>3, <4>2
    <3> QED  BY <3>2, <3>3
  <2>6. WorksOut(h, stop, base, down, step, 0..n)  BY <2>5 DEF WorksOut
  <2> QED  BY <2>4, <2>6
<1> HIDE DEF T
<1>2. \A n \in Nat : n \in T  BY <1>1, AllNaturalsFromSmaller
<1>3. \A n \in Nat : \E g : Upto(n, g)  BY <1>2 DEF T
<1> DEFINE G(n) == CHOOSE g : Upto(n, g)
<1>4. \A n \in Nat : Upto(n, G(n))  BY <1>3
<1> HIDE DEF G
<1> DEFINE f == [n \in Nat |-> G(n)[n]]
<1>5. f \in [Nat -> S]  BY <1>4
<1>6. ASSUME NEW n \in Nat PROVE f[n] = IF n \in stop THEN base[n] ELSE step[f[down[n]], n]
  <2>1. n \in 0..n  OBVIOUS
  <2>2. G(n)[n] = IF n \in stop THEN base[n] ELSE step[G(n)[down[n]], n]
    BY <1>4, <2>1 DEF WorksOut
  <2>3. CASE n \in stop  BY <2>2, <2>3
  <2>4. CASE n \notin stop
    <3>1. PICK m \in Nat : m = down[n]  BY <2>4
    <3>2. m <= n /\ m \in 0..m  BY <2>4, <3>1
    <3>3. PICK a, b : a = G(n) /\ b = G(m)  OBVIOUS
    <3>4. /\ WorksOut(a, stop, base, down, step, 0..n) /\ WorksOut(b, stop, base, down, step, 0..m)
      BY <1>4, <3>3
    <3>5. \A k \in 0..m : a[k] = b[k]
      <4> HIDE DEF Recipe
      <4> QED  BY ONLY Recipe(S, stop, base, down, step), n \in Nat, m \in Nat, <3>2, <3>4, WorkedOutOnce
    <3>6. G(n)[m] = G(m)[m]  BY <3>2, <3>3, <3>5
    <3>7. f[m] = G(m)[m]  OBVIOUS
    <3> QED  BY <2>2, <2>4, <3>1, <3>6, <3>7
  <2> QED  BY <2>3, <2>4
<1> HIDE DEF f
<1> QED  BY <1>5, <1>6 DEF WorksOut

===============================================================================
