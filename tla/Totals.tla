-------------------------------- MODULE Totals --------------------------------
(* The sum of integers over a finite set, and how it changes with one of them. *)
(* Positive and negative units are counted apart, so that the sum is a         *)
(* difference of two cardinalities.                                            *)
EXTENDS Integers, FiniteSets

\* The units that the elements of S bring, each marked with its element.
UnitsOf(S, f) == UNION {{x} \X (1..f[x]) : x \in S}

\* The sum over S of the integers f.
Total(S, f) == Cardinality(UnitsOf(S, f)) - Cardinality(UnitsOf(S, [x \in S |-> -f[x]]))

===============================================================================
