------------------------------- MODULE MCCustody -------------------------------
EXTENDS Custody, TLC

CONSTANTS a1, a2, p1, p2, r1, r2, i1, i2, i3

\* A tenant's own workflow, with a repair loop and one final state.
ShortWorkflow ==
  {t \in DefaultWorkflow : t.from \in {"in_stock", "deployed", "maintenance"}
                            /\ t.to \in {"in_stock", "deployed", "maintenance", "lost"}}

Symmetry == Permutations(People) \cup Permutations(Requests) \cup Permutations(Ids)

=============================================================================
