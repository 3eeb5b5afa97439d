--------------------------- MODULE MCReconciliation ---------------------------
EXTENDS Reconciliation, TLC

CONSTANTS a1, p1, r1, i1, i2

ShortWorkflow ==
  {t \in DefaultWorkflow : {t.from, t.to} \subseteq {"in_stock", "deployed", "maintenance"}}

=============================================================================
