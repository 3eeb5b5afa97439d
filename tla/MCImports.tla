------------------------------- MODULE MCImports -------------------------------
(* Import A has rows 1 and 2, of which row 1 has a serial number; import B    *)
(* has rows no longer (they are removed after a while) and a run of its own.  *)
EXTENDS Imports, TLC

CONSTANTS A, B, u1, w1, w2, serial

MCImportOf == [r \in Rows |-> A]

MCIdentity == [r \in Rows |-> IF r = 2 THEN None ELSE serial]

Symmetry == Permutations(Workers)

=============================================================================
