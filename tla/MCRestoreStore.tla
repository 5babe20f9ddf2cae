--------------------------- MODULE MCRestoreStore ---------------------------
(* Symmetry for the runs of RestoreStore.                                  *)
EXTENDS RestoreStore, TLC

Symmetry == UNION {Permutations(S) : S \in {Lasting, Calls \ Lasting, Apps, Owners, Connectors}}
=============================================================================
