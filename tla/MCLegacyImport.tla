--------------------------- MODULE MCLegacyImport ---------------------------
(* Finite instances of LegacyImport for TLC.                               *)
EXTENDS LegacyImport, TLC

MCTables == <<"users", "availability">>

Symmetry == Permutations(Runs) \union Permutations(Plans)
=============================================================================
