------------------------ MODULE MCAccountProvisioning ------------------------
(* Finite instances of AccountProvisioning for TLC.                        *)
EXTENDS AccountProvisioning, TLC

Symmetry == Permutations(Requests) \union Permutations(Subjects) \union Permutations(Accounts)
=============================================================================
