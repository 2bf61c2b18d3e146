------------------------- MODULE MCAvailabilityModes -------------------------
(* Finite instances of AvailabilityModes for TLC.                          *)
EXTENDS AvailabilityModes, TLC

Symmetry == Permutations(Requests) \union Permutations(Groups) \union Permutations(Days)
               \union Permutations(Answers)
=============================================================================
