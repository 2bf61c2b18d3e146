--------------------------- MODULE MCSessionOutbox ---------------------------
(* Finite instances of SessionOutbox.                                      *)
EXTENDS SessionOutbox, TLC

Symmetry == Permutations(Requests) \union Permutations(Workers)
=============================================================================
