------------------------ MODULE MCLegacyReconciliation ------------------------
EXTENDS LegacyReconciliation, TLC

CONSTANTS u1, u2, d1, d2, Available, Unavailable

\* Each user has answered the first day in the source, and not the second.
MCExpected == [k \in Keys |-> IF k[2] # d1 THEN None ELSE IF k[1] = u1 THEN Available ELSE Unavailable]

Symmetry == Permutations(Reconcilers) \union Permutations(Writers)
=============================================================================
