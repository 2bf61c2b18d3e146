------------------------ MODULE MCLegacyNormalization ------------------------
(* A finite instance of LegacyNormalization for TLC.                       *)
EXTENDS LegacyNormalization, TLC

CONSTANTS g1, g2, h, u1, u2, v

\* u1 is in both groups, u2 in one.
MCMembers == (g1 :> {u1, u2}) @@ (g2 :> {u1})

None == [x \in {} |-> x]

\* Documents that ignore, rename or leave alone the outdated names, and some
\* that touch canonical ones and must be refused.
MCDocuments == [ignored : {{}, {h}, {g2}},
                groups : {None, h :> g1, g2 :> g1},
                users : {None, v :> u1, u2 :> u1},
                prefer : BOOLEAN]
=============================================================================
