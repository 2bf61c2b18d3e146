--------------------------- MODULE MCGroupInvites ---------------------------
(* Finite instances of GroupInvites for TLC.                               *)
EXTENDS GroupInvites, TLC
=============================================================================
