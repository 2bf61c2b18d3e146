------------------------- MODULE MCGroupTransactions -------------------------
(* Finite instances of GroupTransactions for TLC.                          *)
EXTENDS GroupTransactions, TLC
=============================================================================
