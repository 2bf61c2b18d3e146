---------------------------- MODULE LegacyContract ----------------------------
(***************************************************************************)
(* What the importer and the reconciliation share (legacy_contract.py):    *)
(* the canonical users, the days and the answers.  The statuses of the     *)
(* former program and of the domain correspond one to one and have one     *)
(* name here.                                                              *)
(***************************************************************************)
EXTENDS Naturals, FiniteSets

CONSTANTS Users, Days, Statuses

ASSUME FiniteAssumption == IsFiniteSet(Users) /\ IsFiniteSet(Days) /\ IsFiniteSet(Statuses)

\* What an answer is about: the normalized facts and the availability table
\* have one status for it.
Keys == Users \X Days
=============================================================================
