------------------------------- MODULE MCLedger -------------------------------
(***************************************************************************)
(* Small instance of Ledger for TLC.                                       *)
(***************************************************************************)
EXTENDS Ledger, TLC

Symmetry == Permutations(Deliveries) \cup Permutations(Workers) \cup Permutations(Cancels)
=============================================================================
