------------------------------ MODULE MCRetention ------------------------------
(***************************************************************************)
(* Small instance of Retention for TLC.                                    *)
(***************************************************************************)
EXTENDS Retention, TLC

Symmetry == Permutations(Deliveries)
=============================================================================
