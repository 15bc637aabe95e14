------------------------------ MODULE MCPipeline ------------------------------
(***************************************************************************)
(* Small instances of Pipeline for TLC.                                    *)
(***************************************************************************)
EXTENDS Pipeline, TLC

Symmetry == Permutations(Workers)

MCBackoff == <<1>>
MCHeaders == {[form |-> "seconds", value |-> 2]}
MCNoHeaders == {}
=============================================================================
