------------------------------- MODULE MCReads -------------------------------
(***************************************************************************)
(* Small instance of Reads for TLC.                                        *)
(***************************************************************************)
EXTENDS Reads

Filter(status, from, to) ==
    [status |-> status, from |-> from, to |-> to, wellFormed |-> TRUE]

\* No filter, by status, by time, an empty range and a malformed parameter.
SomeFilters ==
    {Filter("any", 0, 9), Filter("PENDING", 0, 9), Filter("any", 3, 3), Filter("any", 3, 2),
     [Filter("any", 0, 9) EXCEPT !.wellFormed = FALSE]}
=============================================================================
