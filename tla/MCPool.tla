-------------------------------- MODULE MCPool --------------------------------
(***************************************************************************)
(* Small instance of Pool for TLC: two streams, one poison entry.          *)
(***************************************************************************)
EXTENDS Pool, TLC

CONSTANTS m1, m2, m3, m4, m5

TwoStreams == <<"high", "low">>
FiveMessages == {m1, m2, m3, m4, m5}
TwoInHigh == [m \in FiveMessages |-> IF m \in {m1, m2} THEN "high" ELSE "low"]
=============================================================================
