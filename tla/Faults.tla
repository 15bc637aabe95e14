-------------------------------- MODULE Faults --------------------------------
(***************************************************************************)
(* Budgets for what the environment may do to the system.  A fault loses  *)
(* work (a crash, an error of Postgres or Redis, a flushed stream); a     *)
(* refusal is backpressure (no rate-limit token, an open circuit).  Both  *)
(* budgets are bounds: every behaviour has finitely many of each, and     *)
(* places no restriction on when they strike.                             *)
(***************************************************************************)
EXTENDS Naturals

CONSTANTS MaxFaults, MaxRefusals

ASSUME FaultsAssumption == MaxFaults \in Nat /\ MaxRefusals \in Nat

VARIABLES faults, refusals

faultVars == <<faults, refusals>>

FaultsTypeOK == faults \in 0..MaxFaults /\ refusals \in 0..MaxRefusals

FaultsInit == faults = 0 /\ refusals = 0

Fault   == faults < MaxFaults /\ faults' = faults + 1 /\ UNCHANGED refusals
Refusal == refusals < MaxRefusals /\ refusals' = refusals + 1 /\ UNCHANGED faults
NoFault == UNCHANGED faultVars
=============================================================================
