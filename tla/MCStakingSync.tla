--------------------------- MODULE MCStakingSync ---------------------------
(* Small instances of StakingSync. *)
EXTENDS StakingSync, TLC

CONSTANTS v1, v2

(* The chain lists v1 before v2. *)
MCAddress == (v1 :> 1) @@ (v2 :> 2)
=============================================================================
