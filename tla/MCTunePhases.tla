---------------------------- MODULE MCTunePhases ----------------------------
(***************************************************************************)
(* Instances of TunePhases for TLC: a HIGH, a MEDIUM and a LOW key, of     *)
(* which the first and the last are related, and in some instances a key   *)
(* that needs a reboot.                                                    *)
(***************************************************************************)
EXTENDS TuneBudget, TLC

CONSTANTS high, medium, low, late,
          Limits, Kinds, Reboots   \* max_iterations, unified or not, allow_reboot

MCTier == [k \in Keys |-> CASE k = high -> "high" [] k = low -> "low" [] OTHER -> "medium"]

MCCompanions == [k \in Keys |-> IF k = high THEN Keys \ {high} ELSE {}]

MCRelated == {<<j, k>> \in Keys \X Keys : j = k \/ {j, k} = {high, low}}

MCPolicies == {Session(u, r, n) : u \in Kinds, r \in Reboots, n \in Limits}
=============================================================================
