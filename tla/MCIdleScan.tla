---- MODULE MCIdleScan ----
(* Model values for IdleScan and its refinement: two devices that share a  *)
(* group, the second without a cdev, and one that no node gives to a VM.   *)
EXTENDS IdleScanKept, TLC

MCGroup == 1 :> 14 @@ 2 :> 14 @@ 3 :> -1
=============================================================================
