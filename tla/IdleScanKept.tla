---- MODULE IdleScanKept ----
(***************************************************************************)
(* The scan of /proc implements the one-step check, as long as no          *)
(* descriptor of a device appears while it runs and no read of /proc fails. *)
(* The answer "busy" is given with the first link that names a node of the *)
(* device, although holders still reads on; "idle" with the end of the     *)
(* listing.                                                                *)
(***************************************************************************)
EXTENDS IdleScan

HeldDevices == {d \in Device : Held(d, open)}
Answered ==
  IF verdict = "scanning" /\ found # {} THEN "busy" ELSE verdict

Check == INSTANCE IdleCheck WITH held <- HeldDevices, verdict <- Answered

\* Every step of the scan is a step of the check or none, until a descriptor
\* has appeared during the scan or a read of /proc has failed: a device passed
\* was idle at a moment of its scan, and a refusal names a device that was open
\* when its link was read, not a neighbour's and not an earlier holder's
\* (main.rs:474).
ScanIsCheck ==
  /\ Check!CheckInit
  /\ [][~gained' /\ blind' = 0 => Check!CheckNext]_(Check!checkVars)

=============================================================================
