---- MODULE DocClaims ----
(***************************************************************************)
(* What the repository's documents say of a single run and the code does   *)
(* not keep.  The README tells the story of each counterexample.           *)
(***************************************************************************)
EXTENDS Provisioner

\* A run that returns Ok has re-read the mode from the hardware
\* (ARCHITECTURE.md:60): what it reports active, the device behaves in.
SuccessMeansActive ==
  result = "applied" => \A d \in Handles : Meets(active[d], asked)

=============================================================================
