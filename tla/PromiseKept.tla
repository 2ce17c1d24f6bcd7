---- MODULE PromiseKept ----
(***************************************************************************)
(* Provisioner implements NodePromise: the owner's view of a node, defined *)
(* over the provisioner's.                                                 *)
(***************************************************************************)
EXTENDS Provisioner

WhereIs(d) == IF IsVfio(driver[d]) THEN "vfio" ELSE "host"
WhereHome(d) == IF IsVfio(host.native[kind[d]]) THEN "vfio" ELSE "host"
ModesOf(d, kn) == {m \in Mode : HasHandle(kind[d]) => Meets(kn, m)}

Outcome ==
  IF pc = "stopped" THEN result
  ELSE IF pc \in {"rmModules", "rmIds", "rmRules"} THEN "removing"
  ELSE IF \E b \in before : b.converged THEN "settled"
  ELSE "running"

Promise == INSTANCE NodePromise WITH
  scope   <- InScopeDevices,
  leaving <- [m \in Mode |-> {d \in Device : InPassthrough(kind[d], m)}],
  home    <- [d \in Device |-> WhereHome(d)],
  place   <- [d \in Device |-> WhereIs(d)],
  shown   <- [d \in Device |-> ModesOf(d, Shown(d))],
  behaves <- [d \in Device |-> ModesOf(d, active[d])],
  inUse   <- held,
  wish    <- asked,
  outcome <- Outcome

\* Every behaviour of main::apply and main::uninstall, crashes and torn boot
\* files included, is one NodePromise allows, on hardware that reports what
\* its EEPROM holds and where no VM opens a device during a run.
PromiseIsKept == Promise!PromiseSpec

=============================================================================
