---- MODULE KernelUpgrade ----
(***************************************************************************)
(* The provisioner on a node whose kernel changes from one boot to the     *)
(* next.  A run resolves drivers against the running kernel's alias table  *)
(* and persists the answer; the next boot, of whichever kernel, acts on    *)
(* what it finds in the three files.  A kernel is a host of `Hosts`: the   *)
(* hosts a node changes between differ only in their alias tables.         *)
(***************************************************************************)
EXTENDS Provisioner

\* A kernel ships vfio_pci, and every vfio module its alias table names.
Ships(kernel, module) ==
  module = "vfio_pci" \/ \E k \in Kind : kernel.alias[k] = module

\* Where a rule names a module the kernel does not ship, driver_override keeps
\* every other driver away and nothing binds.
BootsTo(d, kernel) ==
  LET module == CHOOSE m \in Module : DriverFor(m) = BootDriver(d)
  IN  IF IsVfio(BootDriver(d)) /\ ~Ships(kernel, module) THEN "unbound" ELSE BootDriver(d)

\* A reboot into `kernel`, which may be the one that was running.
KernelReboot(kernel) ==
  /\ <<kernel.native, kernel.iommu>> = <<host.native, host.iommu>>
  /\ Reboot
  /\ host' = kernel
  /\ driver' = [d \in Device |-> BootsTo(d, kernel)]
  /\ loaded' = {module \in boot.modules \cup {rule[2] : rule \in boot.rules} :
                  Ships(kernel, module)}
  /\ held' = {}
  /\ Stop("none")
  /\ UNCHANGED <<boot, chosen>>

KernelNext ==
  \/ RunStep
  \/ \E m \in Mode : Apply(m)
  \/ Uninstall \/ ProbeUnreadable \/ WriteIsLost \/ ModeFails \/ Abort
  \/ \E d \in Device : VmStart(d) \/ VmStop(d)
  \/ \E kernel \in Hosts : KernelReboot(kernel)

KernelSpec == ProvisionerInit /\ [][KernelNext]_vars

-----------------------------------------------------------------------------
(* Properties.                                                             *)

\* A coherently attached GPU is never on plain vfio-pci, which "would be handed
\* to a VM with its memory missing" (ARCHITECTURE.md:492): not by a run, nor
\* by modprobe, nor by a boot of any kernel from files that any runs on any
\* kernels have written, torn ones included.
CoherentNeverGeneric ==
  \A d \in Device : IsC2c(kind[d]) => "vfio-pci" \notin {driver[d], BootDriver(d)}

\* Once a run has written the three files under the running kernel, a reboot
\* into it binds what the run chose and nothing else in scope, whatever files
\* runs under other kernels left, until the files change again (modules.rs:179).
ComesBackOnThisKernel ==
  (pc \in {"bind", "release", "verify"} \/ result = "applied") =>
    \A d \in InScopeDevices :
      IF d \in Passthrough THEN BootsTo(d, host) = Target(d)
                           ELSE ~IsVfio(BootsTo(d, host))

-----------------------------------------------------------------------------
(* The inductive invariant of CoherentNeverGeneric.                        *)

\* As far as CoherentNeverGeneric needs types; that a driver or a module is
\* never "none" where one is used is ProvisionerTypeOK.
UpgradeTypeOK ==
  /\ kind \in [Device -> Kind]
  /\ host \in Hosts
  /\ driver \in [Device -> Driver \cup {"none"}]
  /\ chosen \in [Device -> Module \cup {"none"}]
  /\ boot \in [modules : SUBSET (Module \cup {"none"}), ids : SUBSET Kind,
               rules : SUBSET (Kind \X (Module \cup {"none"}))]

\* Neither a run's choice nor a file names the generic module for one.
GenericNowhere ==
  /\ \A d \in Device : IsC2c(kind[d]) => driver[d] # "vfio-pci" /\ chosen[d] # "vfio_pci"
  /\ \A k \in boot.ids : ~IsC2c(k)
  /\ \A rule \in boot.rules : IsC2c(rule[1]) => rule[2] # "vfio_pci"

UpgradeInvariant == UpgradeTypeOK /\ GenericNowhere

=============================================================================
