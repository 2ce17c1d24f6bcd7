---- MODULE DeviceTable ----
(***************************************************************************)
(* What the provisioner knows about a device without touching it: the      *)
(* DEVICES table and the predicates of device.rs, the node mode of mode.rs *)
(* and the choices main.rs derives from the two.  A device id is           *)
(* abstracted to its kind, the coarsest partition of ids on which every    *)
(* one of those predicates is a function.                                  *)
(***************************************************************************)

\* "preHopper" is an NVIDIA GPU with no entry in the chip table; "nic" stands
\* for any passthrough-capable device without a row in DEVICES.
Kind == {"hopper", "graceHopper", "blackwell", "graceBlackwell",
         "preHopper", "nvswitch", "nic"}

Mode == {"off", "on", "devtools", "ppcie"}
CcMode == {"off", "on", "devtools"}
PpcieMode == {"off", "on"}

\* The per-GPU CC mode and the PPCIE mode that a node mode stands for.
CcTarget(m) == IF m \in {"off", "ppcie"} THEN "off" ELSE m
PpcieTarget(m) == IF m = "ppcie" THEN "on" ELSE "off"
CcReady(m) == m # "off"

\* The row a device matches in DEVICES, "none" when it has no row.
Provisioning(k) ==
  CASE k = "nvswitch" -> "NvidiaInBandPpcie"
    [] k = "nic"      -> "none"
    [] OTHER          -> "NvidiaInBandCc"

InScope(k) == Provisioning(k) # "none"

\* pcilibs_rs::cc: the chip table and the coherently attached ids.
HasChip(k) == k \in {"hopper", "graceHopper", "blackwell", "graceBlackwell"}
SupportsPpcie(k) == k \in {"hopper", "graceHopper"}
IsC2c(k) == k \in {"graceHopper", "graceBlackwell"}

CcCapable(k) == Provisioning(k) = "NvidiaInBandCc" /\ HasChip(k)

CarriesPpcie(k) ==
  \/ Provisioning(k) = "NvidiaInBandCc" /\ SupportsPpcie(k)
  \/ Provisioning(k) = "NvidiaInBandPpcie"

\* The devices nvidia::apply opens: the others have no in-band mode.
HasHandle(k) == CcCapable(k) \/ Provisioning(k) = "NvidiaInBandPpcie"

\* verify_capable over the kinds found on the node.  The switches are not
\* asked, and the Grace check is only made for a mode that turns CC on.
VerifyCapable(kinds, m) ==
  LET gpus == {k \in kinds : Provisioning(k) = "NvidiaInBandCc"}
  IN  CcReady(m) =>
        /\ \A k \in gpus : IF m = "ppcie" THEN CarriesPpcie(k) ELSE CcCapable(k)
        /\ CcTarget(m) # "off" => \A k \in gpus : ~IsC2c(k)

\* passthrough_set: the switches leave the host only under ppcie.
InPassthrough(k, m) ==
  InScope(k) /\ (m = "ppcie" \/ Provisioning(k) # "NvidiaInBandPpcie")

-----------------------------------------------------------------------------
(* The vfio driver of a device.  `alias` is the running kernel's           *)
(* modules.alias: the vfio module that names this kind, or "none".         *)

Module == {"vfio_pci", "nvgrace_gpu_vfio_pci"}
Driver == {"unbound", "vfio-pci", "nvgrace_gpu_vfio_pci", "nvidia",
           "nvidia-nvswitch"}

GenericVfioSupported(k) ==
  \/ Provisioning(k) = "NvidiaInBandCc" /\ CcCapable(k) /\ ~IsC2c(k)
  \/ Provisioning(k) = "NvidiaInBandPpcie"

\* Bug: the fallback names the driver where modprobe wants the module.
VfioModule_NamesDriver(alias, k) ==
  IF alias[k] = "none" /\ GenericVfioSupported(k) THEN "vfio-pci" ELSE alias[k]

VfioModule(alias, k) ==
  IF alias[k] = "none" /\ GenericVfioSupported(k) THEN "vfio_pci" ELSE alias[k]

\* Bug: the answer of the alias table is taken whatever the device.
VariantAvailable_Always(k, module) == module # "none"

VariantAvailable(k, module) == ~(IsC2c(k) /\ module = "vfio_pci")

\* resolve_module, "none" when it returns an error.
ResolveModule(alias, k) ==
  LET module == VfioModule(alias, k)
  IN  IF module # "none" /\ VariantAvailable(k, module) THEN module ELSE "none"

\* /sys/module/<module>/drivers: the driver a module registers.
DriverFor(module) == IF module = "vfio_pci" THEN "vfio-pci" ELSE module

\* Bug: a variant driver is taken for one that vfio-pci's ids can claim.
NeedsDriverOverride_Never(module) == module = "none"

NeedsDriverOverride(module) == module # "vfio_pci"

IsVfio(driver) == driver \in {"vfio-pci", "nvgrace_gpu_vfio_pci"}

\* The host GPU drivers host::check refuses; the switch's own is not one.
ConflictingDrivers == {"nvidia", "nouveau"}

-----------------------------------------------------------------------------
(* The label values of one device, from the modes it was probed at.        *)

\* Bug: the CC mode is looked at before the PPCIE mode.
CcLabelValues_CcFirst(k, seen) ==
  IF Provisioning(k) # "NvidiaInBandCc" THEN [mode |-> "none", ready |-> FALSE]
  ELSE IF seen.cc # "none" THEN [mode |-> seen.cc, ready |-> seen.cc # "off"]
  ELSE [mode |-> seen.ppcie, ready |-> seen.ppcie = "on"]

CcLabelValues(k, seen) ==
  IF Provisioning(k) # "NvidiaInBandCc" THEN [mode |-> "none", ready |-> FALSE]
  ELSE IF seen.ppcie = "on" THEN [mode |-> "ppcie", ready |-> TRUE]
  ELSE [mode |-> seen.cc, ready |-> seen.cc \notin {"none", "off"}]

=============================================================================
