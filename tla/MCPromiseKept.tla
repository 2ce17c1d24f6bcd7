---- MODULE MCPromiseKept ----
(* Model values for PromiseKept: a PPCIE board and a Grace node, each on   *)
(* the hosts that make its bindings differ.                                *)
EXTENDS PromiseKept, TLC

AliasWithGrace == [k \in Kind |-> IF IsC2c(k) THEN "nvgrace_gpu_vfio_pci" ELSE "none"]
NativeNone == [k \in Kind |-> "unbound"]
NativeSwitch == [NativeNone EXCEPT !["nvswitch"] = "nvidia-nvswitch"]
HostOf(native) == [alias |-> AliasWithGrace, native |-> native, iommu |-> TRUE]

MCBoards == {1 :> "hopper" @@ 2 :> "nvswitch",
             1 :> "graceBlackwell" @@ 2 :> "nic"}
MCHosts == {HostOf(NativeNone), HostOf(NativeSwitch)}
MCReadings == {"knob"}
=============================================================================
