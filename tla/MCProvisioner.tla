---- MODULE MCProvisioner ----
(* Model values for Provisioner and StatusReport: boards of two devices    *)
(* and their hosts.                                                        *)
EXTENDS StatusReport, TLC

\* modules.alias on a kernel that has the Grace variant driver, and on one
\* that has not; neither names a GPU or a switch otherwise.
AliasWithGrace == [k \in Kind |-> IF IsC2c(k) THEN "nvgrace_gpu_vfio_pci" ELSE "none"]
AliasWithout == [k \in Kind |-> "none"]

BoardOf(a, b) == 1 :> a @@ 2 :> b

\* Hosts that drive no device themselves, or the switch, or the GPUs.
NativeNone == [k \in Kind |-> "unbound"]
NativeSwitch == [NativeNone EXCEPT !["nvswitch"] = "nvidia-nvswitch"]
NativeGpu == [NativeNone EXCEPT !["blackwell"] = "nvidia"]
HostOf(alias, native, iommu) == [alias |-> alias, native |-> native, iommu |-> iommu]

\* Two PPCIE boards, a Grace one among them, a Grace node of another kind, and a
\* GPU beside one the node refuses CC for.
MCBoards == {BoardOf("hopper", "nvswitch"),
             BoardOf("graceHopper", "nvswitch"),
             BoardOf("graceBlackwell", "blackwell"),
             BoardOf("blackwell", "preHopper")}

MCHosts == {HostOf(AliasWithGrace, NativeNone, TRUE),
            HostOf(AliasWithGrace, NativeSwitch, TRUE),
            HostOf(AliasWithGrace, NativeGpu, TRUE),
            HostOf(AliasWithout, NativeNone, TRUE),
            HostOf(AliasWithGrace, NativeNone, FALSE)}

MCReadings == {"knob", "active"}
MCKnobReading == {"knob"}
=============================================================================
