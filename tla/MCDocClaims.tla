---- MODULE MCDocClaims ----
(* Model values for DocClaims: one small board.                            *)
EXTENDS DocClaims, TLC

HostOf(alias, native) == [alias |-> alias, native |-> native, iommu |-> TRUE]
AliasWithGrace == [k \in Kind |-> IF IsC2c(k) THEN "nvgrace_gpu_vfio_pci" ELSE "none"]
NativeNone == [k \in Kind |-> "unbound"]

QuietHosts == {HostOf(AliasWithGrace, NativeNone)}

HopperBoards == {1 :> "hopper" @@ 2 :> "hopper"}

KnobReading == {"knob"}
=============================================================================
