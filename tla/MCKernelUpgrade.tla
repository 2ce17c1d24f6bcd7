---- MODULE MCKernelUpgrade ----
(* Model values for KernelUpgrade: one node, four kernels.                 *)
EXTENDS KernelUpgrade, TLC

KernelOf(alias) == [alias |-> alias, native |-> [k \in Kind |-> "unbound"], iommu |-> TRUE]

\* Kernels that name no vfio module, the generic one for everything, the
\* variant driver for Grace, and the variant driver for an ordinary GPU too.
Silent == [k \in Kind |-> "none"]
CatchAll == [k \in Kind |-> "vfio_pci"]
Grace == [k \in Kind |-> IF IsC2c(k) THEN "nvgrace_gpu_vfio_pci" ELSE "none"]
Wide == [Grace EXCEPT !["blackwell"] = "nvgrace_gpu_vfio_pci"]

MCKernels == {KernelOf(alias) : alias \in {Silent, CatchAll, Grace, Wide}}

BoardOf(a, b) == 1 :> a @@ 2 :> b
MCBoards == {BoardOf("graceBlackwell", "blackwell"), BoardOf("blackwell", "nvswitch")}
MCReadings == {"knob"}
=============================================================================
