---- MODULE MCOverlap ----
(* Model values for Overlap: two runs on a PPCIE board, or on two GPUs.    *)
EXTENDS Overlap, TLC

CONSTANTS r1, r2

BoardOf(a, b) == 1 :> a @@ 2 :> b
MCBoards == {BoardOf("hopper", "nvswitch"), BoardOf("hopper", "blackwell"),
             BoardOf("nic", "blackwell")}
MCGpus == {BoardOf("hopper", "hopper")}
MCReadings == {"knob", "active"}

MCRequests == [Run -> {"on", "off", "ppcie", Uninstall}]
Swaps == Permutations({r1, r2})
MCTwoModes == {r1 :> "on" @@ r2 :> "off"}
=============================================================================
