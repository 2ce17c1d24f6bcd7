---- MODULE MCModeStage ----
(* Model values for ModeStage: boards of two and three devices.            *)
EXTENDS ModeStage, TLC

BoardOf(a, b, c) == 1 :> a @@ 2 :> b @@ 3 :> c

\* An HGX Hopper baseboard, the mixed boards a run refuses or half-serves,
\* and the boards with a device the stage must not open.
MCBoards == {BoardOf("hopper", "hopper", "nvswitch"),
             BoardOf("hopper", "preHopper", "nvswitch"),
             BoardOf("blackwell", "hopper", "nic"),
             BoardOf("graceBlackwell", "blackwell", "nvswitch")}

\* One board of each shape is enough for whether a run ends.
MCEndBoards == {BoardOf("hopper", "blackwell", "nic")}

MCReadings == {"knob", "active"}
=============================================================================
