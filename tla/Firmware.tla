---- MODULE Firmware ----
(***************************************************************************)
(* The two mode knobs of a device and the plan that moves them.  CC and    *)
(* PPCIE clear each other in the device's firmware, so which writes run,   *)
(* and in which order, is not a free choice: nvidia::writes_for makes it.  *)
(***************************************************************************)
EXTENDS DeviceTable, Sequences

\* What a device holds or reports; "none" is a mode the device does not have
\* (Option::None in the source).
Knobs == [cc : CcMode \cup {"none"}, ppcie : PpcieMode \cup {"none"}]

\* A device of kind k carries exactly the knobs its kind has.
Fits(kn, k) ==
  /\ (kn.cc # "none") = CcCapable(k)
  /\ (kn.ppcie # "none") = CarriesPpcie(k)

\* Firmware never leaves both knobs enabled.
Exclusive(kn) == ~(kn.cc \in {"on", "devtools"} /\ kn.ppcie = "on")

Write == [knob : {"cc"}, to : CcMode] \cup [knob : {"ppcie"}, to : PpcieMode]
SetCc(to) == [knob |-> "cc", to |-> to]
SetPpcie(to) == [knob |-> "ppcie", to |-> to]

\* The writes a device of kind k has a knob for.
WriteOf(k) == {w \in Write : IF w.knob = "cc" THEN CcCapable(k) ELSE CarriesPpcie(k)}

\* A plan is at most two writes.
PlansOver(W) == {<<>>} \cup {<<w>> : w \in W} \cup {<<v, w>> : v, w \in W}
Plan == PlansOver(Write)

\* Gpu::set_cc_mode, Gpu::set_ppcie_mode, NvSwitch::set_ppcie_mode: enabling
\* one knob clears the other if there is one, disabling leaves it alone.
Put(kn, w) ==
  IF w.knob = "cc"
  THEN [cc |-> w.to,
        ppcie |-> IF w.to # "off" /\ kn.ppcie # "none" THEN "off" ELSE kn.ppcie]
  ELSE [cc |-> IF w.to = "on" /\ kn.cc # "none" THEN "off" ELSE kn.cc,
        ppcie |-> w.to]

CcWrite(kn, m) ==
  IF kn.cc \notin {"none", CcTarget(m)} THEN <<SetCc(CcTarget(m))>> ELSE <<>>

PpcieWrite(kn, m) ==
  IF kn.ppcie \notin {"none", PpcieTarget(m)}
  THEN <<SetPpcie(PpcieTarget(m))>> ELSE <<>>

\* Bug: enabling PPCIE forgets to ask whether it is already on.
WritesFor_AlwaysPpcie(kn, m) ==
  IF kn.cc = "none" \/ kn.ppcie = "none"
  THEN CcWrite(kn, m) \o PpcieWrite(kn, m)
  ELSE IF PpcieTarget(m) = "on" THEN <<SetPpcie("on")>>
  ELSE IF CcTarget(m) # "off"
  THEN IF kn.cc = CcTarget(m) /\ kn.ppcie = "off"
       THEN <<>> ELSE <<SetCc(CcTarget(m))>>
  ELSE PpcieWrite(kn, m) \o CcWrite(kn, m)

\* Bug: turning everything off leaves PPCIE to the CC write.
WritesFor_CcClearsAll(kn, m) ==
  IF kn.cc = "none" \/ kn.ppcie = "none"
  THEN CcWrite(kn, m) \o PpcieWrite(kn, m)
  ELSE IF PpcieTarget(m) = "on"
  THEN IF kn.ppcie = "on" /\ kn.cc = "off" THEN <<>> ELSE <<SetPpcie("on")>>
  ELSE CcWrite(kn, m)

\* writes_for: the plan from what the device reports to the node mode m.
WritesFor(kn, m) ==
  IF kn.cc = "none" \/ kn.ppcie = "none"
  THEN CcWrite(kn, m) \o PpcieWrite(kn, m)
  ELSE IF PpcieTarget(m) = "on"
  THEN IF kn.ppcie = "on" /\ kn.cc = "off" THEN <<>> ELSE <<SetPpcie("on")>>
  ELSE IF CcTarget(m) # "off"
  THEN IF kn.cc = CcTarget(m) /\ kn.ppcie = "off"
       THEN <<>> ELSE <<SetCc(CcTarget(m))>>
  ELSE PpcieWrite(kn, m) \o CcWrite(kn, m)

\* verify: every knob the device has is where the mode wants it.
Meets(kn, m) ==
  /\ kn.cc # "none" => kn.cc = CcTarget(m)
  /\ kn.ppcie # "none" => kn.ppcie = PpcieTarget(m)

\* The knobs after a plan has run.
AfterWrites(kn, ws) ==
  IF ws = <<>> THEN kn
  ELSE IF Tail(ws) = <<>> THEN Put(kn, Head(ws))
  ELSE Put(Put(kn, Head(ws)), Head(Tail(ws)))

=============================================================================
