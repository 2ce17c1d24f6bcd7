---- MODULE FirmwareProofs ----
(***************************************************************************)
(* What writes_for promises, for every state of the knobs and every mode.  *)
(***************************************************************************)
EXTENDS Firmware, SequenceTheorems, TLAPS

\* Modes map to modes.
LEMMA TargetsTyped ==
  ASSUME NEW m \in Mode
  PROVE  CcTarget(m) \in CcMode /\ PpcieTarget(m) \in PpcieMode
BY DEF Mode, CcTarget, PpcieTarget, CcMode, PpcieMode

\* A write leaves knobs behind.
LEMMA PutTyped ==
  ASSUME NEW kn \in Knobs, NEW w \in Write
  PROVE  Put(kn, w) \in Knobs
BY DEF Knobs, Write, Put, CcMode, PpcieMode

\* The plans of at most two writes, put together from the two halves.
LEMMA Halves ==
  ASSUME NEW kn \in Knobs, NEW m \in Mode
  PROVE  /\ CcWrite(kn, m) = IF kn.cc \in {"none", CcTarget(m)}
                             THEN <<>> ELSE <<SetCc(CcTarget(m))>>
         /\ PpcieWrite(kn, m) = IF kn.ppcie \in {"none", PpcieTarget(m)}
                                THEN <<>> ELSE <<SetPpcie(PpcieTarget(m))>>
         /\ SetCc(CcTarget(m)) \in Write
         /\ SetPpcie(PpcieTarget(m)) \in Write
BY TargetsTyped DEF CcWrite, PpcieWrite, SetCc, SetPpcie, Write

\* Two plans of at most one write, one after the other.
LEMMA Concatenations ==
  ASSUME NEW v \in Write, NEW w \in Write
  PROVE  /\ <<>> \o <<>> = <<>>
         /\ <<v>> \o <<>> = <<v>>
         /\ <<>> \o <<w>> = <<w>>
         /\ <<v>> \o <<w>> = <<v, w>>
<1>1. <<>> \in Seq(Write) /\ <<v>> \in Seq(Write) /\ <<w>> \in Seq(Write)
  OBVIOUS
<1>2. <<v>> \o <<w>> = Append(<<v>>, w)
  BY <1>1, AppendIsConcat
<1>3. Append(<<v>>, w) = <<v, w>>
  <2>1. /\ Append(<<v>>, w) \in Seq(Write)
        /\ Len(Append(<<v>>, w)) = 2
        /\ Append(<<v>>, w)[1] = v
        /\ Append(<<v>>, w)[2] = w
    BY <1>1, AppendProperties
  <2>2. /\ <<v, w>> \in Seq(Write)
        /\ Len(<<v, w>>) = 2
        /\ <<v, w>>[1] = v
        /\ <<v, w>>[2] = w
    OBVIOUS
  <2> DEFINE s == Append(<<v>>, w)
             t == <<v, w>>
  <2>3. Len(s) = Len(t)
    BY <2>1, <2>2
  <2>4. \A i \in 1 .. Len(s) : s[i] = t[i]
    <3>1. Len(s) = 2 /\ s[1] = t[1] /\ s[2] = t[2]
      BY <2>1, <2>2
    <3> HIDE DEF s, t
    <3>2. \A i \in 1 .. 2 : i = 1 \/ i = 2
      OBVIOUS
    <3> QED
      BY <3>1, <3>2
  <2>5. s \in Seq(Write) /\ t \in Seq(Write)
    BY <2>1, <2>2
  <2> HIDE DEF s, t
  <2>6. s = t
    BY <2>3, <2>4, <2>5, SeqEqual
  <2> QED
    BY <2>6 DEF s, t
<1> QED
  BY <1>1, <1>2, <1>3, ConcatEmptySeq

\* The heads and tails of a plan.
LEMMA PlanParts ==
  ASSUME NEW W, NEW v \in W, NEW w \in W
  PROVE  /\ {<<>>, <<v>>, <<v, w>>} \subseteq PlansOver(W)
         /\ <<v>> # <<>> /\ <<v, w>> # <<>>
         /\ Head(<<v>>) = v /\ Tail(<<v>>) = <<>>
         /\ Head(<<v, w>>) = v /\ Tail(<<v, w>>) = <<w>>
BY DEF PlansOver

\* A plan is no write, one, or two.
LEMMA PlanCases ==
  ASSUME NEW W, NEW p \in PlansOver(W)
  PROVE  \/ p = <<>>
         \/ \E v \in W : p = <<v>>
         \/ \E v, w \in W : p = <<v, w>>
BY DEF PlansOver

\* What is left of a plan after its first write is a plan, and the rest of it
\* takes the knobs where the whole of it would have.
LEMMA PlanStep ==
  ASSUME NEW W, NEW p \in PlansOver(W), p # <<>>, NEW kn
  PROVE  /\ Head(p) \in W
         /\ Tail(p) \in PlansOver(W)
         /\ AfterWrites(Put(kn, Head(p)), Tail(p)) = AfterWrites(kn, p)
<1>1. CASE \E v \in W : p = <<v>>
  <2> PICK v \in W : p = <<v>>
    BY <1>1
  <2> QED
    BY PlanParts DEF AfterWrites
<1>2. CASE \E v, w \in W : p = <<v, w>>
  <2> PICK v \in W, w \in W : p = <<v, w>>
    BY <1>2
  <2>1. Head(p) = v /\ Tail(p) = <<w>> /\ p # <<>>
    BY PlanParts
  <2>2. <<w>> # <<>> /\ Head(<<w>>) = w /\ Tail(<<w>>) = <<>>
    BY PlanParts
  <2>3. AfterWrites(kn, p) = Put(Put(kn, v), w)
    BY <2>1, <2>2 DEF AfterWrites
  <2>4. AfterWrites(Put(kn, v), <<w>>) = Put(Put(kn, v), w)
    BY <2>2 DEF AfterWrites
  <2>5. <<w>> \in PlansOver(W)
    BY PlanParts
  <2> QED
    BY <2>1, <2>3, <2>4, <2>5
<1> QED
  BY <1>1, <1>2, PlanCases

\* writes_for returns a plan, of writes the device has a knob for.
THEOREM WritesForTyped ==
  ASSUME NEW k \in Kind, NEW kn \in Knobs, Fits(kn, k), NEW m \in Mode
  PROVE  WritesFor(kn, m) \in PlansOver(WriteOf(k))
<1> DEFINE cc == CcWrite(kn, m)
          ppcie == PpcieWrite(kn, m)
          v == SetCc(CcTarget(m))
          w == SetPpcie(PpcieTarget(m))
<1>1. /\ v \in Write /\ w \in Write
      /\ v.knob = "cc" /\ w.knob = "ppcie"
      /\ cc = IF kn.cc \in {"none", CcTarget(m)} THEN <<>> ELSE <<v>>
      /\ ppcie = IF kn.ppcie \in {"none", PpcieTarget(m)} THEN <<>> ELSE <<w>>
  BY Halves DEF SetCc, SetPpcie
<1>2. /\ kn.cc # "none" => v \in WriteOf(k)
      /\ kn.ppcie # "none" => w \in WriteOf(k)
  BY <1>1 DEF WriteOf, Fits
<1>3. PpcieTarget(m) = "on" => SetPpcie("on") = w
  OBVIOUS
<1>4. /\ <<>> \o <<>> = <<>>
      /\ <<v>> \o <<>> = <<v>> /\ <<>> \o <<v>> = <<v>>
      /\ <<w>> \o <<>> = <<w>> /\ <<>> \o <<w>> = <<w>>
      /\ <<v>> \o <<w>> = <<v, w>> /\ <<w>> \o <<v>> = <<w, v>>
  BY <1>1, Concatenations
<1> HIDE DEF cc, ppcie, v, w
<1>5. \/ cc \o ppcie = <<>> /\ ppcie \o cc = <<>>
      \/ kn.cc # "none" /\ cc \o ppcie = <<v>> /\ ppcie \o cc = <<v>>
      \/ kn.ppcie # "none" /\ cc \o ppcie = <<w>> /\ ppcie \o cc = <<w>>
      \/ /\ kn.cc # "none" /\ kn.ppcie # "none"
         /\ cc \o ppcie = <<v, w>> /\ ppcie \o cc = <<w, v>>
  BY <1>1, <1>4
<1>6. /\ <<>> \in PlansOver(WriteOf(k))
      /\ v \in WriteOf(k) => <<v>> \in PlansOver(WriteOf(k))
      /\ w \in WriteOf(k) => <<w>> \in PlansOver(WriteOf(k))
      /\ (v \in WriteOf(k) /\ w \in WriteOf(k)) =>
           <<v, w>> \in PlansOver(WriteOf(k)) /\ <<w, v>> \in PlansOver(WriteOf(k))
  BY DEF PlansOver
<1>7. /\ cc \o ppcie \in PlansOver(WriteOf(k))
      /\ ppcie \o cc \in PlansOver(WriteOf(k))
  BY <1>2, <1>5, <1>6
<1>8. \/ WritesFor(kn, m) \in {cc \o ppcie, ppcie \o cc, <<>>}
      \/ kn.ppcie # "none" /\ WritesFor(kn, m) = <<w>>
      \/ kn.cc # "none" /\ WritesFor(kn, m) = <<v>>
  BY <1>3 DEF WritesFor, cc, ppcie, v, w
<1> QED
  BY <1>2, <1>6, <1>7, <1>8

\* A plan of the writes of a kind is a plan.
LEMMA PlansOfKind ==
  ASSUME NEW k \in Kind
  PROVE  PlansOver(WriteOf(k)) \subseteq Plan
BY DEF PlansOver, Plan, WriteOf

\* The plan, by what the device reports and the mode asked for.
LEMMA WritesForCases ==
  ASSUME NEW kn \in Knobs, NEW m \in Mode
  PROVE  \/ WritesFor(kn, m) = <<>> /\ Meets(kn, m)
         \/ /\ WritesFor(kn, m) = <<SetCc(CcTarget(m))>>
            /\ ~Meets(kn, m)
            /\ Meets(Put(kn, SetCc(CcTarget(m))), m)
         \/ /\ WritesFor(kn, m) = <<SetPpcie(PpcieTarget(m))>>
            /\ ~Meets(kn, m)
            /\ Meets(Put(kn, SetPpcie(PpcieTarget(m))), m)
         \/ /\ WritesFor(kn, m) = <<SetPpcie(PpcieTarget(m)), SetCc(CcTarget(m))>>
            /\ ~Meets(kn, m)
            /\ Meets(Put(Put(kn, SetPpcie(PpcieTarget(m))), SetCc(CcTarget(m))), m)
         \/ /\ WritesFor(kn, m) = <<SetCc(CcTarget(m)), SetPpcie(PpcieTarget(m))>>
            /\ ~Meets(kn, m)
            /\ Meets(Put(Put(kn, SetCc(CcTarget(m))), SetPpcie(PpcieTarget(m))), m)
<1> DEFINE v == SetCc(CcTarget(m))
          w == SetPpcie(PpcieTarget(m))
<1>1. /\ CcWrite(kn, m) = IF kn.cc \in {"none", CcTarget(m)} THEN <<>> ELSE <<v>>
      /\ PpcieWrite(kn, m) = IF kn.ppcie \in {"none", PpcieTarget(m)}
                             THEN <<>> ELSE <<w>>
  BY Halves
<1>2. /\ <<>> \o <<>> = <<>>
      /\ <<v>> \o <<>> = <<v>> /\ <<>> \o <<v>> = <<v>>
      /\ <<w>> \o <<>> = <<w>> /\ <<>> \o <<w>> = <<w>>
      /\ <<v>> \o <<w>> = <<v, w>> /\ <<w>> \o <<v>> = <<w, v>>
  BY Halves, Concatenations
<1>3. CASE kn.cc = "none" \/ kn.ppcie = "none"
  <2>1. WritesFor(kn, m) = CcWrite(kn, m) \o PpcieWrite(kn, m)
    BY <1>3 DEF WritesFor
  <2>2. CASE kn.cc \in {"none", CcTarget(m)} /\ kn.ppcie \in {"none", PpcieTarget(m)}
    BY <2>1, <2>2, <1>1, <1>2 DEF Meets
  <2>3. CASE kn.cc \notin {"none", CcTarget(m)}
    <3>1. WritesFor(kn, m) = <<v>> /\ kn.ppcie = "none"
      BY <2>1, <2>3, <1>1, <1>2, <1>3
    <3>2. ~Meets(kn, m) /\ Meets(Put(kn, v), m)
      BY <2>3, <3>1 DEF Meets, Put, SetCc
    <3> QED
      BY <3>1, <3>2
  <2>4. CASE kn.cc \in {"none", CcTarget(m)} /\ kn.ppcie \notin {"none", PpcieTarget(m)}
    <3>1. WritesFor(kn, m) = <<w>> /\ kn.cc = "none"
      BY <2>1, <2>4, <1>1, <1>2, <1>3
    <3>2. ~Meets(kn, m) /\ Meets(Put(kn, w), m)
      BY <2>4, <3>1 DEF Meets, Put, SetPpcie
    <3> QED
      BY <3>1, <3>2
  <2> QED
    BY <2>2, <2>3, <2>4
<1>4. CASE kn.cc # "none" /\ kn.ppcie # "none" /\ m = "ppcie"
  <2>1. /\ CcTarget(m) = "off" /\ PpcieTarget(m) = "on"
        /\ kn.cc \in CcMode /\ kn.ppcie \in PpcieMode
    BY <1>4 DEF CcTarget, PpcieTarget, Knobs
  <2>2. WritesFor(kn, m) = IF kn.ppcie = "on" /\ kn.cc = "off" THEN <<>> ELSE <<w>>
    BY <1>4, <2>1 DEF WritesFor
  <2>3. Meets(kn, m) <=> (kn.ppcie = "on" /\ kn.cc = "off")
    BY <1>4, <2>1 DEF Meets
  <2>4. Meets(Put(kn, w), m)
    BY <1>4, <2>1 DEF Meets, Put, SetPpcie
  <2> QED
    BY <2>2, <2>3, <2>4
<1>5. CASE kn.cc # "none" /\ kn.ppcie # "none" /\ m \in {"on", "devtools"}
  <2>1. /\ CcTarget(m) # "off" /\ PpcieTarget(m) = "off"
        /\ kn.cc \in CcMode /\ kn.ppcie \in PpcieMode
    BY <1>5 DEF CcTarget, PpcieTarget, Knobs
  <2>2. WritesFor(kn, m) = IF kn.cc = CcTarget(m) /\ kn.ppcie = "off"
                           THEN <<>> ELSE <<v>>
    BY <1>5, <2>1 DEF WritesFor
  <2>3. Meets(kn, m) <=> (kn.cc = CcTarget(m) /\ kn.ppcie = "off")
    BY <1>5, <2>1 DEF Meets
  <2>4. Meets(Put(kn, v), m)
    BY <1>5, <2>1 DEF Meets, Put, SetCc
  <2> QED
    BY <2>2, <2>3, <2>4
<1>6. CASE kn.cc # "none" /\ kn.ppcie # "none" /\ m = "off"
  <2>1. /\ CcTarget(m) = "off" /\ PpcieTarget(m) = "off"
        /\ kn.cc \in CcMode /\ kn.ppcie \in PpcieMode
    BY <1>6 DEF CcTarget, PpcieTarget, Knobs
  <2>2. WritesFor(kn, m) = PpcieWrite(kn, m) \o CcWrite(kn, m)
    BY <1>6, <2>1 DEF WritesFor
  <2>3. CASE kn.cc = "off" /\ kn.ppcie = "off"
    BY <2>1, <2>2, <2>3, <1>1, <1>2 DEF Meets
  <2>4. CASE kn.cc # "off" /\ kn.ppcie = "off"
    <3>1. WritesFor(kn, m) = <<v>>
      BY <2>1, <2>2, <2>4, <1>1, <1>2, <1>6
    <3>2. ~Meets(kn, m) /\ Meets(Put(kn, v), m)
      BY <2>1, <2>4, <1>6 DEF Meets, Put, SetCc
    <3> QED
      BY <3>1, <3>2
  <2>5. CASE kn.cc = "off" /\ kn.ppcie # "off"
    <3>1. WritesFor(kn, m) = <<w>>
      BY <2>1, <2>2, <2>5, <1>1, <1>2, <1>6
    <3>2. ~Meets(kn, m) /\ Meets(Put(kn, w), m)
      BY <2>1, <2>5, <1>6 DEF Meets, Put, SetPpcie
    <3> QED
      BY <3>1, <3>2
  <2>6. CASE kn.cc # "off" /\ kn.ppcie # "off"
    <3>1. WritesFor(kn, m) = <<w, v>>
      BY <2>1, <2>2, <2>6, <1>1, <1>2, <1>6
    <3>2. ~Meets(kn, m) /\ Meets(Put(Put(kn, w), v), m)
      BY <2>1, <2>6, <1>6 DEF Meets, Put, SetPpcie, SetCc
    <3> QED
      BY <3>1, <3>2
  <2> QED
    BY <2>3, <2>4, <2>5, <2>6
<1> QED
  BY <1>3, <1>4, <1>5, <1>6 DEF Mode

\* The plan takes a device from whatever it reports to the mode asked for,
\* although each write may undo half of another, and it is empty exactly when
\* the device is there already: nvidia::writes_for.
THEOREM PlanReachesMode ==
  ASSUME NEW kn \in Knobs, NEW m \in Mode
  PROVE  /\ Meets(AfterWrites(kn, WritesFor(kn, m)), m)
         /\ WritesFor(kn, m) = <<>> <=> Meets(kn, m)
<1> DEFINE v == SetCc(CcTarget(m))
          w == SetPpcie(PpcieTarget(m))
<1>1. v \in Write /\ w \in Write
  BY Halves
<1> HIDE DEF v, w
<1>2. \/ WritesFor(kn, m) = <<>> /\ Meets(kn, m)
      \/ /\ WritesFor(kn, m) = <<v>>
         /\ ~Meets(kn, m) /\ Meets(Put(kn, v), m)
      \/ /\ WritesFor(kn, m) = <<w>>
         /\ ~Meets(kn, m) /\ Meets(Put(kn, w), m)
      \/ /\ WritesFor(kn, m) = <<w, v>>
         /\ ~Meets(kn, m) /\ Meets(Put(Put(kn, w), v), m)
      \/ /\ WritesFor(kn, m) = <<v, w>>
         /\ ~Meets(kn, m) /\ Meets(Put(Put(kn, v), w), m)
  BY WritesForCases DEF v, w
<1>3. /\ <<v>> # <<>> /\ <<w>> # <<>> /\ <<v, w>> # <<>> /\ <<w, v>> # <<>>
      /\ AfterWrites(kn, <<>>) = kn
      /\ AfterWrites(kn, <<v>>) = Put(kn, v)
      /\ AfterWrites(kn, <<w>>) = Put(kn, w)
      /\ AfterWrites(kn, <<v, w>>) = Put(Put(kn, v), w)
      /\ AfterWrites(kn, <<w, v>>) = Put(Put(kn, w), v)
  BY <1>1, PlanParts DEF AfterWrites
<1> QED
  BY <1>2, <1>3

\* A write for a knob the device has never leaves both knobs enabled, nor a
\* knob the device does not have, on a device where neither was so before.
THEOREM PutIsSound ==
  ASSUME NEW k \in Kind, NEW kn \in Knobs, NEW w \in WriteOf(k),
         Exclusive(kn), Fits(kn, k)
  PROVE  Exclusive(Put(kn, w)) /\ Fits(Put(kn, w), k)
BY DEF Exclusive, Fits, Put, Write, WriteOf, Knobs, CcMode, PpcieMode

=============================================================================
