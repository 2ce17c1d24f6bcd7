---- MODULE ModeStageProofs ----
(***************************************************************************)
(* The invariants of the mode stage, for every set of devices, every board *)
(* and any number of failures and lost writes.                             *)
(***************************************************************************)
EXTENDS ModeStage, FirmwareProofs

USE DeviceAssumption, BoardsAssumption, ReadingsAssumption, BoundsAssumption

\* While the devices stay what they are, so do the ones with a mode.
LEMMA HandlesStay ==
  ASSUME kind' = kind
  PROVE  Handles' = Handles
BY DEF Handles

\* The two pieces of a loop's turn that most actions share.
LEMMA TurnTaken ==
  ASSUME TypeOK, NEW d, First(d, left)
  PROVE  d \in left /\ d \in Handles /\ d \in Device
BY DEF First, TypeOK, Handles

-----------------------------------------------------------------------------

LEMMA BookkeepingInit == Init => Bookkeeping
<1> SUFFICES ASSUME Init PROVE Bookkeeping
  OBVIOUS
<1>1. TypeOK
  <2>1. plan \in [Device -> Plan]
    BY DEF Init, Plan, PlansOver
  <2>2. mode \in Mode
    BY DEF Init, Mode
  <2> QED
    BY <2>1, <2>2 DEF Init, TypeOK, Loops
<1>2. KnobsAreSound
  BY DEF Init, KnobsAreSound
<1>3. PlansFit
  BY DEF Init, PlansFit, PlansOver
<1>4. Planned
  BY DEF Init, Planned
<1> QED
  BY <1>1, <1>2, <1>3, <1>4 DEF Bookkeeping

LEMMA BookkeepingStep == Bookkeeping /\ [Next]_modeVars => Bookkeeping'
<1> SUFFICES ASSUME Bookkeeping, [Next]_modeVars
             PROVE  Bookkeeping'
  OBVIOUS
<1> USE DEF hardware
<1>0. TypeOK /\ KnobsAreSound /\ PlansFit /\ Planned
  BY DEF Bookkeeping
<1>a. [d \in Device |-> <<>>] \in [Device -> Plan]
  BY DEF Plan, PlansOver
<1>b. ASSUME NoLocals
      PROVE  plan' \in [Device -> Plan] /\ PlansFit' /\ pending' = {}
  BY <1>a, <1>b DEF NoLocals, PlansFit, PlansOver
<1>1. ASSUME NEW m \in Mode, Start(m)
      PROVE  Bookkeeping'
  <2>1. Handles' = Handles /\ UNCHANGED <<kind, reports, knob, active, faults, lost>>
    BY <1>1, HandlesStay DEF Start
  <2>2. plan' \in [Device -> Plan] /\ PlansFit' /\ pending' = {}
    BY <1>1, <1>b DEF Start
  <2>3. mode' = m /\ stage' = "open" /\ left' = Handles
    BY <1>1 DEF Start, Visits
  <2>4. TypeOK'
    BY <1>0, <2>1, <2>2, <2>3 DEF TypeOK, Loops
  <2>5. KnobsAreSound'
    BY <1>0, <2>1 DEF KnobsAreSound
  <2>6. Planned'
    BY <2>2, <2>3 DEF Planned
  <2> QED
    BY <2>2, <2>4, <2>5, <2>6 DEF Bookkeeping
<1>2. ASSUME NEW d \in Device, Open(d)
      PROVE  Bookkeeping'
  <2>1. Handles' = Handles
    BY <1>2, HandlesStay DEF Open
  <2>2. TypeOK'
    BY <1>0, <1>2, <2>1 DEF TypeOK, Open
  <2>3. KnobsAreSound' /\ PlansFit'
    BY <1>0, <1>2 DEF KnobsAreSound, PlansFit, Open
  <2>4. Planned'
    BY <1>0, <1>2, <2>1 DEF Planned, Open
  <2> QED
    BY <2>2, <2>3, <2>4 DEF Bookkeeping
<1>3. ASSUME NEW d \in Device, Read(d)
      PROVE  Bookkeeping'
  <2>1. Handles' = Handles /\ d \in left /\ d \in Handles /\ stage = "read"
    BY <1>0, <1>3, HandlesStay, TurnTaken DEF Read
  <2>2. /\ kind[d] \in Kind /\ Shown(d) \in Knobs /\ mode \in Mode
        /\ Fits(Shown(d), kind[d])
    BY <1>0 DEF TypeOK, KnobsAreSound, Shown
  <2>3. WritesFor(Shown(d), mode) \in PlansOver(WriteOf(kind[d]))
    BY <2>2, WritesForTyped
  <2>4. WritesFor(Shown(d), mode) \in Plan
    BY <2>2, <2>3, PlansOfKind
  <2>5. /\ plan' = [plan EXCEPT ![d] = WritesFor(Shown(d), mode)]
        /\ pending' = IF plan'[d] # <<>> THEN pending \cup {d} ELSE pending
        /\ left' = left \ {d}
        /\ UNCHANGED <<kind, reports, knob, active, mode, stage, faults, lost>>
    BY <1>3 DEF Read
  <2>6. TypeOK'
    BY <1>0, <2>1, <2>4, <2>5 DEF TypeOK
  <2>7. KnobsAreSound'
    BY <1>0, <2>5 DEF KnobsAreSound
  <2>8. PlansFit'
    BY <1>0, <2>3, <2>5 DEF PlansFit, TypeOK
  <2>9. Planned'
    BY <1>0, <2>1, <2>5 DEF Planned, TypeOK
  <2> QED
    BY <2>6, <2>7, <2>8, <2>9 DEF Bookkeeping
<1>4. ASSUME NEW d \in Device, Written(d), kind' = kind,
             UNCHANGED <<mode, stage, pending>>
      PROVE  /\ d \in Handles /\ Handles' = Handles
             /\ plan[d] # <<>> /\ Head(plan[d]) \in WriteOf(kind[d])
             /\ plan' \in [Device -> Plan] /\ PlansFit' /\ Planned'
             /\ left' \subseteq left
  <2>1. Handles' = Handles /\ d \in left /\ d \in Handles /\ stage = "write"
    BY <1>0, <1>4, HandlesStay, TurnTaken DEF Written
  <2>2. plan[d] # <<>>
    BY <1>0, <2>1 DEF Planned
  <2>3. plan[d] \in PlansOver(WriteOf(kind[d]))
    BY <1>0 DEF PlansFit
  <2>4. Head(plan[d]) \in WriteOf(kind[d]) /\ Tail(plan[d]) \in PlansOver(WriteOf(kind[d]))
    BY <2>2, <2>3, PlanStep
  <2>5. Tail(plan[d]) \in Plan
    BY <1>0, <2>4, PlansOfKind DEF TypeOK
  <2>6. /\ plan' = [plan EXCEPT ![d] = Tail(plan[d])]
        /\ left' = IF plan'[d] = <<>> THEN left \ {d} ELSE left
    BY <1>4 DEF Written
  <2>7. plan' \in [Device -> Plan]
    BY <1>0, <2>5, <2>6 DEF TypeOK
  <2>8. PlansFit'
    BY <1>0, <1>4, <2>4, <2>6 DEF PlansFit, TypeOK
  <2>9. Planned'
    BY <1>0, <1>4, <2>1, <2>6 DEF Planned, TypeOK, Handles
  <2> QED
    BY <2>1, <2>2, <2>4, <2>6, <2>7, <2>8, <2>9
<1>5. ASSUME NEW d \in Device, WriteKnob(d)
      PROVE  Bookkeeping'
  <2>1. /\ d \in Handles /\ Handles' = Handles
        /\ plan[d] # <<>> /\ Head(plan[d]) \in WriteOf(kind[d])
        /\ plan' \in [Device -> Plan] /\ PlansFit' /\ Planned'
        /\ left' \subseteq left
    BY <1>4, <1>5 DEF WriteKnob
  <2>2. /\ knob' = [knob EXCEPT ![d] = Put(knob[d], Head(plan[d]))]
        /\ UNCHANGED <<kind, reports, active, mode, stage, pending, faults, lost>>
    BY <1>5 DEF WriteKnob
  <2>3. Head(plan[d]) \in Write /\ knob[d] \in Knobs /\ kind[d] \in Kind
    BY <1>0, <2>1 DEF WriteOf, TypeOK
  <2>4. TypeOK'
    BY <1>0, <2>1, <2>2, <2>3, PutTyped DEF TypeOK
  <2>5. Exclusive(Put(knob[d], Head(plan[d]))) /\ Fits(Put(knob[d], Head(plan[d])), kind[d])
    BY <1>0, <2>1, <2>3, PutIsSound DEF KnobsAreSound
  <2>6. KnobsAreSound'
    BY <1>0, <2>2, <2>5 DEF KnobsAreSound, TypeOK
  <2> QED
    BY <2>1, <2>4, <2>6 DEF Bookkeeping
<1>6. ASSUME NEW d \in Device, WriteLost(d)
      PROVE  Bookkeeping'
  <2>1. /\ d \in Handles /\ Handles' = Handles
        /\ plan' \in [Device -> Plan] /\ PlansFit' /\ Planned'
        /\ left' \subseteq left
    BY <1>4, <1>6 DEF WriteLost
  <2>2. /\ lost < MaxLost /\ lost' = lost + 1
        /\ UNCHANGED <<kind, reports, knob, active, mode, stage, pending, faults>>
    BY <1>6 DEF WriteLost
  <2>3. TypeOK'
    BY <1>0, <2>1, <2>2 DEF TypeOK
  <2>4. KnobsAreSound'
    BY <1>0, <2>2 DEF KnobsAreSound
  <2> QED
    BY <2>1, <2>3, <2>4 DEF Bookkeeping
<1>7. ASSUME NEW d \in Device, Reset(d)
      PROVE  Bookkeeping'
  <2>1. Handles' = Handles
    BY <1>7, HandlesStay DEF Reset
  <2>2. TypeOK'
    BY <1>0, <1>7, <2>1 DEF TypeOK, Reset
  <2>3. KnobsAreSound' /\ PlansFit'
    BY <1>0, <1>7 DEF KnobsAreSound, PlansFit, Reset, TypeOK
  <2>4. Planned'
    BY <1>0, <1>7, <2>1 DEF Planned, Reset
  <2> QED
    BY <2>2, <2>3, <2>4 DEF Bookkeeping
<1>8. ASSUME NEW d \in Device, Verify(d)
      PROVE  Bookkeeping'
  <2>1. Handles' = Handles
    BY <1>8, HandlesStay DEF Verify
  <2>2. TypeOK'
    BY <1>0, <1>8, <2>1 DEF TypeOK, Verify
  <2>3. KnobsAreSound' /\ PlansFit'
    BY <1>0, <1>8 DEF KnobsAreSound, PlansFit, Verify
  <2>4. Planned'
    BY <1>0, <1>8, <2>1 DEF Planned, Verify
  <2> QED
    BY <2>2, <2>3, <2>4 DEF Bookkeeping
<1>9. ASSUME stage' \in {"failed", "idle"}, left' = {}, NoLocals, kind' = kind,
             UNCHANGED <<reports, knob, mode, lost>>, active' \in {active, knob},
             faults' \in 0..MaxFaults
      PROVE  Bookkeeping'
  <2>1. plan' \in [Device -> Plan] /\ PlansFit' /\ pending' = {}
    BY <1>9, <1>b
  <2>2. TypeOK'
    BY <1>0, <1>9, <2>1 DEF TypeOK
  <2>3. KnobsAreSound'
    BY <1>0, <1>9 DEF KnobsAreSound
  <2>4. Planned'
    BY <1>9 DEF Planned
  <2> QED
    BY <2>1, <2>2, <2>3, <2>4 DEF Bookkeeping
<1>10. ASSUME NEW d \in Device, Mismatch(d)
       PROVE  Bookkeeping'
  BY <1>0, <1>9, <1>10 DEF Mismatch, TypeOK
<1>11. CASE NextLoop
  <2>1. /\ Running /\ left = {}
        /\ stage' = After(stage) /\ left' = Visits(After(stage))
        /\ UNCHANGED <<kind, reports, knob, active, mode, plan, pending, faults, lost>>
    BY <1>11 DEF NextLoop
  <2>2. Handles' = Handles
    BY <2>1, HandlesStay
  <2>3. \/ stage = "open" /\ stage' = "read" /\ left' = Handles
        \/ stage = "read" /\ stage' = "write" /\ left' = pending
        \/ stage = "write" /\ stage' = "reset" /\ left' = pending
        \/ stage = "reset" /\ stage' = "verify" /\ left' = Handles
        \/ stage = "verify" /\ stage' = "ok" /\ left' = {}
    BY <2>1 DEF Running, Loops, After, Visits
  <2>4. TypeOK'
    BY <1>0, <2>1, <2>2, <2>3 DEF TypeOK, Loops
  <2>5. KnobsAreSound' /\ PlansFit'
    BY <1>0, <2>1 DEF KnobsAreSound, PlansFit
  <2>6. Planned'
    BY <1>0, <2>1, <2>2, <2>3 DEF Planned
  <2> QED
    BY <2>4, <2>5, <2>6 DEF Bookkeeping
<1>12. CASE Fail
  <2>1. faults' \in 0..MaxFaults
    BY <1>0, <1>12 DEF Fail, TypeOK
  <2> QED
    BY <1>9, <1>12, <2>1 DEF Fail
<1>13. CASE Reboot
  BY <1>0, <1>9, <1>13 DEF Reboot, TypeOK
<1>14. CASE UNCHANGED modeVars
  BY <1>0, <1>14 DEF modeVars, Bookkeeping, TypeOK, KnobsAreSound, PlansFit,
                     Planned, Handles
<1> QED
  BY <1>1, <1>2, <1>3, <1>5, <1>6, <1>7, <1>8, <1>10, <1>11, <1>12, <1>13, <1>14
  DEF Next, Step

\* Type correctness, and with it that no device ever holds both modes or a
\* knob it does not have, and that every plan is of writes it has a knob for.
THEOREM BookkeepingHolds == Spec => []Bookkeeping
BY BookkeepingInit, BookkeepingStep, PTL DEF Spec

\* Type correctness: the stage only visits devices that have a mode.
THEOREM TypeOKHolds == Spec => []TypeOK
<1>1. Bookkeeping => TypeOK
  BY DEF Bookkeeping
<1> QED
  BY <1>1, BookkeepingHolds, PTL

-----------------------------------------------------------------------------
(* What each action does to the hardware and to the loops, for the layers  *)
(* of the invariant that are about nothing else.                           *)

\* The loop that follows, written out.
LEMMA NextLoopCases ==
  ASSUME TypeOK, NextLoop
  PROVE  /\ left = {} /\ Handles' = Handles
         /\ UNCHANGED <<kind, reports, knob, active, mode, plan, pending, faults, lost>>
         /\ \/ stage = "open" /\ stage' = "read" /\ left' = Handles
            \/ stage = "read" /\ stage' = "write" /\ left' = pending
            \/ stage = "write" /\ stage' = "reset" /\ left' = pending
            \/ stage = "reset" /\ stage' = "verify" /\ left' = Handles
            \/ stage = "verify" /\ stage' = "ok" /\ left' = {}
<1>1. /\ Running /\ left = {}
      /\ stage' = After(stage) /\ left' = Visits(After(stage))
      /\ UNCHANGED <<kind, reports, knob, active, mode, plan, pending, faults, lost>>
  BY DEF NextLoop, hardware
<1>2. Handles' = Handles
  BY <1>1, HandlesStay
<1> QED
  BY <1>1, <1>2 DEF Running, Loops, After, Visits

\* A write that is behind a device leaves no more of the plan than its tail.
LEMMA WrittenEffect ==
  ASSUME Bookkeeping, NEW d \in Device, Written(d)
  PROVE  /\ stage = "write" /\ d \in left /\ d \in Handles /\ d \in pending
         /\ plan[d] # <<>> /\ plan[d] \in Plan /\ Head(plan[d]) \in Write
         /\ plan' = [plan EXCEPT ![d] = Tail(plan[d])]
<1>1. TypeOK /\ Planned
  BY DEF Bookkeeping
<1>2. stage = "write" /\ First(d, left) /\ plan' = [plan EXCEPT ![d] = Tail(plan[d])]
  BY DEF Written
<1>3. d \in left /\ d \in Handles
  BY <1>1, <1>2, TurnTaken
<1>4. plan[d] # <<>> /\ d \in pending
  BY <1>1, <1>2, <1>3 DEF Planned
<1>5. plan[d] \in PlansOver(Write)
  BY <1>1 DEF TypeOK, Plan
<1> QED
  BY <1>2, <1>3, <1>4, <1>5, PlanStep DEF Plan

-----------------------------------------------------------------------------
(* Only a run that was cut short leaves a device torn.                     *)

LEMMA SyncedStep == Bookkeeping /\ Synced /\ [Next]_modeVars => Synced'
<1> SUFFICES ASSUME Bookkeeping, Synced, [Next]_modeVars
             PROVE  Synced'
  OBVIOUS
<1> USE DEF hardware
<1>0. TypeOK /\ Planned
  BY DEF Bookkeeping
<1>1. ASSUME NEW m \in Mode, Start(m)
      PROVE  Synced'
  BY <1>1 DEF Start, Synced, Running, Loops
<1>2. ASSUME NEW d \in Device, Open(d)
      PROVE  Synced'
  BY <1>2 DEF Open, Synced
<1>3. ASSUME NEW d \in Device, Read(d)
      PROVE  Synced'
  BY <1>3 DEF Read, Synced
<1>4. ASSUME NEW d \in Device, WriteKnob(d)
      PROVE  Synced'
  <2>1. d \in pending /\ stage = "write"
    BY <1>4, WrittenEffect DEF WriteKnob
  <2>2. /\ \A e \in Device : e # d => knob'[e] = knob[e]
        /\ UNCHANGED <<active, stage, pending, faults>>
    BY <1>0, <1>4 DEF WriteKnob, TypeOK
  <2> QED
    BY <2>1, <2>2 DEF Synced
<1>5. ASSUME NEW d \in Device, WriteLost(d)
      PROVE  Synced'
  <2>1. stage = "write" /\ UNCHANGED <<knob, active, stage, pending, faults>>
    BY <1>5, WrittenEffect DEF WriteLost
  <2> QED
    BY <2>1 DEF Synced
<1>6. ASSUME NEW d \in Device, Reset(d)
      PROVE  Synced'
  <2>1. /\ stage = "reset" /\ left' = left \ {d}
        /\ active' = [active EXCEPT ![d] = knob[d]]
        /\ UNCHANGED <<knob, stage, faults>>
    BY <1>6 DEF Reset
  <2>2. /\ active'[d] = knob[d]
        /\ \A e \in Device : e # d => active'[e] = active[e]
    BY <1>0, <2>1 DEF TypeOK
  <2> QED
    BY <2>1, <2>2 DEF Synced
<1>7. ASSUME NEW d \in Device, Verify(d) \/ Mismatch(d)
      PROVE  Synced'
  BY <1>7 DEF Verify, Mismatch, Synced
<1>8. CASE NextLoop
  BY <1>0, <1>8, NextLoopCases DEF Synced
<1>9. CASE Fail
  <2>1. faults' = faults + 1 /\ faults \in Nat
    BY <1>0, <1>9 DEF Fail, TypeOK
  <2> QED
    BY <2>1 DEF Synced
<1>10. CASE Reboot
  BY <1>10 DEF Reboot, Synced
<1>11. CASE UNCHANGED modeVars
  BY <1>11 DEF modeVars, Synced
<1> QED
  BY <1>1, <1>2, <1>3, <1>4, <1>5, <1>6, <1>7, <1>8, <1>9, <1>10, <1>11
  DEF Next, Step

\* Unless a run was cut short, active and EEPROM agree outside the write and
\* reset loops: also a run that fails verification has reset what it wrote.
THEOREM TornOnlyByFaultHolds == Spec => []TornOnlyByFault
<1>1. Init => Synced
  BY DEF Init, Synced
<1>2. Bookkeeping /\ Synced => TornOnlyByFault
  <2> SUFFICES ASSUME Bookkeeping, Synced, faults = 0, stage \notin {"write", "reset"}
               PROVE  active = knob
    BY DEF TornOnlyByFault
  <2>1. active \in [Device -> Knobs] /\ knob \in [Device -> Knobs]
    BY DEF Bookkeeping, TypeOK
  <2>2. \A d \in Device : active[d] = knob[d]
    BY DEF Synced
  <2>3. /\ active = [d \in Device |-> active[d]]
        /\ knob = [d \in Device |-> knob[d]]
    BY <2>1
  <2> QED
    BY <2>2, <2>3
<1> QED
  BY <1>1, <1>2, SyncedStep, BookkeepingHolds, PTL DEF Spec

-----------------------------------------------------------------------------
(* Success is what the devices report.                                     *)

LEMMA VerifiedStep == Bookkeeping /\ Verified /\ [Next]_modeVars => Verified'
<1> SUFFICES ASSUME Bookkeeping, Verified, [Next]_modeVars
             PROVE  Verified'
  OBVIOUS
<1> USE DEF hardware
<1>0. TypeOK
  BY DEF Bookkeeping
<1>1. ASSUME stage' \notin {"verify", "ok"}
      PROVE  Verified'
  BY <1>1 DEF Verified, SuccessIsReported
<1>2. ASSUME NEW m \in Mode, Start(m)
      PROVE  Verified'
  BY <1>1, <1>2 DEF Start
<1>3. ASSUME NEW d \in Device,
             Open(d) \/ Read(d) \/ WriteKnob(d) \/ WriteLost(d) \/ Reset(d) \/ Mismatch(d)
      PROVE  Verified'
  BY <1>1, <1>3 DEF Open, Read, WriteKnob, WriteLost, Written, Reset, Mismatch
<1>4. ASSUME NEW d \in Device, Verify(d)
      PROVE  Verified'
  <2>1. Handles' = Handles
    BY <1>4, HandlesStay DEF Verify
  <2>2. /\ stage = "verify" /\ Meets(Shown(d), mode) /\ left' = left \ {d}
        /\ UNCHANGED <<reports, knob, active, mode, stage>>
    BY <1>4 DEF Verify
  <2> QED
    BY <2>1, <2>2 DEF Verified, SuccessIsReported, Shown
<1>5. CASE NextLoop
  BY <1>0, <1>5, NextLoopCases DEF Verified, SuccessIsReported, Shown
<1>6. CASE Fail \/ Reboot
  BY <1>1, <1>6 DEF Fail, Reboot
<1>7. CASE UNCHANGED modeVars
  BY <1>7 DEF modeVars, Verified, SuccessIsReported, Shown, Handles
<1> QED
  BY <1>2, <1>3, <1>4, <1>5, <1>6, <1>7 DEF Next, Step

\* A stage that returned Ok left every device reporting the mode asked for,
\* on every board and whichever writes were lost.
THEOREM SuccessIsReportedHolds == Spec => []SuccessIsReported
<1>1. Init => Verified
  BY DEF Init, Verified, SuccessIsReported
<1>2. Verified => SuccessIsReported
  BY DEF Verified
<1> QED
  BY <1>1, <1>2, VerifiedStep, BookkeepingHolds, PTL DEF Spec

\* Unless a run was cut short, every device then behaves in that mode too, and
\* comes back in it: what it reports is one of two states that agree.
THEOREM SuccessIsActiveHolds == Spec => []SuccessIsActive
<1>1. Bookkeeping /\ SuccessIsReported /\ TornOnlyByFault => SuccessIsActive
  BY DEF SuccessIsReported, TornOnlyByFault, SuccessIsActive, Shown
<1> QED
  BY <1>1, BookkeepingHolds, SuccessIsReportedHolds, TornOnlyByFaultHolds, PTL

-----------------------------------------------------------------------------
(* The board is in the mode before any of it is reset.                     *)

LEMMA OnCourseStep ==
  Bookkeeping /\ Synced /\ OnCourse /\ [Next]_modeVars => OnCourse'
<1> SUFFICES ASSUME Bookkeeping, Synced, OnCourse, [Next]_modeVars,
                    lost' = 0, reports' = "knob" \/ faults' = 0
             PROVE  /\ stage' = "read" => \A d \in Handles' \ left' :
                         Meets(AfterWrites(knob'[d], plan'[d]), mode')
                    /\ stage' = "write" => \A d \in Handles' :
                         Meets(AfterWrites(knob'[d], plan'[d]), mode')
                    /\ stage' \in {"reset", "verify"} => \A d \in Handles' :
                         Meets(knob'[d], mode')
  BY DEF OnCourse
<1> DEFINE Goal == /\ stage' = "read" => \A d \in Handles' \ left' :
                         Meets(AfterWrites(knob'[d], plan'[d]), mode')
                   /\ stage' = "write" => \A d \in Handles' :
                         Meets(AfterWrites(knob'[d], plan'[d]), mode')
                   /\ stage' \in {"reset", "verify"} => \A d \in Handles' :
                         Meets(knob'[d], mode')
<1> USE DEF hardware
<1>0. TypeOK /\ Planned
  BY DEF Bookkeeping
<1>a. ASSUME lost = 0, reports = "knob" \/ faults = 0
      PROVE  /\ stage = "read" => \A d \in Handles \ left :
                  Meets(AfterWrites(knob[d], plan[d]), mode)
             /\ stage = "write" => \A d \in Handles :
                  Meets(AfterWrites(knob[d], plan[d]), mode)
             /\ stage \in {"reset", "verify"} => \A d \in Handles : Meets(knob[d], mode)
  BY <1>a DEF OnCourse
<1>b. ASSUME stage' \notin {"read", "write", "reset", "verify"}
      PROVE  Goal
  BY <1>b
<1>1. ASSUME NEW m \in Mode, Start(m)
      PROVE  Goal
  BY <1>b, <1>1 DEF Start
<1>2. ASSUME NEW d \in Device, Open(d) \/ Mismatch(d)
      PROVE  Goal
  BY <1>b, <1>2 DEF Open, Mismatch
<1>3. ASSUME NEW d \in Device, Read(d)
      PROVE  Goal
  <2>1. Handles' = Handles /\ d \in left /\ d \in Handles /\ stage = "read"
    BY <1>0, <1>3, HandlesStay, TurnTaken DEF Read
  <2>2. /\ plan' = [plan EXCEPT ![d] = WritesFor(Shown(d), mode)]
        /\ left' = left \ {d}
        /\ UNCHANGED <<reports, knob, active, mode, stage, faults, lost>>
    BY <1>3 DEF Read
  <2>3. Shown(d) = knob[d] /\ knob[d] \in Knobs /\ mode \in Mode
    BY <1>0, <2>1, <2>2 DEF TypeOK, Shown, Synced
  <2>4. Meets(AfterWrites(knob'[d], plan'[d]), mode')
    BY <1>0, <2>2, <2>3, PlanReachesMode DEF TypeOK
  <2>5. \A e \in Handles \ left : Meets(AfterWrites(knob[e], plan[e]), mode)
    BY <1>a, <2>1, <2>2
  <2>6. \A e \in Device : e # d => plan'[e] = plan[e]
    BY <1>0, <2>2 DEF TypeOK
  <2>7. \A e \in Handles' \ left' : Meets(AfterWrites(knob'[e], plan'[e]), mode')
    BY <2>1, <2>2, <2>4, <2>5, <2>6 DEF Handles
  <2> QED
    BY <2>1, <2>2, <2>7
<1>4. ASSUME NEW d \in Device, WriteKnob(d)
      PROVE  Goal
  <2>1. /\ stage = "write" /\ d \in Handles
        /\ plan[d] # <<>> /\ plan[d] \in Plan /\ Head(plan[d]) \in Write
        /\ plan' = [plan EXCEPT ![d] = Tail(plan[d])]
    BY <1>4, WrittenEffect DEF WriteKnob
  <2>2. /\ knob' = [knob EXCEPT ![d] = Put(knob[d], Head(plan[d]))]
        /\ UNCHANGED <<kind, reports, active, mode, stage, faults, lost>>
    BY <1>4 DEF WriteKnob
  <2>3. Handles' = Handles
    BY <2>2, HandlesStay
  <2>4. AfterWrites(knob'[d], plan'[d]) = AfterWrites(knob[d], plan[d])
    <3>1. knob'[d] = Put(knob[d], Head(plan[d])) /\ plan'[d] = Tail(plan[d])
      BY <1>0, <2>1, <2>2 DEF TypeOK
    <3>2. AfterWrites(Put(knob[d], Head(plan[d])), Tail(plan[d]))
            = AfterWrites(knob[d], plan[d])
      BY <2>1, PlanStep DEF Plan
    <3> QED
      BY <3>1, <3>2
  <2>5. \A e \in Device : e # d => knob'[e] = knob[e] /\ plan'[e] = plan[e]
    BY <1>0, <2>1, <2>2 DEF TypeOK
  <2>6. \A e \in Handles : Meets(AfterWrites(knob[e], plan[e]), mode)
    BY <1>a, <2>1, <2>2
  <2>7. \A e \in Handles' : Meets(AfterWrites(knob'[e], plan'[e]), mode')
    BY <2>2, <2>3, <2>4, <2>5, <2>6 DEF Handles
  <2> QED
    BY <2>1, <2>2, <2>7
<1>5. ASSUME NEW d \in Device, WriteLost(d)
      PROVE  Goal
  <2>1. lost' = lost + 1 /\ lost \in Nat
    BY <1>0, <1>5 DEF WriteLost, TypeOK
  <2> QED
    BY <2>1
<1>6. ASSUME NEW d \in Device, Reset(d) \/ Verify(d)
      PROVE  Goal
  <2>1. /\ stage \in {"reset", "verify"} /\ stage' = stage
        /\ UNCHANGED <<kind, reports, knob, mode, faults, lost>>
    BY <1>6 DEF Reset, Verify
  <2>2. Handles' = Handles
    BY <2>1, HandlesStay
  <2> QED
    BY <1>a, <2>1, <2>2
<1>7. CASE NextLoop
  <2>1. /\ left = {} /\ Handles' = Handles
        /\ UNCHANGED <<kind, reports, knob, active, mode, plan, pending, faults, lost>>
        /\ \/ stage = "open" /\ stage' = "read" /\ left' = Handles
           \/ stage = "read" /\ stage' = "write" /\ left' = pending
           \/ stage = "write" /\ stage' = "reset" /\ left' = pending
           \/ stage = "reset" /\ stage' = "verify" /\ left' = Handles
           \/ stage = "verify" /\ stage' = "ok" /\ left' = {}
    BY <1>0, <1>7, NextLoopCases
  <2>2. CASE stage = "write"
    <3>1. \A d \in Handles : plan[d] = <<>>
      BY <1>0, <2>1, <2>2 DEF Planned
    <3>2. \A d \in Handles : Meets(knob[d], mode)
      BY <1>a, <2>1, <2>2, <3>1 DEF AfterWrites
    <3> QED
      BY <2>1, <2>2, <3>2
  <2>3. CASE stage # "write"
    BY <1>a, <2>1, <2>3
  <2> QED
    BY <2>2, <2>3
<1>8. CASE Fail \/ Reboot
  BY <1>b, <1>8 DEF Fail, Reboot
<1>9. CASE UNCHANGED modeVars
  BY <1>a, <1>9 DEF modeVars, Handles
<1> QED
  BY <1>1, <1>2, <1>3, <1>4, <1>5, <1>6, <1>7, <1>8, <1>9 DEF Next, Step

\* The stage's strengthening of the two properties that follow holds.
LEMMA OnCourseHolds == Spec => [](Bookkeeping /\ Synced /\ OnCourse)
<1>1. Init => Synced /\ OnCourse
  BY DEF Init, Synced, OnCourse
<1> QED
  BY <1>1, BookkeepingHolds, SyncedStep, OnCourseStep, PTL DEF Spec

\* Nothing is reset for a mode the rest of the board is not getting: when the
\* reset loop runs, every knob of the board is in place.
THEOREM KnobsBeforeResetsHolds == Spec => []KnobsBeforeResets
<1>1. OnCourse => KnobsBeforeResets
  BY DEF OnCourse, KnobsBeforeResets
<1> QED
  BY <1>1, OnCourseHolds, PTL

\* Verification rejects no board whose writes took: a retry converges.
THEOREM NoFalseAlarmHolds == Spec => []NoFalseAlarm
<1>1. Bookkeeping /\ Synced /\ OnCourse => NoFalseAlarm
  <2> SUFFICES ASSUME Bookkeeping, Synced, OnCourse, stage = "verify", lost = 0,
                      reports = "knob" \/ faults = 0, NEW d \in Handles
               PROVE  Meets(Shown(d), mode)
    BY DEF NoFalseAlarm
  <2>1. Meets(knob[d], mode) /\ d \in Device
    BY DEF OnCourse, Handles
  <2>2. Shown(d) = knob[d]
    BY <2>1 DEF Bookkeeping, TypeOK, Shown, Synced
  <2> QED
    BY <2>1, <2>2
<1> QED
  BY <1>1, OnCourseHolds, PTL

-----------------------------------------------------------------------------
(* No device is reset that needs nothing.                                  *)

LEMMA NeededStep ==
  Bookkeeping /\ Synced /\ Needed /\ [Next]_modeVars => Needed'
<1> SUFFICES ASSUME Bookkeeping, Synced, Needed, [Next]_modeVars, faults' = 0
             PROVE  /\ stage' \in {"read", "write"} =>
                         \A d \in pending' : ~Meets(active'[d], mode')
                    /\ stage' = "reset" => \A d \in left' : ~Meets(active'[d], mode')
  BY DEF Needed, ResetIsNeeded
<1> DEFINE Goal == /\ stage' \in {"read", "write"} =>
                         \A d \in pending' : ~Meets(active'[d], mode')
                   /\ stage' = "reset" => \A d \in left' : ~Meets(active'[d], mode')
<1> USE DEF hardware
<1>0. TypeOK /\ Planned
  BY DEF Bookkeeping
<1>a. ASSUME faults = 0
      PROVE  /\ stage \in {"read", "write"} => \A d \in pending : ~Meets(active[d], mode)
             /\ stage = "reset" => \A d \in left : ~Meets(active[d], mode)
  BY <1>a DEF Needed, ResetIsNeeded
<1>b. ASSUME stage' \notin {"read", "write", "reset"}
      PROVE  Goal
  BY <1>b
<1>1. ASSUME NEW m \in Mode, Start(m)
      PROVE  Goal
  BY <1>b, <1>1 DEF Start
<1>2. ASSUME NEW d \in Device, Open(d) \/ Verify(d) \/ Mismatch(d)
      PROVE  Goal
  BY <1>b, <1>2 DEF Open, Verify, Mismatch
<1>3. ASSUME NEW d \in Device, Read(d)
      PROVE  Goal
  <2>1. /\ stage = "read" /\ plan' = [plan EXCEPT ![d] = WritesFor(Shown(d), mode)]
        /\ pending' = IF plan'[d] # <<>> THEN pending \cup {d} ELSE pending
        /\ UNCHANGED <<active, mode, stage, faults>>
    BY <1>3 DEF Read
  <2>2. Shown(d) = active[d] /\ active[d] \in Knobs /\ mode \in Mode
    BY <1>0, <2>1 DEF TypeOK, Shown, Synced
  <2>3. plan'[d] # <<>> => ~Meets(active[d], mode)
    BY <1>0, <2>1, <2>2, PlanReachesMode DEF TypeOK
  <2> QED
    BY <1>a, <2>1, <2>3
<1>4. ASSUME NEW d \in Device, WriteKnob(d) \/ WriteLost(d)
      PROVE  Goal
  <2>1. stage = "write" /\ UNCHANGED <<active, mode, stage, pending, faults>>
    BY <1>4 DEF WriteKnob, WriteLost, Written
  <2> QED
    BY <1>a, <2>1
<1>5. ASSUME NEW d \in Device, Reset(d)
      PROVE  Goal
  <2>1. /\ stage = "reset" /\ left' = left \ {d}
        /\ active' = [active EXCEPT ![d] = knob[d]]
        /\ UNCHANGED <<mode, stage, faults>>
    BY <1>5 DEF Reset
  <2>2. \A e \in left' : active'[e] = active[e]
    BY <1>0, <2>1 DEF TypeOK, Handles
  <2> QED
    BY <1>a, <2>1, <2>2
<1>6. CASE NextLoop
  <2>1. /\ left = {}
        /\ UNCHANGED <<active, mode, pending, faults>>
        /\ \/ stage = "open" /\ stage' = "read" /\ left' = Handles
           \/ stage = "read" /\ stage' = "write" /\ left' = pending
           \/ stage = "write" /\ stage' = "reset" /\ left' = pending
           \/ stage = "reset" /\ stage' = "verify" /\ left' = Handles
           \/ stage = "verify" /\ stage' = "ok" /\ left' = {}
    BY <1>0, <1>6, NextLoopCases
  <2>2. stage = "open" => pending = {}
    BY <1>0 DEF Planned
  <2> QED
    BY <1>a, <2>1, <2>2
<1>7. CASE Fail \/ Reboot
  BY <1>b, <1>7 DEF Fail, Reboot
<1>8. CASE UNCHANGED modeVars
  BY <1>a, <1>8 DEF modeVars
<1> QED
  BY <1>1, <1>2, <1>3, <1>4, <1>5, <1>6, <1>7, <1>8 DEF Next, Step

\* A device that already behaves in the mode asked for is not reset.
THEOREM ResetIsNeededHolds == Spec => []ResetIsNeeded
<1>1. Init => Needed
  BY DEF Init, Needed, ResetIsNeeded
<1>2. Needed => ResetIsNeeded
  BY DEF Needed, ResetIsNeeded
<1> QED
  BY <1>1, <1>2, OnCourseHolds, NeededStep, PTL DEF Spec

\* No device ever holds or behaves in both modes at once.
THEOREM KnobsAreSoundHolds == Spec => []KnobsAreSound
<1>1. Bookkeeping => KnobsAreSound
  BY DEF Bookkeeping
<1> QED
  BY <1>1, BookkeepingHolds, PTL

\* The invariant the runs check is inductive as a whole.
THEOREM InvariantHolds == Spec => []InductiveInvariant
<1>1. Init => Verified /\ Needed
  BY DEF Init, Verified, SuccessIsReported, Needed, ResetIsNeeded
<1>2. Bookkeeping /\ Synced /\ OnCourse /\ Verified /\ Needed => InductiveInvariant
  BY DEF InductiveInvariant
<1> QED
  BY <1>1, <1>2, OnCourseHolds, VerifiedStep, NeededStep, PTL DEF Spec

=============================================================================
