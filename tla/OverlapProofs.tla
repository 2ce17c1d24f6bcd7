---- MODULE OverlapProofs ----
(***************************************************************************)
(* However many runs there are on a node and however they interleave and   *)
(* fail, only a failed run leaves a device behaving unlike its EEPROM, and *)
(* runs that ask for one mode do not undo one another.                     *)
(***************************************************************************)
EXTENDS Overlap, FirmwareProofs

USE OverlapAssumption

\* What a query returns is knobs, and the plan from them is a plan.
LEMMA PlanFromKnobs ==
  ASSUME NEW kn \in Knobs, NEW m \in Mode
  PROVE  WritesFor(kn, m) \in Plan
<1>1. \E k \in Kind : Fits(kn, k)
  <2> USE DEF Fits, Kind, CcCapable, CarriesPpcie, Provisioning, HasChip, SupportsPpcie
  <2>1. CASE kn.cc # "none" /\ kn.ppcie # "none"
    <3>1. Fits(kn, "hopper")
      BY <2>1
    <3> QED
      BY <3>1
  <2>2. CASE kn.cc # "none" /\ kn.ppcie = "none"
    <3>1. Fits(kn, "blackwell")
      BY <2>2
    <3> QED
      BY <3>1
  <2>3. CASE kn.cc = "none" /\ kn.ppcie # "none"
    <3>1. Fits(kn, "nvswitch")
      BY <2>3
    <3> QED
      BY <3>1
  <2>4. CASE kn.cc = "none" /\ kn.ppcie = "none"
    <3>1. Fits(kn, "nic")
      BY <2>4
    <3> QED
      BY <3>1
  <2> QED
    BY <2>1, <2>2, <2>3, <2>4
<1> QED
  BY <1>1, WritesForTyped, PlansOfKind

\* A run visits devices in scope, and those with a mode where it reads.
LEMMA VisitsInScope ==
  ASSUME OverlapTypeOK, NEW r \in Run, NEW stage
  PROVE  Visits(r, stage) \subseteq {d \in Device : InScope(kind[d])}
BY DEF Visits, Handles, HasHandle, CcCapable, InScope, Passthrough, Released,
       InPassthrough, OverlapTypeOK

\* The knobs a run sees on a device.
LEMMA ShownTyped ==
  ASSUME OverlapTypeOK, NEW d \in Device
  PROVE  Shown(d) \in Knobs
BY DEF OverlapTypeOK, Shown

\* What a stage does to the boot configuration, for whichever run.
LEMMA FilesTyped ==
  ASSUME OverlapTypeOK, NEW r \in Run, NextStage(r)
  PROVE  boot' \in [File -> SUBSET Device]
<1>1. Passthrough(request[r]) \subseteq Device
  BY DEF Passthrough
<1>2. FileContent(r, at[r]) \subseteq Device
  BY <1>1 DEF FileContent
<1>3. \A f \in File : boot[f] \subseteq Device
  BY DEF OverlapTypeOK
<1> QED
  BY <1>2, <1>3 DEF NextStage

-----------------------------------------------------------------------------

LEMMA ResetInit == OverlapInit => ResetInvariant
<1> SUFFICES ASSUME OverlapInit PROVE ResetInvariant
  OBVIOUS
<1>1. OverlapTypeOK
  <2>1. plan \in [Run -> [Device -> Plan]]
    BY DEF OverlapInit, Plan, PlansOver
  <2>2. boot \in [File -> SUBSET Device] /\ bound \subseteq Device
    BY DEF OverlapInit
  <2> QED
    BY <2>1, <2>2 DEF OverlapInit, OverlapTypeOK
<1>2. AppliesOnly
  BY DEF OverlapInit, AppliesOnly, Loops, File
<1>3. PlansAhead
  BY DEF OverlapInit, PlansAhead
<1>4. ResetsAhead
  BY DEF OverlapInit, ResetsAhead
<1> QED
  BY <1>1, <1>2, <1>3, <1>4 DEF ResetInvariant

LEMMA ResetStep == ResetInvariant /\ [OverlapNext]_overlapVars => ResetInvariant'
<1> SUFFICES ASSUME ResetInvariant, [OverlapNext]_overlapVars
             PROVE  ResetInvariant'
  OBVIOUS
<1> USE DEF node, locals
<1>0. OverlapTypeOK /\ AppliesOnly /\ PlansAhead /\ ResetsAhead
  BY DEF ResetInvariant
<1>a. ASSUME kind' = kind
      PROVE  Handles' = Handles
  BY <1>a DEF Handles
<1>1. ASSUME NEW r \in Run, Begin(r)
      PROVE  ResetInvariant'
  <2> DEFINE stage == IF request[r] = Uninstall THEN "rmModules" ELSE "read"
  <2>1. /\ at' = [at EXCEPT ![r] = stage]
        /\ left' = [left EXCEPT ![r] = Visits(r, stage)]
        /\ UNCHANGED <<node, request, plan, pending, resetting>>
        /\ at[r] = "idle"
    BY <1>1 DEF Begin
  <2>2. OverlapTypeOK'
    BY <1>0, <1>a, <2>1, VisitsInScope DEF OverlapTypeOK, Loops
  <2>3. AppliesOnly'
    BY <1>0, <2>1 DEF AppliesOnly, OverlapTypeOK, Loops, File
  <2>4. PlansAhead'
    <3>1. stage = "read" => Visits(r, stage) = Handles
      BY DEF Visits
    <3>2. stage \in {"read", "rmModules"}
      OBVIOUS
    <3> HIDE DEF stage
    <3> QED
      BY <1>0, <1>a, <2>1, <3>1, <3>2 DEF PlansAhead, OverlapTypeOK
  <2>5. ResetsAhead'
    BY <1>0, <2>1 DEF ResetsAhead, OverlapTypeOK, WillReset, Owing
  <2> QED
    BY <2>2, <2>3, <2>4, <2>5 DEF ResetInvariant
<1>2. ASSUME NEW r \in Run, NextStage(r)
      PROVE  ResetInvariant'
  <2> DEFINE next == After(at[r])
  <2>1. /\ at' = [at EXCEPT ![r] = next]
        /\ left' = [left EXCEPT ![r] = Visits(r, next)]
        /\ torn' \subseteq torn
        /\ UNCHANGED <<kind, reports, knob, active, bound, request, plan, pending, resetting>>
        /\ Running(r) /\ left[r] = {}
    BY <1>2 DEF NextStage
  <2>2. next \in Loops \cup File \cup {"rmModules", "rmIds", "rmRules", "ok"}
    BY DEF After, Loops, File
  <2>a. r \notin resetting
    BY <1>0, <2>1 DEF OverlapTypeOK
  <2>3. Visits(r, next) \subseteq {d \in Device : InScope(kind[d])}
    BY <1>0, VisitsInScope
  <2>4. boot' \in [File -> SUBSET Device]
    BY <1>0, <1>2, FilesTyped
  <2>5. OverlapTypeOK'
    BY <1>0, <1>a, <2>1, <2>2, <2>a, <2>3, <2>4 DEF OverlapTypeOK, Ends
  <2>6. AppliesOnly'
    <3>1. next \in Loops \cup File => at[r] \in Loops \cup File
      BY <1>0, <2>1 DEF After, Loops, File, Running, OverlapTypeOK
    <3> QED
      BY <1>0, <2>1, <3>1 DEF AppliesOnly, OverlapTypeOK
  <2>7. next # "read" /\ next # "idle"
    BY DEF After
  <2>8. /\ next = "write" => at[r] = "read" /\ Visits(r, next) = pending[r]
        /\ next = "reset" => at[r] = "write" /\ Visits(r, next) = pending[r]
    BY DEF After, Visits
  <2>9. PlansAhead'
    BY <1>0, <1>a, <2>1, <2>7, <2>8 DEF PlansAhead, OverlapTypeOK
  <2>10. ResetsAhead'
    <3>1. \A d \in Device : WillReset(r, d) => at[r] = "write" /\ d \in pending[r]
      BY <1>0, <2>1 DEF WillReset, Owing, Running, Ends
    <3>2. at[r] = "write" => next = "reset"
      BY DEF After
    <3>3. \A d \in Device : WillReset(r, d) => WillReset(r, d)'
      BY <1>0, <2>1, <2>8, <3>1, <3>2 DEF WillReset, Owing, OverlapTypeOK
    <3>4. \A s \in Run \ {r} : \A d \in Device : WillReset(s, d) => WillReset(s, d)'
      BY <1>0, <2>1 DEF WillReset, Owing, OverlapTypeOK
    <3>5. \A s \in Run : at'[s] \in {"write", "reset"} => left'[s] \subseteq pending'[s]
      BY <1>0, <2>1, <2>8 DEF ResetsAhead, OverlapTypeOK
    <3> QED
      BY <1>0, <2>1, <3>3, <3>4, <3>5 DEF ResetsAhead
  <2> QED
    BY <2>5, <2>6, <2>9, <2>10 DEF ResetInvariant
<1>3. ASSUME NEW r \in Run, NEW d \in Device, Read(r, d)
      PROVE  ResetInvariant'
  <2> DEFINE writes == WritesFor(Shown(d), request[r])
  <2>1. /\ at[r] = "read" /\ d \in left[r]
        /\ plan' = [plan EXCEPT ![r][d] = writes]
        /\ pending' = [pending EXCEPT ![r] = IF writes = <<>> THEN @ ELSE @ \cup {d}]
        /\ left' = [left EXCEPT ![r] = @ \ {d}]
        /\ UNCHANGED <<node, request, at, resetting>>
    BY <1>3 DEF Read, Reaches, First, Leaves
  <2>2. writes \in Plan
    <3>1. request[r] \in Mode
      BY <1>0, <2>1 DEF AppliesOnly, Loops
    <3> QED
      BY <1>0, <3>1, ShownTyped, PlanFromKnobs
  <2>3. d \in Handles
    BY <1>0, <2>1 DEF PlansAhead
  <2>4. OverlapTypeOK'
    <3>1. plan' \in [Run -> [Device -> Plan]]
      BY <1>0, <2>1, <2>2 DEF OverlapTypeOK
    <3>2. pending' \in [Run -> SUBSET Handles]
      BY <1>0, <2>1, <2>3 DEF OverlapTypeOK
    <3>3. left' \in [Run -> SUBSET {e \in Device : InScope(kind[e])}]
      BY <1>0, <2>1 DEF OverlapTypeOK
    <3> QED
      BY <1>0, <1>a, <2>1, <3>1, <3>2, <3>3 DEF OverlapTypeOK
  <2>5. AppliesOnly'
    BY <1>0, <2>1 DEF AppliesOnly
  <2>6. PlansAhead'
    <3>1. \A e \in pending'[r] : plan'[r][e] # <<>>
      <4> TAKE e \in pending'[r]
      <4>1. CASE e = d
        BY <1>0, <2>1, <4>1 DEF PlansAhead, OverlapTypeOK
      <4>2. CASE e # d
        BY <1>0, <2>1, <4>2 DEF PlansAhead, OverlapTypeOK
      <4> QED
        BY <4>1, <4>2
    <3>2. left'[r] \subseteq Handles' \ pending'[r]
      BY <1>0, <1>a, <2>1 DEF PlansAhead, OverlapTypeOK
    <3>3. \A s \in Run \ {r} : /\ left'[s] = left[s] /\ pending'[s] = pending[s]
                               /\ plan'[s] = plan[s]
      BY <1>0, <2>1 DEF OverlapTypeOK
    <3> HIDE DEF writes
    <3> QED
      BY <1>0, <1>a, <2>1, <3>1, <3>2, <3>3 DEF PlansAhead
  <2>7. ResetsAhead'
    BY <1>0, <2>1 DEF ResetsAhead, WillReset, Owing, OverlapTypeOK
  <2> QED
    BY <2>4, <2>5, <2>6, <2>7 DEF ResetInvariant
<1>4. ASSUME NEW r \in Run, NEW d \in Device, WriteKnob(r, d)
      PROVE  ResetInvariant'
  <2>1. /\ at[r] = "write" /\ d \in left[r] /\ \A e \in left[r] : d =< e
        /\ knob' = [knob EXCEPT ![d] = Put(@, Head(plan[r][d]))]
        /\ plan' = [plan EXCEPT ![r][d] = Tail(@)]
        /\ IF Tail(plan[r][d]) = <<>>
           THEN left' = [left EXCEPT ![r] = @ \ {d}] ELSE left' = left
        /\ UNCHANGED <<kind, reports, active, bound, boot, torn, request, at, pending,
                       resetting>>
    BY <1>4 DEF WriteKnob, Reaches, First, Leaves
  <2>2. /\ Head(plan[r][d]) \in Write
        /\ Tail(plan[r][d]) \in Plan
    <3>1. plan[r][d] \in PlansOver(Write) /\ plan[r][d] # <<>>
      BY <1>0, <2>1 DEF PlansAhead, OverlapTypeOK, Plan
    <3> QED
      BY <3>1, PlanStep DEF Plan
  <2>3. OverlapTypeOK'
    <3>1. knob' \in [Device -> Knobs]
      BY <1>0, <2>1, <2>2, PutTyped DEF OverlapTypeOK
    <3>2. plan' \in [Run -> [Device -> Plan]]
      BY <1>0, <2>1, <2>2 DEF OverlapTypeOK
    <3>3. left' \in [Run -> SUBSET {e \in Device : InScope(kind[e])}]
      BY <1>0, <2>1 DEF OverlapTypeOK
    <3> QED
      BY <1>0, <1>a, <2>1, <3>1, <3>2, <3>3 DEF OverlapTypeOK
  <2>4. AppliesOnly'
    BY <1>0, <2>1 DEF AppliesOnly
  <2>5. PlansAhead'
    <3>1. \A e \in left'[r] : plan'[r][e] # <<>>
      <4> TAKE e \in left'[r]
      <4>1. CASE e = d
        <5>1. plan'[r][d] = Tail(plan[r][d])
          BY <1>0, <2>1 DEF OverlapTypeOK
        <5>2. Tail(plan[r][d]) # <<>>
          BY <1>0, <2>1, <4>1 DEF OverlapTypeOK
        <5> QED
          BY <4>1, <5>1, <5>2
      <4>2. CASE e # d
        <5>1. e \in left[r] /\ plan'[r][e] = plan[r][e]
          BY <1>0, <2>1, <4>2 DEF OverlapTypeOK
        <5> QED
          BY <1>0, <2>1, <5>1 DEF PlansAhead
      <4> QED
        BY <4>1, <4>2
    <3>2. \A s \in Run \ {r} : left'[s] = left[s] /\ plan'[s] = plan[s]
      BY <1>0, <2>1 DEF OverlapTypeOK
    <3> QED
      BY <1>0, <1>a, <2>1, <3>1, <3>2 DEF PlansAhead
  <2>6. ResetsAhead'
    <3>1. WillReset(r, d)'
      BY <1>0, <2>1 DEF ResetsAhead, WillReset, Owing, OverlapTypeOK
    <3>2. \A s \in Run : at'[s] \in {"write", "reset"} => left'[s] \subseteq pending'[s]
      BY <1>0, <2>1 DEF ResetsAhead, OverlapTypeOK
    <3>3. \A e \in Device \ {d} : knob'[e] = knob[e] /\ active'[e] = active[e]
      BY <1>0, <2>1 DEF OverlapTypeOK
    <3>4. \A s \in Run \ {r} : \A e \in Device : WillReset(s, e) => WillReset(s, e)'
      BY <1>0, <2>1 DEF WillReset, Owing, OverlapTypeOK
    <3>5. left'[r] \subseteq left[r]
      BY <1>0, <2>1 DEF OverlapTypeOK
    <3>6. \A e \in Device : WillReset(r, e) => WillReset(r, e)'
      BY <2>1, <3>5 DEF WillReset, Owing
    <3> QED
      BY <1>0, <3>1, <3>2, <3>3, <3>4, <3>6 DEF ResetsAhead
  <2> QED
    BY <2>3, <2>4, <2>5, <2>6 DEF ResetInvariant
<1>5. ASSUME NEW r \in Run, NEW d \in Device, BeginReset(r, d)
      PROVE  ResetInvariant'
  <2>1. /\ at[r] = "reset" /\ d \in left[r]
        /\ resetting' = resetting \cup {r}
        /\ UNCHANGED <<node, request, at, left, plan, pending>>
    BY <1>5 DEF BeginReset, Reaches, First
  <2>2. OverlapTypeOK'
    BY <1>0, <1>a, <2>1 DEF OverlapTypeOK
  <2>3. AppliesOnly' /\ PlansAhead'
    BY <1>0, <1>a, <2>1 DEF AppliesOnly, PlansAhead
  <2>4. ResetsAhead'
    BY <1>0, <2>1 DEF ResetsAhead, WillReset, Owing
  <2> QED
    BY <2>2, <2>3, <2>4 DEF ResetInvariant
<1>6. ASSUME NEW r \in Run, NEW d \in Device, EndReset(r, d)
      PROVE  ResetInvariant'
  <2>1. /\ at[r] = "reset" /\ d \in left[r]
        /\ resetting' = resetting \ {r}
        /\ active' = [active EXCEPT ![d] = knob[d]]
        /\ left' = [left EXCEPT ![r] = @ \ {d}]
        /\ UNCHANGED <<kind, reports, knob, bound, boot, torn, request, at, plan, pending>>
    BY <1>6 DEF EndReset, Reaches, First, Leaves
  <2>2. OverlapTypeOK'
    BY <1>0, <1>a, <2>1 DEF OverlapTypeOK
  <2>3. AppliesOnly' /\ PlansAhead'
    BY <1>0, <1>a, <2>1 DEF AppliesOnly, PlansAhead, OverlapTypeOK
  <2>4. ResetsAhead'
    <3>1. knob'[d] = active'[d]
      BY <1>0, <2>1 DEF OverlapTypeOK
    <3>2. \A s \in Run, e \in Device \ {d} : WillReset(s, e) => WillReset(s, e)'
      BY <1>0, <2>1 DEF WillReset, Owing, OverlapTypeOK
    <3>3. \A e \in Device \ {d} : knob'[e] = knob[e] /\ active'[e] = active[e]
      BY <1>0, <2>1 DEF OverlapTypeOK
    <3>4. \A s \in Run : at'[s] \in {"write", "reset"} => left'[s] \subseteq pending'[s]
      BY <1>0, <2>1 DEF ResetsAhead, OverlapTypeOK
    <3> QED
      BY <1>0, <3>1, <3>2, <3>3, <3>4 DEF ResetsAhead
  <2> QED
    BY <2>2, <2>3, <2>4 DEF ResetInvariant
<1>7. ASSUME NEW r \in Run, NEW d \in Device, Bind(r, d) \/ Release(r, d) \/ Verify(r, d)
      PROVE  ResetInvariant'
  <2>1. /\ at[r] \in {"bind", "release", "check", "verify"}
        /\ at'[r] \in {at[r], "refused"} /\ at' \in [Run -> {at'[r]} \cup {at[s] : s \in Run}]
        /\ \A s \in Run \ {r} : at'[s] = at[s]
        /\ left' \in [Run -> SUBSET {e \in Device : InScope(kind[e])}]
        /\ \A s \in Run \ {r} : left'[s] = left[s]
        /\ bound' \subseteq Device
        /\ UNCHANGED <<kind, reports, knob, active, boot, torn, request, plan, pending,
                       resetting>>
    BY <1>0, <1>7 DEF Bind, Release, Verify, Reaches, First, Leaves, OverlapTypeOK
  <2>2. OverlapTypeOK'
    <3>1. r \notin resetting
      BY <1>0, <2>1 DEF OverlapTypeOK
    <3> QED
      BY <1>0, <1>a, <2>1, <3>1 DEF OverlapTypeOK, Ends
  <2>3. AppliesOnly'
    BY <1>0, <2>1 DEF AppliesOnly, Loops, File
  <2>4. PlansAhead'
    BY <1>0, <1>a, <2>1 DEF PlansAhead
  <2>5. ResetsAhead'
    BY <1>0, <2>1 DEF ResetsAhead, WillReset, Owing
  <2> QED
    BY <2>2, <2>3, <2>4, <2>5 DEF ResetInvariant
<1>8. ASSUME NEW r \in Run, Fail(r)
      PROVE  ResetInvariant'
  <2>1. /\ Running(r)
        /\ at' = [at EXCEPT ![r] = "erred"]
        /\ left' = [left EXCEPT ![r] = {}]
        /\ pending' = [pending EXCEPT ![r] = Owing(r)]
        /\ resetting' = resetting \ {r}
        /\ \/ active' = active
           \/ \E d \in Device : active' = [active EXCEPT ![d] = knob[d]]
        /\ torn' \subseteq torn \cup File
        /\ UNCHANGED <<kind, reports, knob, bound, boot, request, plan>>
    BY <1>8 DEF Fail
  <2>2. Owing(r) \subseteq pending[r]
    BY <1>0 DEF Owing, ResetsAhead
  <2>3. OverlapTypeOK'
    <3>1. pending' \in [Run -> SUBSET Handles]
      BY <1>0, <2>1, <2>2 DEF OverlapTypeOK
    <3>2. active' \in [Device -> Knobs]
      BY <1>0, <2>1 DEF OverlapTypeOK
    <3>3. at' \in [Run -> Loops \cup File \cup Ends \cup {"rmModules", "rmIds", "rmRules", "idle"}]
      BY <1>0, <2>1 DEF OverlapTypeOK, Ends
    <3> QED
      BY <1>0, <1>a, <2>1, <3>1, <3>2, <3>3 DEF OverlapTypeOK
  <2>4. AppliesOnly'
    BY <1>0, <2>1 DEF AppliesOnly, OverlapTypeOK, Loops, File
  <2>5. PlansAhead'
    BY <1>0, <1>a, <2>1 DEF PlansAhead, OverlapTypeOK
  <2>6. ResetsAhead'
    <3>1. \A d \in Device : WillReset(r, d) => WillReset(r, d)'
      BY <1>0, <2>1 DEF WillReset, OverlapTypeOK, Running, Ends
    <3>2. \A s \in Run \ {r} : \A d \in Device : WillReset(s, d) => WillReset(s, d)'
      BY <1>0, <2>1 DEF WillReset, Owing, OverlapTypeOK
    <3>3. \A d \in Device : knob'[d] # active'[d] => knob[d] # active[d]
      BY <1>0, <2>1 DEF OverlapTypeOK
    <3>4. \A s \in Run : at'[s] \in {"write", "reset"} => left'[s] \subseteq pending'[s]
      BY <1>0, <2>1 DEF ResetsAhead, OverlapTypeOK
    <3> QED
      BY <1>0, <3>1, <3>2, <3>3, <3>4 DEF ResetsAhead
  <2> QED
    BY <2>3, <2>4, <2>5, <2>6 DEF ResetInvariant
<1>9. CASE UNCHANGED overlapVars
  BY <1>0, <1>9, <1>a DEF overlapVars, ResetInvariant, OverlapTypeOK, AppliesOnly, PlansAhead,
     ResetsAhead, WillReset, Owing
<1> QED
  BY <1>1, <1>2, <1>3, <1>4, <1>5, <1>6, <1>7, <1>8, <1>9 DEF OverlapNext, RunStep

-----------------------------------------------------------------------------

\* Who writes and who resets, for any number of runs and devices.
THEOREM ResetInvariantHolds == OverlapSpec => []ResetInvariant
BY ResetInit, ResetStep, PTL DEF OverlapSpec

\* Type correctness: no run reads, writes or resets a device without a mode.
THEOREM OverlapTypeOKHolds == OverlapSpec => []OverlapTypeOK
<1>1. ResetInvariant => OverlapTypeOK
  BY DEF ResetInvariant
<1> QED
  BY <1>1, ResetInvariantHolds, PTL

\* Once every run is over, only a run that failed between its writes and its
\* resets has left a device that is owed one, whatever the runs were asked for
\* and however they interleaved.
THEOREM NoResetOwedHolds == OverlapSpec => []NoResetOwed
<1>1. ResetInvariant => NoResetOwed
  <2> SUFFICES ASSUME OverlapTypeOK, ResetsAhead, \A r \in Run : ~Running(r),
                      NEW d \in Device, knob[d] # active[d]
               PROVE  \E r \in Run : at[r] = "erred" /\ d \in pending[r]
    BY DEF ResetInvariant, NoResetOwed
  <2>1. PICK r \in Run : WillReset(r, d)
    BY DEF ResetsAhead
  <2>2. at[r] \notin {"write", "reset"}
    BY DEF Running, Ends
  <2> QED
    BY <2>1, <2>2 DEF WillReset
<1> QED
  BY <1>1, ResetInvariantHolds, PTL

-----------------------------------------------------------------------------
(* Runs that agree.  Writes towards one mode only ever bring knobs ahead.  *)

LEMMA AheadPut ==
  ASSUME NEW m \in Mode, NEW k \in Kind, NEW kn \in Knobs, NEW an \in Knobs,
         Fits(kn, k), Fits(an, k), Ahead(kn, an, m), NEW w \in Toward(k, m)
  PROVE  /\ Put(kn, w) \in Knobs /\ Fits(Put(kn, w), k)
         /\ Ahead(Put(kn, w), Put(an, w), m)
         /\ Ahead(Put(kn, w), kn, m)
<1>1. w \in Write /\ w \in WriteOf(k)
  BY DEF Toward, WriteOf
<1>2. Put(kn, w) \in Knobs
  BY <1>1, PutTyped
<1>3. Fits(Put(kn, w), k)
  BY <1>1 DEF Fits, Put, Write, WriteOf, Knobs, CcMode, PpcieMode
<1>4. CASE w = SetCc(CcTarget(m)) /\ CcCapable(k)
  BY <1>2, <1>3, <1>4 DEF Ahead, Put, SetCc, Fits, CcTarget, PpcieTarget, Mode
<1>5. CASE w = SetPpcie(PpcieTarget(m)) /\ CarriesPpcie(k)
  BY <1>2, <1>3, <1>5 DEF Ahead, Put, SetPpcie, Fits, CcTarget, PpcieTarget, Mode
<1>6. \/ w = SetCc(CcTarget(m)) /\ CcCapable(k)
      \/ w = SetPpcie(PpcieTarget(m)) /\ CarriesPpcie(k)
  BY DEF Toward, WriteOf, SetCc, SetPpcie
<1> QED
  BY <1>2, <1>3, <1>4, <1>5, <1>6

LEMMA AheadMeets ==
  ASSUME NEW m \in Mode, NEW k \in Kind, NEW kn \in Knobs, NEW an \in Knobs,
         Fits(kn, k), Fits(an, k), Ahead(kn, an, m), Meets(an, m)
  PROVE  Meets(kn, m)
BY DEF Ahead, Meets, Fits

\* A plan that takes knobs to the mode takes knobs ahead of them there too.
LEMMA AheadPlan ==
  ASSUME NEW m \in Mode, NEW k \in Kind, NEW kn \in Knobs, NEW an \in Knobs,
         Fits(kn, k), Fits(an, k), Ahead(kn, an, m),
         NEW p \in PlansOver(Toward(k, m)), Meets(AfterWrites(an, p), m)
  PROVE  Meets(AfterWrites(kn, p), m)
<1> USE AheadPut, AheadMeets
<1>r. Ahead(an, an, m)
  BY DEF Ahead
<1>1. CASE p = <<>>
  BY <1>1 DEF AfterWrites
<1>2. ASSUME NEW v \in Toward(k, m), p = <<v>>
      PROVE  Meets(AfterWrites(kn, p), m)
  <2>1. AfterWrites(kn, p) = Put(kn, v) /\ AfterWrites(an, p) = Put(an, v)
    BY <1>2, PlanParts DEF AfterWrites
  <2> QED
    BY <1>r, <2>1
<1>3. ASSUME NEW v \in Toward(k, m), NEW w \in Toward(k, m), p = <<v, w>>
      PROVE  Meets(AfterWrites(kn, p), m)
  <2>1. /\ AfterWrites(kn, p) = Put(Put(kn, v), w)
        /\ AfterWrites(an, p) = Put(Put(an, v), w)
    BY <1>3, PlanParts DEF AfterWrites
  <2>2. /\ Put(kn, v) \in Knobs /\ Fits(Put(kn, v), k)
        /\ Put(an, v) \in Knobs /\ Fits(Put(an, v), k)
        /\ Ahead(Put(kn, v), Put(an, v), m)
    BY <1>r
  <2>3. Ahead(Put(an, v), Put(an, v), m)
    BY DEF Ahead
  <2>4. /\ Put(Put(kn, v), w) \in Knobs /\ Fits(Put(Put(kn, v), w), k)
        /\ Put(Put(an, v), w) \in Knobs /\ Fits(Put(Put(an, v), w), k)
        /\ Ahead(Put(Put(kn, v), w), Put(Put(an, v), w), m)
    BY <2>2, <2>3
  <2> QED
    BY <2>1, <2>4
<1> QED
  BY <1>1, <1>2, <1>3, PlanCases

\* The plan for a mode writes towards it, and takes there also knobs ahead of
\* the ones it was made from.
LEMMA PlanToward ==
  ASSUME NEW m \in Mode, NEW k \in Kind, NEW kn \in Knobs, NEW an \in Knobs,
         Fits(kn, k), Fits(an, k), Ahead(kn, an, m)
  PROVE  /\ WritesFor(an, m) \in PlansOver(Toward(k, m))
         /\ Meets(AfterWrites(kn, WritesFor(an, m)), m)
         /\ WritesFor(an, m) = <<>> => Meets(an, m)
<1>1. WritesFor(an, m) \in PlansOver(WriteOf(k))
  BY WritesForTyped
<1> DEFINE v == SetCc(CcTarget(m))
           w == SetPpcie(PpcieTarget(m))
<1>2. WritesFor(an, m) \in PlansOver({v, w})
  <2>1. WritesFor(an, m) \in {<<>>, <<v>>, <<w>>, <<w, v>>, <<v, w>>}
    BY WritesForCases
  <2> HIDE DEF v, w
  <2>2. {<<>>, <<v>>, <<w>>, <<w, v>>, <<v, w>>} \subseteq PlansOver({v, w})
    BY DEF PlansOver
  <2> QED
    BY <2>1, <2>2
<1>3. WritesFor(an, m) \in PlansOver(Toward(k, m))
  BY <1>1, <1>2 DEF PlansOver, Toward
<1>4. Meets(AfterWrites(an, WritesFor(an, m)), m)
  BY PlanReachesMode
<1> QED
  BY <1>3, <1>4, AheadPlan, PlanReachesMode

-----------------------------------------------------------------------------
(* One step of one run, where all runs ask for mode m.                     *)

AllAsk(m) == m \in Mode /\ \A s \in Run : request[s] = m

LEMMA AgreedAsk ==
  ASSUME OverlapTypeOK, Agreed, NEW r \in Run
  PROVE  AllAsk(request[r])
BY DEF OverlapTypeOK, Agreed, AllAsk

\* A step of one run leaves what the others know, and what all share for good.
LEMMA OthersWait ==
  ASSUME OverlapTypeOK, NEW r \in Run, RunStep(r)
  PROVE  /\ UNCHANGED <<kind, reports, request>>
         /\ \A s \in Run \ {r} : /\ at'[s] = at[s] /\ left'[s] = left[s]
                                 /\ plan'[s] = plan[s] /\ pending'[s] = pending[s]
<1> USE DEF node
<1>1. CASE Begin(r)
  BY <1>1 DEF Begin, OverlapTypeOK
<1>2. CASE NextStage(r)
  BY <1>2 DEF NextStage, OverlapTypeOK
<1>3. ASSUME NEW d \in Device, Read(r, d)
      PROVE  /\ UNCHANGED <<kind, reports, request>>
             /\ \A s \in Run \ {r} : /\ at'[s] = at[s] /\ left'[s] = left[s]
                                     /\ plan'[s] = plan[s] /\ pending'[s] = pending[s]
  BY <1>3 DEF Read, Leaves, OverlapTypeOK
<1>4. ASSUME NEW d \in Device, WriteKnob(r, d)
      PROVE  /\ UNCHANGED <<kind, reports, request>>
             /\ \A s \in Run \ {r} : /\ at'[s] = at[s] /\ left'[s] = left[s]
                                     /\ plan'[s] = plan[s] /\ pending'[s] = pending[s]
  BY <1>4 DEF WriteKnob, Leaves, OverlapTypeOK
<1>5. ASSUME NEW d \in Device, \/ BeginReset(r, d) \/ EndReset(r, d)
                               \/ Bind(r, d) \/ Release(r, d) \/ Verify(r, d)
      PROVE  /\ UNCHANGED <<kind, reports, request>>
             /\ \A s \in Run \ {r} : /\ at'[s] = at[s] /\ left'[s] = left[s]
                                     /\ plan'[s] = plan[s] /\ pending'[s] = pending[s]
  BY <1>5 DEF BeginReset, EndReset, Bind, Release, Verify, Leaves, OverlapTypeOK
<1>6. CASE Fail(r)
  BY <1>6 DEF Fail, OverlapTypeOK
<1> QED
  BY <1>1, <1>2, <1>3, <1>4, <1>5, <1>6 DEF RunStep

\* No step takes a knob of any device away from the mode, nor does a reset.
LEMMA Onward ==
  ASSUME OverlapTypeOK, PlansAhead, OneWay, NEW m, AllAsk(m),
         NEW r \in Run, RunStep(r), NEW d \in Device
  PROVE  /\ knob'[d] \in Knobs /\ active'[d] \in Knobs
         /\ Fits(knob'[d], kind[d]) /\ Fits(active'[d], kind[d])
         /\ Ahead(knob'[d], knob[d], m)
         /\ Ahead(active'[d], active[d], m)
         /\ Ahead(knob'[d], active'[d], m)
<1>1. /\ knob[d] \in Knobs /\ active[d] \in Knobs /\ kind[d] \in Kind /\ m \in Mode
      /\ Fits(knob[d], kind[d]) /\ Fits(active[d], kind[d])
      /\ Ahead(knob[d], active[d], m)
      /\ Ahead(knob[d], knob[d], m) /\ Ahead(active[d], active[d], m)
  BY DEF OverlapTypeOK, OneWay, AllAsk, Ahead
<1>2. CASE knob'[d] = knob[d] /\ active'[d] = active[d]
  BY <1>1, <1>2
<1>3. CASE WriteKnob(r, d)
  <2>1. /\ plan[r][d] # <<>>
        /\ knob'[d] = Put(knob[d], Head(plan[r][d]))
        /\ active'[d] = active[d]
    BY <1>3 DEF WriteKnob, Reaches, First, PlansAhead, OverlapTypeOK
  <2>2. plan[r][d] \in PlansOver(Toward(kind[d], m))
    BY DEF OneWay, AllAsk
  <2>3. Head(plan[r][d]) \in Toward(kind[d], m)
    BY <2>1, <2>2, PlanStep
  <2>4. /\ knob'[d] \in Knobs /\ Fits(knob'[d], kind[d])
        /\ Ahead(knob'[d], knob[d], m)
    BY <1>1, <2>1, <2>3, AheadPut
  <2>5. Ahead(knob'[d], active[d], m)
    BY <1>1, <2>4 DEF Ahead
  <2> QED
    BY <1>1, <2>1, <2>4, <2>5
<1>4. CASE knob'[d] = knob[d] /\ active'[d] = knob[d]
  BY <1>1, <1>4
<1>5. \/ knob'[d] = knob[d] /\ active'[d] \in {active[d], knob[d]}
      \/ WriteKnob(r, d)
  <2>1. CASE Begin(r) \/ NextStage(r)
    BY <2>1 DEF Begin, NextStage, node
  <2>2. ASSUME NEW e \in Device, \/ Read(r, e) \/ BeginReset(r, e)
                                 \/ Bind(r, e) \/ Release(r, e) \/ Verify(r, e)
        PROVE  knob' = knob /\ active' = active
    BY <2>2 DEF Read, BeginReset, Bind, Release, Verify, node
  <2>3. ASSUME NEW e \in Device \ {d}, WriteKnob(r, e)
        PROVE  knob'[d] = knob[d] /\ active'[d] = active[d]
    BY <2>3 DEF WriteKnob, OverlapTypeOK
  <2>4. ASSUME NEW e \in Device, EndReset(r, e)
        PROVE  knob' = knob /\ active'[d] \in {active[d], knob[d]}
    BY <2>4 DEF EndReset, OverlapTypeOK
  <2>5. CASE Fail(r)
    BY <2>5 DEF Fail, OverlapTypeOK
  <2> QED
    BY <2>1, <2>2, <2>3, <2>4, <2>5 DEF RunStep
<1> QED
  BY <1>2, <1>3, <1>4, <1>5

\* What a device is or will be by a plan, it stays or will be.
LEMMA ModesPersist ==
  ASSUME OverlapTypeOK, PlansAhead, OneWay, NEW m, AllAsk(m),
         NEW r \in Run, RunStep(r), NEW d \in Device
  PROVE  /\ Meets(knob[d], m) => Meets(knob'[d], m)
         /\ Meets(Shown(d), m) => Meets(Shown(d), m)'
         /\ Meets(Shown(d), m) => Meets(knob[d], m)
         /\ \A p \in PlansOver(Toward(kind[d], m)) :
              Meets(AfterWrites(knob[d], p), m) => Meets(AfterWrites(knob'[d], p), m)
<1>1. /\ knob[d] \in Knobs /\ active[d] \in Knobs /\ kind[d] \in Kind /\ m \in Mode
      /\ Fits(knob[d], kind[d]) /\ Fits(active[d], kind[d])
      /\ Ahead(knob[d], active[d], m)
      /\ knob'[d] \in Knobs /\ active'[d] \in Knobs
      /\ Fits(knob'[d], kind[d]) /\ Fits(active'[d], kind[d])
      /\ Ahead(knob'[d], knob[d], m) /\ Ahead(active'[d], active[d], m)
  BY Onward DEF OverlapTypeOK, OneWay, AllAsk
<1>2. Meets(knob[d], m) => Meets(knob'[d], m)
  BY <1>1, AheadMeets
<1>3. Meets(active[d], m) => Meets(active'[d], m)
  BY <1>1, AheadMeets
<1>4. Meets(active[d], m) => Meets(knob[d], m)
  BY <1>1, AheadMeets
<1>5. Shown(d) = (IF reports = "knob" THEN knob[d] ELSE active[d])
      /\ Shown(d)' = (IF reports = "knob" THEN knob'[d] ELSE active'[d])
  BY OthersWait DEF Shown
<1>6. Meets(Shown(d), m) => Meets(Shown(d)', m) /\ Meets(knob[d], m)
  BY <1>2, <1>3, <1>4, <1>5
<1>7. ASSUME NEW p \in PlansOver(Toward(kind[d], m)), Meets(AfterWrites(knob[d], p), m)
      PROVE  Meets(AfterWrites(knob'[d], p), m)
  BY <1>1, <1>7, AheadPlan
<1>8. Meets(Shown(d), m)' <=> Meets(Shown(d)', m)
  BY DEF Meets
<1> QED
  BY <1>2, <1>6, <1>7, <1>8

LEMMA OneWayStep ==
  ASSUME ResetInvariant, OneWay, NEW m, AllAsk(m), NEW r \in Run, RunStep(r)
  PROVE  OneWay'
<1>0. OverlapTypeOK /\ PlansAhead /\ AllAsk(m)' /\ kind' = kind
  BY OthersWait DEF ResetInvariant, AllAsk
<1> SUFFICES ASSUME NEW s \in Run, NEW d \in Device
             PROVE  plan'[s][d] \in PlansOver(Toward(kind[d], m))
  BY <1>0, Onward DEF OneWay, AllAsk
<1>1. plan[s][d] \in PlansOver(Toward(kind[d], m))
  BY DEF OneWay, AllAsk
<1>2. CASE Read(r, d) /\ s = r
  <2>1. plan'[s][d] = WritesFor(Shown(d), m)
    BY <1>0, <1>2 DEF Read, AllAsk, OverlapTypeOK
  <2>2. /\ m \in Mode /\ kind[d] \in Kind /\ Shown(d) \in Knobs
        /\ Fits(Shown(d), kind[d])
    BY <1>0, ShownTyped DEF OneWay, AllAsk, OverlapTypeOK, Shown
  <2>3. Ahead(Shown(d), Shown(d), m)
    BY DEF Ahead
  <2> QED
    BY <2>1, <2>2, <2>3, PlanToward
<1>3. CASE WriteKnob(r, d) /\ s = r
  <2>1. plan'[s][d] = Tail(plan[s][d]) /\ plan[s][d] # <<>>
    BY <1>0, <1>3 DEF WriteKnob, Reaches, First, PlansAhead, OverlapTypeOK
  <2>2. Tail(plan[s][d]) \in PlansOver(Toward(kind[d], m))
    BY <1>1, <2>1, PlanStep
  <2> QED
    BY <2>1, <2>2
<1>4. CASE plan'[s][d] = plan[s][d]
  BY <1>1, <1>4
<1>5. \/ (Read(r, d) \/ WriteKnob(r, d)) /\ s = r
      \/ plan'[s][d] = plan[s][d]
  <2>1. CASE s # r
    BY <1>0, <2>1, OthersWait
  <2>2. CASE Begin(r) \/ NextStage(r)
    BY <2>2 DEF Begin, NextStage
  <2>3. ASSUME NEW e \in Device, \/ BeginReset(r, e) \/ EndReset(r, e)
                                 \/ Bind(r, e) \/ Release(r, e) \/ Verify(r, e)
        PROVE  plan' = plan
    BY <2>3 DEF BeginReset, EndReset, Bind, Release, Verify
  <2>4. ASSUME NEW e \in Device \ {d}, Read(r, e) \/ WriteKnob(r, e)
        PROVE  plan'[s][d] = plan[s][d]
    <3>1. \E writes : plan' = [plan EXCEPT ![r][e] = writes]
      BY <2>4 DEF Read, WriteKnob
    <3> QED
      BY <1>0, <2>4, <3>1 DEF OverlapTypeOK
  <2>5. CASE Fail(r)
    BY <2>5 DEF Fail
  <2> QED
    BY <2>1, <2>2, <2>3, <2>4, <2>5 DEF RunStep
<1> QED
  BY <1>2, <1>3, <1>4, <1>5

\* Where a run is with device d, as ModesAhead has it.
ModeAhead(r, d) ==
  /\ (at[r] = "read" /\ d \notin left[r]) \/ at[r] = "write" =>
       IF d \in pending[r] THEN Meets(AfterWrites(knob[d], plan[r][d]), request[r])
                           ELSE Meets(Shown(d), request[r])
  /\ at[r] = "write" /\ d \notin left[r] /\ d \in pending[r] => plan[r][d] = <<>>
  /\ at[r] = "reset" => Meets(knob[d], request[r])
  /\ (at[r] = "reset" /\ d \notin left[r])
       \/ at[r] \in {"check"} \cup File \cup AfterFiles =>
         Meets(Shown(d), request[r])

LEMMA ModesStep ==
  ASSUME ResetInvariant, OneWay, ModesAhead, NEW m, AllAsk(m), NEW r \in Run, RunStep(r),
         at[r] \notin {"rmModules", "rmIds", "rmRules"}
  PROVE  ModesAhead'
<1>0. /\ OverlapTypeOK /\ PlansAhead /\ ResetsAhead
      /\ AllAsk(m)' /\ kind' = kind /\ reports' = reports /\ request' = request
      /\ Handles' = Handles
  BY OthersWait DEF ResetInvariant, AllAsk, Handles
<1> SUFFICES ASSUME NEW s \in Run, NEW d \in Handles
             PROVE  ModeAhead(s, d)'
  BY <1>0 DEF ModesAhead, ModeAhead
<1>a. d \in Device /\ request[s] = m /\ request'[s] = m /\ m \in Mode
  BY <1>0 DEF Handles, AllAsk
<1>b. ModeAhead(s, d)
  BY DEF ModesAhead, ModeAhead
<1>c. /\ Meets(knob[d], m) => Meets(knob'[d], m)
      /\ Meets(Shown(d), m) => Meets(Shown(d)', m)
      /\ Meets(Shown(d), m) => Meets(knob[d], m)
      /\ Meets(AfterWrites(knob[d], plan[s][d]), m) =>
           Meets(AfterWrites(knob'[d], plan[s][d]), m)
  <2>1. plan[s][d] \in PlansOver(Toward(kind[d], m))
    BY <1>a DEF OneWay
  <2> QED
    BY <1>0, <1>a, <2>1, ModesPersist DEF Meets
\* A run that keeps its place keeps it whatever the others do.
<1>d. ASSUME at'[s] = at[s], d \in left'[s] <=> d \in left[s],
             plan'[s][d] = plan[s][d], d \in pending'[s] <=> d \in pending[s]
      PROVE  ModeAhead(s, d)'
  BY <1>a, <1>b, <1>c, <1>d DEF ModeAhead
<1>1. CASE s # r
  BY <1>0, <1>1, <1>d, OthersWait
<1>2. CASE s = r /\ Begin(r)
  <2>1. at'[s] \in {"read", "rmModules"} /\ left'[s] = Visits(r, at'[s])
    BY <1>0, <1>2 DEF Begin, OverlapTypeOK
  <2>2. at'[s] = "read" => d \in left'[s]
    BY <2>1 DEF Visits
  <2> QED
    BY <2>1, <2>2 DEF ModeAhead, File, AfterFiles
<1>3. CASE s = r /\ NextStage(r)
  <2>1. /\ at'[s] = After(at[s]) /\ left'[s] = Visits(s, After(at[s]))
        /\ left[s] = {} /\ Running(s)
        /\ pending'[s] = pending[s] /\ plan'[s] = plan[s] /\ knob' = knob
    BY <1>0, <1>3 DEF NextStage, OverlapTypeOK
  <2>2. CASE at[s] = "read"
    <3>1. at'[s] = "write" /\ left'[s] = pending[s]
      BY <2>1, <2>2 DEF After, Visits
    <3> QED
      BY <1>a, <1>b, <1>c, <2>1, <2>2, <3>1 DEF ModeAhead, File, AfterFiles
  <2>3. CASE at[s] = "write"
    <3>1. at'[s] = "reset" /\ left'[s] = pending[s]
      BY <2>1, <2>3 DEF After, Visits
    <3>2. d \in pending[s] => Meets(knob[d], m)
      BY <1>a, <1>b, <2>1, <2>3 DEF ModeAhead, AfterWrites
    <3>3. d \notin pending[s] => Meets(Shown(d), m)
      BY <1>a, <1>b, <2>3 DEF ModeAhead
    <3> QED
      BY <1>a, <1>c, <3>1, <3>2, <3>3 DEF ModeAhead, File, AfterFiles
  <2>4. CASE at[s] \in {"reset", "check", "bind", "release", "verify"} \cup File
    <3>1. Meets(Shown(d), m)
      BY <1>a, <1>b, <2>1, <2>4 DEF ModeAhead, AfterFiles
    <3>2. at'[s] \notin {"read", "write", "reset"}
      BY <2>1, <2>4 DEF After, File
    <3> QED
      BY <1>a, <1>c, <3>1, <3>2 DEF ModeAhead
  <2>5. at[s] \in {"read", "write", "reset", "check", "bind", "release", "verify"} \cup File
    BY <1>0, <1>3, <2>1 DEF Running, Ends, OverlapTypeOK, Loops, File
  <2> QED
    BY <2>2, <2>3, <2>4, <2>5
<1>4. CASE s = r /\ Read(r, d)
  <2>1. /\ at[s] = "read" /\ at'[s] = "read" /\ d \in left[s] /\ d \notin pending[s]
        /\ plan'[s][d] = WritesFor(Shown(d), m)
        /\ d \in pending'[s] <=> WritesFor(Shown(d), m) # <<>>
        /\ knob' = knob /\ Shown(d)' = Shown(d)
    BY <1>0, <1>a, <1>4 DEF Read, Reaches, First, PlansAhead, OverlapTypeOK, node, Shown
  <2>2. /\ Meets(AfterWrites(knob[d], WritesFor(Shown(d), m)), m)
        /\ WritesFor(Shown(d), m) = <<>> => Meets(Shown(d), m)
    <3>1. /\ kind[d] \in Kind /\ knob[d] \in Knobs /\ Shown(d) \in Knobs
          /\ Fits(knob[d], kind[d]) /\ Fits(Shown(d), kind[d])
          /\ Ahead(knob[d], Shown(d), m)
      BY <1>0, <1>a DEF OneWay, OverlapTypeOK, Shown, Ahead
    <3> QED
      BY <1>a, <3>1, PlanToward
  <2> QED
    BY <1>a, <2>1, <2>2 DEF ModeAhead, File, AfterFiles
<1>5. CASE s = r /\ WriteKnob(r, d)
  <2>1. /\ at[s] = "write" /\ at'[s] = "write" /\ d \in left[s]
        /\ plan[s][d] # <<>> /\ plan'[s][d] = Tail(plan[s][d])
        /\ d \notin left'[s] => Tail(plan[s][d]) = <<>>
        /\ pending'[s] = pending[s]
        /\ knob'[d] = Put(knob[d], Head(plan[s][d]))
    BY <1>0, <1>a, <1>5
       DEF WriteKnob, Reaches, First, Leaves, PlansAhead, OverlapTypeOK
  <2>2. d \in pending[s]
    BY <1>0, <2>1 DEF ResetsAhead
  <2>3. plan[s][d] \in PlansOver(Toward(kind[d], m))
    BY <1>a DEF OneWay
  <2>4. AfterWrites(knob'[d], plan'[s][d]) = AfterWrites(knob[d], plan[s][d])
    BY <2>1, <2>3, PlanStep
  <2>5. Meets(AfterWrites(knob'[d], plan'[s][d]), m)
    BY <1>a, <1>b, <2>1, <2>2, <2>4 DEF ModeAhead
  <2> QED
    BY <1>a, <2>1, <2>2, <2>5 DEF ModeAhead, File, AfterFiles
<1>6. CASE s = r /\ EndReset(r, d)
  <2>1. /\ at[s] = "reset" /\ at'[s] = "reset"
        /\ active'[d] = knob[d] /\ knob'[d] = knob[d]
    BY <1>0, <1>a, <1>6 DEF EndReset, Reaches, OverlapTypeOK
  <2>2. Shown(d)' = knob[d]
    BY <2>1 DEF Shown
  <2>3. Meets(knob[d], m)
    BY <1>a, <1>b, <2>1 DEF ModeAhead
  <2> QED
    BY <1>a, <2>1, <2>2, <2>3 DEF ModeAhead
<1>7. CASE s = r /\ \E e \in Device : Bind(r, e) \/ Release(r, e) \/ Verify(r, e)
  <2>1. /\ at[s] \in {"check", "bind", "release", "verify"}
        /\ at'[s] \in {at[s], "refused"}
    BY <1>0, <1>7 DEF Bind, Release, Verify, Reaches, OverlapTypeOK
  <2> QED
    BY <1>a, <1>b, <1>c, <2>1 DEF ModeAhead, File, AfterFiles
<1>8. CASE s = r /\ \E e \in Device \ {d} : Read(r, e) \/ WriteKnob(r, e) \/ EndReset(r, e)
  <2>1. /\ at'[s] = at[s] /\ plan'[s][d] = plan[s][d]
        /\ d \in left'[s] <=> d \in left[s]
        /\ d \in pending'[s] <=> d \in pending[s]
    BY <1>0, <1>a, <1>8 DEF Read, WriteKnob, EndReset, Leaves, OverlapTypeOK
  <2> QED
    BY <1>d, <2>1
<1>9. CASE s = r /\ \E e \in Device : BeginReset(r, e)
  BY <1>9, <1>d DEF BeginReset
<1>10. CASE s = r /\ Fail(r)
  <2>1. at'[s] = "erred"
    BY <1>0, <1>10 DEF Fail, OverlapTypeOK
  <2> QED
    BY <2>1 DEF ModeAhead, File, AfterFiles
<1> QED
  BY <1>a, <1>1, <1>2, <1>3, <1>4, <1>5, <1>6, <1>7, <1>8, <1>9, <1>10 DEF RunStep

\* What a run binds is the mode's passthrough set and what it releases is the
\* rest of the scope, whichever run it is.
BindAhead(r) ==
  /\ at[r] \in {"bind", "verify"} => left[r] \subseteq Passthrough(request[r])
  /\ at[r] = "bind" => Passthrough(request[r]) \ left[r] \subseteq bound
  /\ at[r] \in {"release", "verify", "ok"} => Passthrough(request[r]) \subseteq bound
  /\ at[r] = "release" => /\ left[r] \subseteq Released(request[r])
                          /\ bound \cap Released(request[r]) \subseteq left[r]
  /\ at[r] \in {"verify", "ok"} => bound \cap Released(request[r]) = {}

LEMMA BindingsStep ==
  ASSUME ResetInvariant, BindingsAhead, NEW m, AllAsk(m), NEW r \in Run, RunStep(r),
         at[r] \notin {"rmModules", "rmIds", "rmRules"}
  PROVE  BindingsAhead'
<1> DEFINE on == Passthrough(m)
          off == Released(m)
<1>0. /\ OverlapTypeOK /\ AllAsk(m)' /\ kind' = kind
      /\ on' = on /\ off' = off /\ on \cap off = {}
  BY OthersWait DEF ResetInvariant, AllAsk, Passthrough, Released
<1>a. \A s \in Run : BindAhead(s)
  BY DEF BindingsAhead, BindAhead
<1> SUFFICES ASSUME NEW s \in Run
             PROVE  BindAhead(s)'
  BY DEF BindingsAhead, BindAhead
<1>b. /\ request[s] = m /\ request[r] = m
      /\ Passthrough(request[s]) = on /\ Released(request[s]) = off
      /\ Passthrough(request[r]) = on /\ Released(request[r]) = off
      /\ Passthrough(request[s])' = on /\ Released(request[s])' = off
  BY <1>0 DEF AllAsk, Passthrough, Released
<1> HIDE DEF on, off
<1>c. on \cap bound \subseteq bound' /\ bound' \cap off \subseteq bound
  <2>1. CASE Begin(r) \/ NextStage(r)
    BY <2>1 DEF Begin, NextStage, node
  <2>2. ASSUME NEW e \in Device, \/ Read(r, e) \/ WriteKnob(r, e) \/ BeginReset(r, e)
                                 \/ EndReset(r, e) \/ Verify(r, e)
        PROVE  bound' = bound
    BY <2>2 DEF Read, WriteKnob, BeginReset, EndReset, Verify, node
  <2>3. ASSUME NEW e \in Device, Bind(r, e)
        PROVE  bound' = bound \cup {e} /\ e \in on
    BY <1>a, <1>b, <2>3 DEF Bind, Reaches, First, BindAhead
  <2>4. ASSUME NEW e \in Device, Release(r, e)
        PROVE  bound' = bound \ {e} /\ e \in off
    BY <1>a, <1>b, <2>4 DEF Release, Reaches, First, BindAhead
  <2>5. CASE Fail(r)
    BY <2>5 DEF Fail
  <2> QED
    BY <1>0, <2>1, <2>2, <2>3, <2>4, <2>5 DEF RunStep
<1>1. CASE at'[s] = at[s] /\ left'[s] = left[s]
  BY <1>a, <1>b, <1>c, <1>1 DEF BindAhead
<1>2. CASE s = r /\ Begin(r)
  <2>1. at'[s] \in {"read", "rmModules"}
    BY <1>0, <1>2 DEF Begin, OverlapTypeOK
  <2> QED
    BY <2>1 DEF BindAhead
<1>3. CASE s = r /\ NextStage(r)
  <2>1. /\ at'[s] = After(at[s]) /\ left'[s] = Visits(s, After(at[s]))
        /\ left[s] = {} /\ Running(s) /\ bound' = bound
    BY <1>0, <1>3 DEF NextStage, OverlapTypeOK
  <2>2. CASE at[s] = "rules"
    <3>1. at'[s] = "bind" /\ left'[s] = on
      BY <1>b, <2>1, <2>2 DEF After, Visits
    <3> QED
      BY <1>b, <3>1 DEF BindAhead
  <2>3. CASE at[s] = "bind"
    <3>1. at'[s] = "release" /\ left'[s] = off
      BY <1>b, <2>1, <2>3 DEF After, Visits
    <3>2. on \subseteq bound
      BY <1>a, <1>b, <2>1, <2>3 DEF BindAhead
    <3> QED
      BY <1>b, <2>1, <3>1, <3>2 DEF BindAhead
  <2>4. CASE at[s] = "release"
    <3>1. at'[s] = "verify" /\ left'[s] = on
      BY <1>b, <2>1, <2>4 DEF After, Visits
    <3>2. on \subseteq bound /\ bound \cap off = {}
      BY <1>a, <1>b, <2>1, <2>4 DEF BindAhead
    <3> QED
      BY <1>b, <2>1, <3>1, <3>2 DEF BindAhead
  <2>5. CASE at[s] = "verify"
    <3>1. at'[s] = "ok"
      BY <2>1, <2>5 DEF After
    <3>2. on \subseteq bound /\ bound \cap off = {}
      BY <1>a, <1>b, <2>5 DEF BindAhead
    <3> QED
      BY <1>b, <2>1, <3>1, <3>2 DEF BindAhead
  <2>6. CASE at[s] \in {"read", "write", "reset", "check", "modules", "ids"}
    <3>1. at'[s] \in {"write", "reset", "check", "modules", "ids", "rules"}
      BY <2>1, <2>6 DEF After
    <3> QED
      BY <3>1 DEF BindAhead
  <2>7. at[s] \in {"read", "write", "reset", "check", "bind", "release", "verify"} \cup File
    BY <1>0, <1>3, <2>1 DEF Running, Ends, OverlapTypeOK, Loops, File
  <2> QED
    BY <2>2, <2>3, <2>4, <2>5, <2>6, <2>7 DEF File
<1>4. CASE s = r /\ \E e \in Device : \/ Read(r, e) \/ WriteKnob(r, e)
                                      \/ BeginReset(r, e) \/ EndReset(r, e)
  <2>1. at'[s] \in {"read", "write", "reset"}
    BY <1>4 DEF Read, WriteKnob, BeginReset, EndReset, Reaches
  <2> QED
    BY <2>1 DEF BindAhead
<1>5. ASSUME s = r, NEW e \in Device, Bind(r, e)
      PROVE  BindAhead(s)'
  <2>1. /\ at[s] = "bind" /\ at'[s] = "bind"
        /\ left'[s] = left[s] \ {e} /\ bound' = bound \cup {e}
    BY <1>0, <1>5 DEF Bind, Reaches, Leaves, OverlapTypeOK
  <2>2. left[s] \subseteq on /\ on \ left[s] \subseteq bound
    BY <1>a, <1>b, <2>1 DEF BindAhead
  <2>3. left'[s] \subseteq on /\ on \ left'[s] \subseteq bound'
    BY <2>1, <2>2
  <2> QED
    BY <1>b, <2>1, <2>3 DEF BindAhead
<1>6. ASSUME s = r, NEW e \in Device, Release(r, e)
      PROVE  BindAhead(s)'
  <2>1. /\ at[s] = "release" /\ at'[s] = "release"
        /\ left'[s] = left[s] \ {e} /\ bound' = bound \ {e}
    BY <1>0, <1>6 DEF Release, Reaches, Leaves, OverlapTypeOK
  <2>2. on \subseteq bound /\ left[s] \subseteq off /\ bound \cap off \subseteq left[s]
    BY <1>a, <1>b, <2>1 DEF BindAhead
  <2>3. on \subseteq bound'
    BY <1>c, <2>2
  <2>4. left'[s] \subseteq off /\ bound' \cap off \subseteq left'[s]
    BY <2>1, <2>2
  <2> QED
    BY <1>b, <2>1, <2>3, <2>4 DEF BindAhead
<1>7. ASSUME s = r, NEW e \in Device, Verify(r, e)
      PROVE  BindAhead(s)'
  <2>1. /\ at[s] \in {"check", "verify"} /\ bound' = bound
        /\ at'[s] = "refused" \/ (at'[s] = at[s] /\ left'[s] \subseteq left[s])
    BY <1>0, <1>7 DEF Verify, Reaches, Leaves, OverlapTypeOK, node
  <2> QED
    BY <1>a, <1>b, <2>1 DEF BindAhead
<1>8. s # r => at'[s] = at[s] /\ left'[s] = left[s]
  BY <1>0, OthersWait
<1>9. CASE s = r /\ Fail(r)
  <2>1. at'[s] = "erred"
    BY <1>0, <1>9 DEF Fail, OverlapTypeOK
  <2> QED
    BY <2>1 DEF BindAhead
<1> QED
  BY <1>1, <1>2, <1>3, <1>4, <1>5, <1>6, <1>7, <1>8, <1>9 DEF RunStep

\* Every run writes the same three files.
LEMMA FilesStep ==
  ASSUME ResetInvariant, FilesAhead, NEW m, AllAsk(m), NEW r \in Run, RunStep(r),
         at[r] \notin {"rmModules", "rmIds", "rmRules"}
  PROVE  FilesAhead'
<1> DEFINE on == Passthrough(m)
<1>0. OverlapTypeOK /\ AllAsk(m)' /\ kind' = kind /\ on' = on
  BY OthersWait DEF ResetInvariant, AllAsk, Passthrough
<1>a. \A s \in Run : /\ Passthrough(request[s]) = on
                     /\ Passthrough(request[s])' = on
  BY <1>0 DEF AllAsk, Passthrough
<1> HIDE DEF on
<1>b. \A s \in Run :
        /\ at[s] \in {"ids", "rules"} \cup AfterFiles => boot["modules"] = on
        /\ at[s] \in {"rules"} \cup AfterFiles => boot["ids"] = on
        /\ at[s] \in AfterFiles => boot["rules"] = on
  BY <1>a DEF FilesAhead
<1> SUFFICES ASSUME NEW s \in Run
             PROVE  /\ at'[s] \in {"ids", "rules"} \cup AfterFiles => boot'["modules"] = on
                    /\ at'[s] \in {"rules"} \cup AfterFiles => boot'["ids"] = on
                    /\ at'[s] \in AfterFiles => boot'["rules"] = on
  BY <1>a DEF FilesAhead, AfterFiles
<1>1. CASE NextStage(r)
  <2>1. /\ boot' = [f \in File |-> IF f \in FileOf(at[r]) THEN FileContent(r, at[r])
                                  ELSE boot[f]]
        /\ at'[r] = After(at[r]) /\ \A t \in Run \ {r} : at'[t] = at[t]
        /\ Running(r)
    BY <1>0, <1>1 DEF NextStage, OverlapTypeOK
  <2>2. at[r] \in {"read", "write", "reset", "check", "bind", "release", "verify"} \cup File
    BY <1>0, <2>1 DEF Running, Ends, OverlapTypeOK, Loops, File
  <2>3. CASE at[r] = "modules"
    <3>1. /\ boot'["modules"] = on /\ at'[r] = "ids"
          /\ \A f \in File \ {"modules"} : boot'[f] = boot[f]
      BY <1>a, <2>1, <2>3 DEF FileContent, FileOf, File, After
    <3> QED
      BY <1>0, <1>b, <2>1, <3>1 DEF AfterFiles, OverlapTypeOK, File
  <2>4. CASE at[r] = "ids"
    <3>1. /\ boot'["ids"] = on /\ at'[r] = "rules"
          /\ \A f \in File \ {"ids"} : boot'[f] = boot[f]
      BY <1>a, <2>1, <2>4 DEF FileContent, FileOf, File, After
    <3> QED
      BY <1>0, <1>b, <2>1, <2>4, <3>1 DEF AfterFiles, OverlapTypeOK, File
  <2>5. CASE at[r] = "rules"
    <3>1. /\ boot'["rules"] = on /\ at'[r] = "bind"
          /\ \A f \in File \ {"rules"} : boot'[f] = boot[f]
      BY <1>a, <2>1, <2>5 DEF FileContent, FileOf, File, After
    <3> QED
      BY <1>0, <1>b, <2>1, <2>5, <3>1 DEF AfterFiles, OverlapTypeOK, File
  <2>6. CASE at[r] \in {"read", "write", "reset", "check"}
    <3>1. boot' = boot /\ at'[r] \in {"write", "reset", "check", "modules"}
      BY <1>0, <2>1, <2>6 DEF OverlapTypeOK, FileContent, FileOf, File, After
    <3> QED
      BY <1>b, <2>1, <3>1 DEF AfterFiles
  <2>7. CASE at[r] \in {"bind", "release", "verify"}
    <3>1. boot' = boot /\ at'[r] \in AfterFiles
      BY <1>0, <2>1, <2>7 DEF OverlapTypeOK, FileContent, FileOf, File, After, AfterFiles
    <3> QED
      BY <1>b, <2>1, <2>7, <3>1 DEF AfterFiles
  <2> QED
    BY <2>2, <2>3, <2>4, <2>5, <2>6, <2>7 DEF File
<1>2. CASE Begin(r)
  <2>1. /\ boot' = boot /\ at'[r] \in {"read", "rmModules"}
        /\ \A t \in Run \ {r} : at'[t] = at[t]
    BY <1>0, <1>2 DEF Begin, OverlapTypeOK, node
  <2> QED
    BY <1>b, <2>1 DEF AfterFiles
<1>3. ASSUME NEW d \in Device, \/ Read(r, d) \/ WriteKnob(r, d)
                               \/ BeginReset(r, d) \/ EndReset(r, d)
                               \/ Bind(r, d) \/ Release(r, d) \/ Verify(r, d)
      PROVE  boot' = boot /\ at'[s] \in {at[s], "refused"}
  BY <1>0, <1>3
     DEF Read, WriteKnob, BeginReset, EndReset, Bind, Release, Verify, OverlapTypeOK, node
<1>4. CASE Fail(r)
  <2>1. boot' = boot /\ at'[s] \in {at[s], "erred"}
    BY <1>0, <1>4 DEF Fail, OverlapTypeOK
  <2> QED
    BY <1>b, <2>1 DEF AfterFiles
<1> QED
  BY <1>b, <1>1, <1>2, <1>3, <1>4 DEF RunStep, AfterFiles

\* No run is turned down: what it verifies is what it and the others are at.
LEMMA NoneRefused ==
  ASSUME ResetInvariant, ModesAhead, BindingsAhead, NEW m, AllAsk(m),
         NEW r \in Run, RunStep(r),
         at[r] \notin {"refused", "rmModules", "rmIds", "rmRules"}
  PROVE  at'[r] \notin {"refused", "rmModules", "rmIds", "rmRules"}
<1>0. OverlapTypeOK /\ request[r] = m /\ m # Uninstall
  BY DEF ResetInvariant, AllAsk, Mode, Uninstall
<1>1. CASE Begin(r)
  BY <1>0, <1>1 DEF Begin, OverlapTypeOK
<1>2. CASE NextStage(r)
  BY <1>0, <1>2 DEF NextStage, After, OverlapTypeOK
<1>3. ASSUME NEW d \in Device, Verify(r, d)
      PROVE  at' = at
  <2>1. at[r] \in {"check", "verify"} /\ d \in left[r]
    BY <1>3 DEF Verify, Reaches, First
  <2>2. HasHandle(kind[d]) => Meets(Shown(d), request[r])
    BY <2>1 DEF ModesAhead, Handles, AfterFiles
  <2>3. at[r] = "verify" => d \in bound
    BY <2>1 DEF BindingsAhead
  <2> QED
    BY <1>3, <2>2, <2>3 DEF Verify, Verified
<1>4. ASSUME NEW d \in Device, \/ Read(r, d) \/ WriteKnob(r, d)
                               \/ BeginReset(r, d) \/ EndReset(r, d)
                               \/ Bind(r, d) \/ Release(r, d)
      PROVE  at' = at
  BY <1>4 DEF Read, WriteKnob, BeginReset, EndReset, Bind, Release
<1>5. CASE Fail(r)
  BY <1>0, <1>5 DEF Fail, OverlapTypeOK
<1> QED
  BY <1>1, <1>2, <1>3, <1>4, <1>5 DEF RunStep

-----------------------------------------------------------------------------

LEMMA AgreedInit == OverlapInit => AgreedInvariant
<1> SUFFICES ASSUME OverlapInit, Agreed
             PROVE  /\ \A r \in Run : at[r] = "idle"
                    /\ OneWay /\ ModesAhead /\ BindingsAhead /\ FilesAhead
  BY DEF AgreedInvariant
<1>1. \A r \in Run : at[r] = "idle"
  BY DEF OverlapInit
<1>2. OneWay
  <2> SUFFICES ASSUME NEW r \in Run, NEW d \in Device
               PROVE  /\ Fits(knob[d], kind[d]) /\ Fits(active[d], kind[d])
                      /\ Ahead(knob[d], active[d], request[r])
                      /\ plan[r][d] \in PlansOver(Toward(kind[d], request[r]))
    BY DEF OneWay
  <2>1. Fits(knob[d], kind[d]) /\ active[d] = knob[d] /\ plan[r][d] = <<>>
    BY DEF OverlapInit
  <2>2. Ahead(knob[d], knob[d], request[r])
    BY DEF Ahead
  <2>3. <<>> \in PlansOver(Toward(kind[d], request[r]))
    BY DEF PlansOver
  <2> QED
    BY <2>1, <2>2, <2>3
<1>3. ModesAhead /\ BindingsAhead /\ FilesAhead
  BY <1>1 DEF ModesAhead, BindingsAhead, FilesAhead, File, AfterFiles
<1> QED
  BY <1>1, <1>2, <1>3

LEMMA AgreedStep ==
  ResetInvariant /\ AgreedInvariant /\ [OverlapNext]_overlapVars => AgreedInvariant'
<1> SUFFICES ASSUME ResetInvariant, AgreedInvariant, [OverlapNext]_overlapVars, Agreed'
             PROVE  /\ \A s \in Run : at'[s] \notin {"refused", "rmModules", "rmIds", "rmRules"}
                    /\ OneWay' /\ ModesAhead' /\ BindingsAhead' /\ FilesAhead'
  BY DEF AgreedInvariant
<1>1. ASSUME NEW r \in Run, RunStep(r)
      PROVE  /\ \A s \in Run : at'[s] \notin {"refused", "rmModules", "rmIds", "rmRules"}
             /\ OneWay' /\ ModesAhead' /\ BindingsAhead' /\ FilesAhead'
  <2>1. OverlapTypeOK /\ UNCHANGED <<kind, reports, request>> /\ Agreed
    BY <1>1, OthersWait DEF ResetInvariant, Agreed
  <2>2. /\ \A s \in Run : at[s] \notin {"refused", "rmModules", "rmIds", "rmRules"}
        /\ OneWay /\ ModesAhead /\ BindingsAhead /\ FilesAhead
    BY <2>1 DEF AgreedInvariant
  <2>3. PICK m : AllAsk(m)
    BY <2>1, AgreedAsk
  <2>4. OneWay'
    BY <1>1, <2>2, <2>3, OneWayStep
  <2>5. ModesAhead'
    BY <1>1, <2>2, <2>3, ModesStep
  <2>6. BindingsAhead'
    BY <1>1, <2>2, <2>3, BindingsStep
  <2>7. FilesAhead'
    BY <1>1, <2>2, <2>3, FilesStep
  <2>8. at'[r] \notin {"refused", "rmModules", "rmIds", "rmRules"}
    BY <1>1, <2>2, <2>3, NoneRefused
  <2>9. \A s \in Run \ {r} : at'[s] = at[s]
    BY <1>1, <2>1, OthersWait
  <2> QED
    BY <2>2, <2>4, <2>5, <2>6, <2>7, <2>8, <2>9
<1>2. CASE UNCHANGED overlapVars
  BY <1>2 DEF overlapVars, node, locals, AgreedInvariant, Agreed, OneWay, ModesAhead,
     BindingsAhead, FilesAhead, Handles, Passthrough, Released, Shown
<1> QED
  BY <1>1, <1>2 DEF OverlapNext

\* What keeps runs that agree out of one another's way, for any number of them.
THEOREM OverlapInvariantHolds == OverlapSpec => []OverlapInvariant
<1>1. OverlapInit => OverlapInvariant
  BY ResetInit, AgreedInit DEF OverlapInvariant
<1>2. OverlapInvariant /\ [OverlapNext]_overlapVars => OverlapInvariant'
  BY ResetStep, AgreedStep DEF OverlapInvariant
<1> QED
  BY <1>1, <1>2, PTL DEF OverlapSpec

\* Any number of runs that ask for one mode, however they interleave and
\* whichever of them fail: none is turned down at its verifications, and an Ok
\* stays true while the slower ones write, reset, bind, persist and fail behind
\* it.
THEOREM AgreedRunsStandHolds == OverlapSpec => []AgreedRunsStand
<1>1. OverlapInvariant => AgreedRunsStand
  BY DEF OverlapInvariant, AgreedInvariant, AgreedRunsStand, ModesAhead, BindingsAhead,
     FilesAhead, AfterFiles, File
<1> QED
  BY <1>1, OverlapInvariantHolds, PTL

=============================================================================
