---- MODULE ProvisionerProofs ----
(***************************************************************************)
(* The invariants of a whole run, for every set of devices, every board    *)
(* and host and any number of failures; and the invariants of the mode     *)
(* stage again, for the stage as a run executes it.                        *)
(***************************************************************************)
EXTENDS Provisioner, ModeStageProofs

USE BoundsAssumption, HostsAssumption DEF BoundsAssumption

-----------------------------------------------------------------------------
(* The mode stage inside the run.                                          *)

\* What the run's own failures do to the mode stage: they are counted.
FaultCounted ==
  /\ faults < MaxFaults
  /\ faults' = faults + 1
  /\ UNCHANGED <<hardware, run, lost>>

\* Every step of the provisioner is a step of the mode stage, leaves it alone,
\* or counts a failure elsewhere.
LEMMA StageStep ==
  ASSUME asked \in Mode, [ProvisionerNext]_vars
  PROVE  [Next]_modeVars \/ FaultCounted
<1>1. CASE UNCHANGED modeVars
  BY <1>1
<1>2. CASE EnterMode
  <2>1. Start(asked)
    BY <1>2 DEF EnterMode
  <2> QED
    BY <2>1 DEF Next
<1>3. CASE ModeRuns \/ WriteIsLost \/ ModeFails \/ NodeReboot
  BY <1>3 DEF ModeRuns, WriteIsLost, ModeFails, NodeReboot, Next
<1>4. CASE ProbeUnreadable
  BY <1>4 DEF ProbeUnreadable, FaultCounted
<1>5. CASE Abort
  BY <1>5 DEF Abort, FaultCounted
<1>6. CASE HostCheck \/ Probe \/ LeaveMode \/ PersistModules \/ PersistIds
           \/ PersistRules \/ EnterRelease \/ EnterVerify \/ Finish
           \/ RemoveModules \/ RemoveIds \/ RemoveRules \/ Uninstall
  BY <1>1, <1>6 DEF HostCheck, Probe, LeaveMode, PersistModules, PersistIds,
     PersistRules, WriteFile, EnterRelease, EnterVerify, Finish, RemoveModules,
     RemoveIds, RemoveRules, Uninstall, Begin
<1>7. CASE \E d \in Device : \/ Resolve(d) \/ VerifyIdle(d) \/ Bind(d) \/ Release(d)
                             \/ VerifyDevice(d) \/ VmStart(d) \/ VmStop(d)
  BY <1>1, <1>7 DEF Resolve, VerifyIdle, Bind, Release, VerifyDevice, VmStart, VmStop
<1>8. CASE \E m \in Mode : Apply(m)
  BY <1>1, <1>8 DEF Apply, Begin
<1>9. CASE UNCHANGED vars
  BY <1>1, <1>9 DEF vars
<1> QED
  BY <1>2, <1>3, <1>4, <1>5, <1>6, <1>7, <1>8, <1>9
  DEF ProvisionerNext, RunStep, Environment

\* The invariant of the stage survives its own steps and a counted failure.
LEMMA StageInvariantStep ==
  ASSUME InductiveInvariant, [Next]_modeVars \/ FaultCounted
  PROVE  InductiveInvariant'
<1>1. CASE [Next]_modeVars
  BY <1>1, BookkeepingStep, SyncedStep, OnCourseStep, VerifiedStep, NeededStep
  DEF InductiveInvariant
<1>2. CASE FaultCounted
  <2>1. /\ faults' # 0
        /\ faults' \in 0..MaxFaults
        /\ UNCHANGED <<kind, reports, knob, active, mode, stage, left, plan,
                       pending, lost>>
    BY <1>2 DEF FaultCounted, InductiveInvariant, Bookkeeping, TypeOK, hardware, run
  <2>2. Handles' = Handles /\ \A d : Shown(d)' = Shown(d)
    BY <2>1, HandlesStay DEF Shown
  <2>3. Bookkeeping'
    <3>1. TypeOK' /\ KnobsAreSound' /\ PlansFit'
      BY <2>1, <2>2 DEF InductiveInvariant, Bookkeeping, TypeOK, KnobsAreSound, PlansFit
    <3>2. Planned'
      BY <2>1, <2>2 DEF InductiveInvariant, Bookkeeping, Planned
    <3> QED
      BY <3>1, <3>2 DEF Bookkeeping
  <2>4. OnCourse'
    BY <2>1, <2>2 DEF InductiveInvariant, OnCourse
  <2>5. Verified'
    BY <2>1, <2>2 DEF InductiveInvariant, Verified, SuccessIsReported
  <2>6. Synced' /\ Needed'
    BY <2>1 DEF Synced, Needed
  <2> QED
    BY <2>3, <2>4, <2>5, <2>6 DEF InductiveInvariant
<1> QED
  BY <1>1, <1>2

-----------------------------------------------------------------------------
(* Type correctness of the run.                                            *)

\* The sets of devices the stages visit.
LEMMA ScopeTyped ==
  /\ InScopeDevices \subseteq Device
  /\ Passthrough \subseteq InScopeDevices
  /\ ToRelease \subseteq InScopeDevices
  /\ \A unreadable : Writable(unreadable) \subseteq InScopeDevices
BY DEF InScopeDevices, Passthrough, InPassthrough, ToRelease, Writable

\* They follow from what the devices are and the mode asked for.
LEMMA ScopeStays ==
  ASSUME kind' = kind
  PROVE  /\ InScopeDevices' = InScopeDevices
         /\ asked' = asked => Passthrough' = Passthrough
BY DEF InScopeDevices, Passthrough

LEMMA DriverForTyped ==
  ASSUME NEW module \in Module
  PROVE  DriverFor(module) \in Driver /\ IsVfio(DriverFor(module))
BY DEF Module, Driver, DriverFor, IsVfio

LEMMA HostTyped ==
  ASSUME host \in Hosts
  PROVE  /\ host.alias \in [Kind -> Module \cup {"none"}]
         /\ \A k \in Kind : host.native[k] \in Driver /\ ~IsVfio(host.native[k])
<1>1. host \in [alias : [Kind -> Module \cup {"none"}],
                native : [Kind -> {dr \in Driver : ~IsVfio(dr)}],
                iommu : BOOLEAN]
  BY HostsAssumption DEF HostsAssumption
<1>2. host.native \in [Kind -> {dr \in Driver : ~IsVfio(dr)}]
  BY <1>1
<1> QED
  BY <1>1, <1>2

\* The search for a module finds one or fails.
LEMMA ResolveTyped ==
  ASSUME host \in Hosts, NEW k \in Kind
  PROVE  ResolveModule(host.alias, k) \in Module \cup {"none"}
<1>1. host.alias[k] \in Module \cup {"none"}
  BY HostTyped
<1>2. VfioModule(host.alias, k) \in Module \cup {"none"}
  BY <1>1 DEF VfioModule, Module
<1> QED
  BY <1>2 DEF ResolveModule

\* Whatever is on the disk, the next boot gives every device some driver.
LEMMA BootDriverTyped ==
  ASSUME TypeOK, ProvisionerTypeOK, NEW d \in Device
  PROVE  BootDriver(d) \in Driver
<1>1. kind[d] \in Kind
  BY DEF TypeOK
<1>2. host.native[kind[d]] \in Driver
  BY <1>1, HostTyped DEF ProvisionerTypeOK
<1>3. ASSUME \E module \in Module : <<kind[d], module>> \in boot.rules
      PROVE  (CHOOSE module \in Module : <<kind[d], module>> \in boot.rules) \in Module
  BY <1>3
<1> QED
  BY <1>2, <1>3, DriverForTyped DEF BootDriver, Driver

\* The conjuncts of the type invariant that a stage of the run can disturb.
LEMMA RunTypeStep ==
  ASSUME TypeOK, ProvisionerTypeOK, Resolved, [ProvisionerNext]_vars
  PROVE  ProvisionerTypeOK'
<1> USE ScopeTyped DEF ProvisionerTypeOK, nodeVars, runVars, modeVars
<1>s. /\ Stages = {"host", "resolve", "idle", "mode", "modules", "ids", "rules", "bind",
                   "release", "verify", "rmModules", "rmIds", "rmRules"}
      /\ kind' = kind => InScopeDevices' = InScopeDevices
  BY ScopeStays DEF Stages
<1>t. \A d \in Passthrough : pc \in AfterResolve => chosen[d] \in Module
  BY DEF Resolved, Past, IsResolved
<1>1. ASSUME NEW m \in Mode, Apply(m) PROVE ProvisionerTypeOK'
  BY <1>1, <1>s DEF Apply, Begin, Running
<1>2. ASSUME HostCheck PROVE ProvisionerTypeOK'
  BY <1>2, <1>s DEF HostCheck, Go, Stop, Running
<1>3. ASSUME NEW d \in Device, Resolve(d) PROVE ProvisionerTypeOK'
  <2>1. chosen' \in [Device -> Module \cup {"none"}]
    BY <1>3, ResolveTyped DEF Resolve, TypeOK
  <2>2. /\ driver' \in [Device -> Driver]
        /\ loaded' \subseteq Module
        /\ held' = held
        /\ \A e \in Device : driver[e] # "unbound" => driver'[e] = driver[e]
    <3>1. CASE chosen'[d] = "none"
      BY <1>3, <3>1 DEF Resolve
    <3>2. CASE chosen'[d] # "none"
      <4>1. chosen'[d] \in Module /\ DriverFor(chosen'[d]) \in Driver
        BY <2>1, <3>2, DriverForTyped
      <4> QED
        BY <1>3, <3>2, <4>1 DEF Resolve, Modprobe, ClaimedBy
    <3> QED
      BY <3>1, <3>2
  <2>3. held' \subseteq {e \in Device : IsVfio(driver'[e])}
    BY <2>2 DEF IsVfio
  <2> QED
    BY <1>3, <1>s, <2>1, <2>2, <2>3 DEF Resolve, Go, Stop, Running
<1>4. ASSUME Probe PROVE ProvisionerTypeOK'
  BY <1>4, <1>s DEF Probe, Go, Running
<1>5. ASSUME ProbeUnreadable PROVE ProvisionerTypeOK'
  BY <1>5, <1>s DEF ProbeUnreadable, Go, Running, hardware, run
<1>6. ASSUME NEW d \in Device, VerifyIdle(d) PROVE ProvisionerTypeOK'
  BY <1>6, <1>s DEF VerifyIdle, Go, Stop, Running
<1>7. ASSUME EnterMode PROVE ProvisionerTypeOK'
  BY <1>7, <1>s DEF EnterMode, Go, Start, hardware
<1>8. ASSUME ModeRuns \/ WriteIsLost \/ ModeFails PROVE ProvisionerTypeOK'
  <2>1. kind' = kind /\ pc = "mode" /\ UNCHANGED <<nodeVars, runVars>>
    BY <1>8 DEF ModeRuns, WriteIsLost, ModeFails, Step, Open, Read, WriteKnob, Reset,
       Verify, Mismatch, NextLoop, WriteLost, Fail, hardware
  <2> QED
    BY <2>1, <1>s
<1>9. ASSUME LeaveMode PROVE ProvisionerTypeOK'
  BY <1>9, <1>s DEF LeaveMode, Go, Stop, Running, Loops
<1>10. ASSUME PersistModules \/ PersistIds \/ PersistRules PROVE ProvisionerTypeOK'
  <2>1. BootModules \subseteq Module /\ BootIds \subseteq Kind /\ BootRules \subseteq Kind \X Module
    BY <1>10, <1>t DEF BootModules, BootIds, BootRules, PersistModules, PersistIds,
       PersistRules, WriteFile, AfterResolve, AfterMode, TypeOK
  <2>2. boot' \in [modules : SUBSET Module, ids : SUBSET Kind, rules : SUBSET (Kind \X Module)]
    BY <1>10, <2>1 DEF PersistModules, PersistIds, PersistRules, WriteFile
  <2> QED
    BY <1>10, <1>s, <2>2 DEF PersistModules, PersistIds, PersistRules, WriteFile, Go, Running
<1>11. ASSUME NEW d \in Device, Bind(d) PROVE ProvisionerTypeOK'
  <2>1. d \in Passthrough
    BY <1>11 DEF Bind, First, Resolved
  <2>2. Target(d) \in Driver
    BY <1>11, <1>t, <2>1, DriverForTyped DEF Bind, Target, AfterResolve, AfterMode, AfterRules
  <2> QED
    BY <1>11, <1>s, <2>2 DEF Bind, Bindable, Go, Stop, Running, IsVfio
<1>12. ASSUME EnterRelease \/ EnterVerify \/ Finish PROVE ProvisionerTypeOK'
  BY <1>12, <1>s DEF EnterRelease, EnterVerify, Finish, Go, Stop, Running
<1>13. ASSUME NEW d \in Device, Release(d) PROVE ProvisionerTypeOK'
  BY <1>13, <1>s DEF Release, Go, Running, Driver
<1>14. ASSUME NEW d \in Device, VerifyDevice(d) PROVE ProvisionerTypeOK'
  BY <1>14, <1>s DEF VerifyDevice, Go, Stop, Running
<1>15. ASSUME Uninstall PROVE ProvisionerTypeOK'
  BY <1>15, <1>s DEF Uninstall, Begin, Running
<1>16. ASSUME RemoveModules \/ RemoveIds \/ RemoveRules PROVE ProvisionerTypeOK'
  BY <1>16, <1>s DEF RemoveModules, RemoveIds, RemoveRules, WriteFile, Go, Stop, Running
<1>17. ASSUME Abort PROVE ProvisionerTypeOK'
  BY <1>17, <1>s DEF Abort, Torn, Stop, Running, hardware, run
<1>18. ASSUME NodeReboot PROVE ProvisionerTypeOK'
  <2>1. driver' \in [Device -> Driver]
    BY <1>18, BootDriverTyped DEF NodeReboot
  <2>2. loaded' \subseteq Module
    BY <1>18 DEF NodeReboot
  <2>3. kind' = kind /\ ~Running'
    BY <1>18 DEF NodeReboot, Reboot, Running, Loops
  <2> QED
    BY <1>18, <1>s, <2>1, <2>2, <2>3 DEF NodeReboot, Stop
<1>19. ASSUME NEW d \in Device, VmStart(d) \/ VmStop(d) PROVE ProvisionerTypeOK'
  BY <1>19, <1>s DEF VmStart, VmStop, Running
<1>20. CASE UNCHANGED vars
  BY <1>20, <1>s DEF vars, Running
<1> QED
  BY <1>1, <1>2, <1>3, <1>4, <1>5, <1>6, <1>7, <1>8, <1>9, <1>10, <1>11, <1>12, <1>13,
     <1>14, <1>15, <1>16, <1>17, <1>18, <1>19, <1>20
  DEF ProvisionerNext, RunStep, Environment

-----------------------------------------------------------------------------
(* What the stages leave to each other.                                    *)

\* What the devices are and the host has never changes.
LEMMA RigidStep ==
  ASSUME asked \in Mode, [ProvisionerNext]_vars
  PROVE  kind' = kind /\ host' = host
<1>1. kind' = kind
  <2>1. FaultCounted => kind' = kind
    BY DEF FaultCounted, hardware
  <2>2. [Next]_modeVars => kind' = kind
    BY DEF Next, modeVars, Start, Step, Open, Read, WriteKnob, Reset, Verify, Mismatch,
       NextLoop, WriteLost, Fail, Reboot, hardware
  <2> QED
    BY <2>1, <2>2, StageStep
<1>2. host' = host
  BY DEF vars, nodeVars, ProvisionerNext, RunStep, Environment, Apply, Begin, HostCheck,
     Resolve, Probe, ProbeUnreadable, VerifyIdle, EnterMode, ModeRuns, WriteIsLost,
     LeaveMode, PersistModules, PersistIds, PersistRules, WriteFile, Bind, EnterRelease,
     Release, EnterVerify, VerifyDevice, Finish, Uninstall, RemoveModules, RemoveIds,
     RemoveRules, Abort, ModeFails, NodeReboot, VmStart, VmStop
<1> QED
  BY <1>1, <1>2

\* What a run derives from the choices it has made stays while they do.
LEMMA ChoicesStay ==
  ASSUME kind' = kind, host' = host, asked' = asked, chosen' = chosen
  PROVE  /\ InScopeDevices' = InScopeDevices
         /\ Passthrough' = Passthrough
         /\ BootModules' = BootModules
         /\ BootIds' = BootIds
         /\ BootRules' = BootRules
         /\ \A d : Target(d)' = Target(d)
         /\ \A d : IsResolved(d)' = IsResolved(d)
<1>1. InScopeDevices' = InScopeDevices /\ Passthrough' = Passthrough
  BY ScopeStays
<1> QED
  BY <1>1 DEF BootModules, BootIds, BootRules, Target, IsResolved

\* A run that begins, or ends without success, owes nothing.
Cleared ==
  \/ pc' = "stopped" /\ result' \in {"none", "failed"}
  \/ pc' \in {"host", "rmModules"} /\ result' = "none"

LEMMA ClearedKeeps ==
  ASSUME Cleared
  PROVE  Resolved' /\ Admitted' /\ ModeDone' /\ BootWritten' /\ Bound'
BY DEF Cleared, Resolved, Admitted, ModeDone, BootWritten, Bound, Past, AfterResolve,
   AfterMode, AfterRules

\* Every step hands the layers on: one case per action.
LEMMA LayersStep ==
  ASSUME TypeOK, Layers, [ProvisionerNext]_vars
  PROVE  Resolved' /\ ModeDone' /\ BootWritten' /\ Bound'
<1> DEFINE Goal == Resolved' /\ ModeDone' /\ BootWritten' /\ Bound'
<1> USE DEF modeVars, nodeVars, runVars
<1>p. ProvisionerTypeOK /\ Resolved /\ ModeDone /\ BootWritten /\ Bound
  BY DEF Layers
<1>r. kind' = kind /\ host' = host
  BY <1>p, RigidStep DEF ProvisionerTypeOK
<1>n. pc # "stopped" => result = "none"
  BY <1>p DEF Resolved
<1>a. /\ AfterRules = {"bind", "release", "verify"}
      /\ AfterMode = {"modules", "ids", "rules", "bind", "release", "verify"}
      /\ AfterResolve = {"idle", "mode", "modules", "ids", "rules", "bind", "release",
                         "verify"}
  BY DEF AfterRules, AfterMode, AfterResolve
<1>c. asked' = asked /\ chosen' = chosen =>
        /\ InScopeDevices' = InScopeDevices
        /\ Passthrough' = Passthrough
        /\ BootModules' = BootModules
        /\ BootIds' = BootIds
        /\ BootRules' = BootRules
        /\ \A d : Target(d)' = Target(d)
        /\ \A d : IsResolved(d)' = IsResolved(d)
  BY <1>r, ChoicesStay
<1>1. ASSUME (\E m \in Mode : Apply(m)) \/ Uninstall PROVE Goal
  BY <1>1, ClearedKeeps DEF Apply, Uninstall, Begin, Cleared
<1>2. ASSUME HostCheck PROVE Goal
  <2>1. CASE HostAccepts
    BY <1>2, <1>a, <1>n, <1>c, <2>1
    DEF HostCheck, Go, Resolved, ModeDone, BootWritten, Bound, Past
  <2>2. CASE ~HostAccepts
    BY <1>2, <2>2, ClearedKeeps DEF HostCheck, Stop, Cleared
  <2> QED
    BY <2>1, <2>2
<1>3. ASSUME NEW d \in Device, Resolve(d) PROVE Goal
  <2>1. CASE chosen'[d] = "none"
    BY <1>3, <2>1, ClearedKeeps DEF Resolve, Stop, Cleared
  <2>2. CASE chosen'[d] # "none"
    <3>1. /\ pc = "resolve" /\ pc' = "resolve" /\ todo' = todo \ {d}
          /\ result' = "none" /\ asked' = asked
          /\ chosen' = [chosen EXCEPT ![d] = ResolveModule(host.alias, kind[d])]
      BY <1>3, <1>n, <2>2 DEF Resolve, Go
    <3>2. InScopeDevices' = InScopeDevices /\ Passthrough' = Passthrough
      BY <1>r, <3>1, ScopeStays
    <3>3. chosen'[d] = ResolveModule(host.alias, kind[d]) /\ chosen'[d] \in Module
      <4>1. chosen'[d] = ResolveModule(host.alias, kind[d])
        BY <1>p, <3>1 DEF ProvisionerTypeOK
      <4> QED
        BY <1>p, <2>2, <4>1, ResolveTyped DEF ProvisionerTypeOK, TypeOK
    <3>4. \A e \in Device : e # d => chosen'[e] = chosen[e]
      BY <1>p, <3>1 DEF ProvisionerTypeOK
    <3>5. \A e \in Passthrough \ todo' : IsResolved(e)'
      BY <1>p, <1>r, <3>1, <3>3, <3>4, ScopeTyped DEF Resolved, IsResolved
    <3>6. todo' \subseteq Passthrough
      BY <1>p, <3>1 DEF Resolved
    <3> QED
      BY <1>a, <3>1, <3>2, <3>5, <3>6 DEF Resolved, ModeDone, BootWritten, Bound, Past
  <2> QED
    BY <2>1, <2>2
<1>4. ASSUME Probe \/ ProbeUnreadable PROVE Goal
  <2>1. /\ pc = "resolve" /\ todo = {} /\ pc' = "idle" /\ result' = "none"
        /\ asked' = asked /\ chosen' = chosen
    BY <1>4, <1>n DEF Probe, ProbeUnreadable, Go
  <2> QED
    BY <1>p, <1>a, <1>c, <2>1 DEF Resolved, ModeDone, BootWritten, Bound, Past
<1>5. ASSUME NEW d \in Device, VerifyIdle(d) PROVE Goal
  <2>1. CASE d \in held
    BY <1>5, <2>1, ClearedKeeps DEF VerifyIdle, Stop, Cleared
  <2>2. CASE d \notin held
    BY <1>5, <1>p, <1>a, <1>n, <1>c, <2>2
    DEF VerifyIdle, Go, Resolved, ModeDone, BootWritten, Bound, Past
  <2> QED
    BY <2>1, <2>2
<1>6. ASSUME EnterMode PROVE Goal
  <2>1. /\ pc = "idle" /\ pc' = "mode" /\ result' = "none"
        /\ asked' = asked /\ chosen' = chosen /\ mode' = asked
    BY <1>6, <1>n DEF EnterMode, Go, Start
  <2> QED
    BY <1>p, <1>a, <1>c, <2>1 DEF Resolved, ModeDone, BootWritten, Bound, Past
<1>7. ASSUME ModeRuns \/ WriteIsLost \/ ModeFails PROVE Goal
  <2>1. /\ pc = "mode" /\ result = "none" /\ UNCHANGED <<nodeVars, runVars>>
        /\ mode' = mode
    BY <1>7, <1>n DEF ModeRuns, WriteIsLost, ModeFails, Step, Open, Read, WriteKnob, Reset,
       Verify, Mismatch, NextLoop, WriteLost, Fail
  <2> QED
    BY <1>p, <1>a, <1>c, <2>1 DEF Resolved, ModeDone, BootWritten, Bound, Past
<1>8. ASSUME LeaveMode PROVE Goal
  <2>1. CASE stage = "ok"
    <3>1. /\ pc = "mode" /\ pc' = "modules" /\ result' = "none"
          /\ asked' = asked /\ chosen' = chosen /\ mode' = mode /\ stage' = "ok"
      BY <1>8, <1>n, <2>1 DEF LeaveMode, Go
    <3> QED
      BY <1>p, <1>a, <1>c, <3>1 DEF Resolved, ModeDone, BootWritten, Bound, Past
  <2>2. CASE stage # "ok"
    BY <1>8, <2>2, ClearedKeeps DEF LeaveMode, Stop, Cleared
  <2> QED
    BY <2>1, <2>2
<1>9. ASSUME PersistModules \/ PersistIds \/ PersistRules PROVE Goal
  <2>1. /\ result' = "none" /\ asked' = asked /\ chosen' = chosen
        /\ mode' = mode /\ stage' = stage /\ driver' = driver
        /\ \/ /\ pc = "modules" /\ pc' = "ids" /\ todo' = {}
              /\ boot' = [boot EXCEPT !.modules = BootModules]
           \/ /\ pc = "ids" /\ pc' = "rules" /\ todo' = {}
              /\ boot' = [boot EXCEPT !.ids = BootIds]
           \/ /\ pc = "rules" /\ pc' = "bind" /\ todo' = Passthrough
              /\ boot' = [boot EXCEPT !.rules = BootRules]
    BY <1>9, <1>n DEF PersistModules, PersistIds, PersistRules, WriteFile, Go
  <2>2. BootWritten'
    BY <1>p, <1>a, <1>c, <2>1 DEF ProvisionerTypeOK, BootWritten, Past
  <2> QED
    BY <1>p, <1>a, <1>c, <2>1, <2>2 DEF Resolved, ModeDone, Bound, Past
<1>10. ASSUME NEW d \in Device, Bind(d) PROVE Goal
  <2>1. CASE Bindable(d)
    <3>1. /\ pc = "bind" /\ pc' = "bind" /\ todo' = todo \ {d} /\ result' = "none"
          /\ asked' = asked /\ chosen' = chosen /\ mode' = mode /\ stage' = stage
          /\ boot' = boot /\ driver' = [driver EXCEPT ![d] = Target(d)]
      BY <1>10, <1>n, <2>1 DEF Bind, Go
    <3>2. \A e \in Passthrough \ todo' : driver'[e] = Target(e)
      BY <1>p, <3>1, ScopeTyped DEF Bound, ProvisionerTypeOK
    <3>3. Resolved' /\ ModeDone' /\ BootWritten'
      BY <1>p, <1>a, <1>c, <3>1 DEF Resolved, ModeDone, BootWritten, Past
    <3> QED
      BY <1>c, <3>1, <3>2, <3>3 DEF Bound, Past
  <2>2. CASE ~Bindable(d)
    BY <1>10, <2>2, ClearedKeeps DEF Bind, Stop, Cleared
  <2> QED
    BY <2>1, <2>2
<1>11. ASSUME EnterRelease PROVE Goal
  <2>1. /\ pc = "bind" /\ todo = {} /\ pc' = "release" /\ todo' = ToRelease
        /\ result' = "none" /\ asked' = asked /\ chosen' = chosen /\ mode' = mode
        /\ stage' = stage /\ boot' = boot /\ driver' = driver
    BY <1>11, <1>n DEF EnterRelease, Go
  <2>2. Resolved' /\ ModeDone' /\ BootWritten'
    BY <1>p, <1>a, <1>c, <2>1 DEF Resolved, ModeDone, BootWritten, Past
  <2> QED
    BY <1>p, <1>c, <2>1, <2>2 DEF Bound, Past, ToRelease
<1>12. ASSUME NEW d \in Device, Release(d) PROVE Goal
  <2>1. /\ pc = "release" /\ pc' = "release" /\ d \in todo /\ todo' = todo \ {d}
        /\ result' = "none" /\ asked' = asked /\ chosen' = chosen /\ mode' = mode
        /\ stage' = stage /\ boot' = boot
        /\ driver' = [driver EXCEPT ![d] = "unbound"]
    BY <1>12, <1>n DEF Release, First, Go
  <2>2. d \notin Passthrough
    BY <1>p, <2>1 DEF Bound
  <2>3. \A e \in Device : IF e = d THEN ~IsVfio(driver'[e]) ELSE driver'[e] = driver[e]
    BY <1>p, <2>1 DEF ProvisionerTypeOK, IsVfio
  <2>4. Resolved' /\ ModeDone' /\ BootWritten'
    BY <1>p, <1>a, <1>c, <2>1 DEF Resolved, ModeDone, BootWritten, Past
  <2> QED
    BY <1>p, <1>c, <2>1, <2>2, <2>3, <2>4, ScopeTyped DEF Bound, Past
<1>13. ASSUME EnterVerify PROVE Goal
  <2>1. /\ pc = "release" /\ todo = {} /\ pc' = "verify" /\ todo' = Passthrough
        /\ result' = "none" /\ asked' = asked /\ chosen' = chosen /\ mode' = mode
        /\ stage' = stage /\ boot' = boot /\ driver' = driver
    BY <1>13, <1>n DEF EnterVerify, Go
  <2> QED
    BY <1>p, <1>a, <1>c, <2>1 DEF Resolved, ModeDone, BootWritten, Bound, Past
<1>14. ASSUME NEW d \in Device, VerifyDevice(d) PROVE Goal
  <2>1. CASE pc' = "stopped"
    BY <1>14, <2>1, ClearedKeeps DEF VerifyDevice, Go, Stop, Cleared
  <2>2. CASE pc' # "stopped"
    <3>1. /\ pc = "verify" /\ pc' = "verify" /\ todo' = todo \ {d}
          /\ result' = "none" /\ asked' = asked /\ chosen' = chosen /\ mode' = mode
          /\ stage' = stage /\ boot' = boot /\ driver' = driver
      BY <1>14, <1>n, <2>2 DEF VerifyDevice, Go, Stop
    <3> QED
      BY <1>p, <1>a, <1>c, <3>1 DEF Resolved, ModeDone, BootWritten, Bound, Past
  <2> QED
    BY <2>1, <2>2
<1>15. ASSUME Finish PROVE Goal
  <2>1. /\ pc = "verify" /\ pc' = "stopped" /\ result' = "applied"
        /\ asked' = asked /\ chosen' = chosen /\ mode' = mode
        /\ stage' = stage /\ boot' = boot /\ driver' = driver
    BY <1>15 DEF Finish, Stop
  <2> QED
    BY <1>p, <1>a, <1>c, <2>1 DEF Resolved, ModeDone, BootWritten, Bound, Past
<1>16. ASSUME RemoveModules \/ RemoveIds \/ RemoveRules PROVE Goal
  <2>1. /\ result = "none"
        /\ \/ /\ pc = "rmModules" /\ pc' = "rmIds" /\ result' = "none"
              /\ boot' = [boot EXCEPT !.modules = {}]
           \/ /\ pc = "rmIds" /\ pc' = "rmRules" /\ result' = "none"
              /\ boot' = [boot EXCEPT !.ids = {}]
           \/ /\ pc = "rmRules" /\ pc' = "stopped" /\ result' = "uninstalled"
              /\ boot' = [boot EXCEPT !.rules = {}]
    BY <1>16, <1>n DEF RemoveModules, RemoveIds, RemoveRules, WriteFile, Go, Stop
  <2>2. BootWritten'
    BY <1>p, <1>a, <2>1 DEF ProvisionerTypeOK, BootWritten, Past, NoBoot
  <2> QED
    BY <1>a, <2>1, <2>2 DEF Resolved, ModeDone, Bound, Past
<1>17. ASSUME Abort \/ NodeReboot PROVE Goal
  BY <1>17, ClearedKeeps DEF Abort, NodeReboot, Stop, Cleared
<1>18. ASSUME (\E d \in Device : VmStart(d) \/ VmStop(d)) \/ UNCHANGED vars PROVE Goal
  <2>1. UNCHANGED <<driver, boot, runVars, mode, stage>>
    BY <1>18 DEF VmStart, VmStop, vars
  <2> QED
    BY <1>p, <1>c, <2>1 DEF Resolved, ModeDone, BootWritten, Bound, Past
<1> QED
  BY <1>1, <1>2, <1>3, <1>4, <1>5, <1>6, <1>7, <1>8, <1>9, <1>10, <1>11, <1>12, <1>13,
     <1>14, <1>15, <1>16, <1>17, <1>18
  DEF ProvisionerNext, RunStep, Environment

\* Behind the host check a run moves devices only to vfio drivers or off them.
LEMMA Moves ==
  ASSUME TypeOK, Layers, [ProvisionerNext]_vars, ~HostCheck,
         Past({"resolve"} \cup AfterResolve)'
  PROVE  /\ Past({"resolve"} \cup AfterResolve)
         /\ asked' = asked
         /\ \A d \in Device :
              driver'[d] = driver[d] \/ driver'[d] = "unbound" \/ IsVfio(driver'[d])
<1> DEFINE Behind == Past({"resolve"} \cup AfterResolve)
           Goal == /\ Behind
                   /\ asked' = asked
                   /\ \A d \in Device : \/ driver'[d] = driver[d]
                                        \/ driver'[d] = "unbound"
                                        \/ IsVfio(driver'[d])
<1> USE DEF nodeVars, runVars
<1>p. ProvisionerTypeOK /\ Resolved
  BY DEF Layers
<1>a. /\ Behind <=> \/ pc \in {"resolve", "idle", "mode", "modules", "ids", "rules",
                               "bind", "release", "verify"}
                    \/ result = "applied"
      /\ \/ pc' \in {"resolve", "idle", "mode", "modules", "ids", "rules", "bind",
                   "release", "verify"}
         \/ result' = "applied"
  BY DEF Past, AfterResolve, AfterMode, AfterRules
<1> HIDE DEF Behind
<1>1. ASSUME NEW d \in Device, Resolve(d) PROVE Goal
  <2>1. /\ pc = "resolve" /\ asked' = asked
        /\ driver' = driver \/ Modprobe(chosen'[d])
    BY <1>1 DEF Resolve, Go, Stop
  <2> QED
    BY <1>a, <2>1 DEF Modprobe, ClaimedBy, DriverFor, IsVfio
<1>2. ASSUME NEW d \in Device, Bind(d) PROVE Goal
  <2>1. d \in Passthrough
    BY <1>2, <1>p DEF Bind, First, Resolved
  <2>2. IsVfio(Target(d))
    BY <1>2, <1>p, <2>1, DriverForTyped
    DEF Bind, Target, Resolved, IsResolved, Past, AfterResolve, AfterMode, AfterRules
  <2> QED
    BY <1>2, <1>a, <1>p, <2>2 DEF Bind, Go, Stop, ProvisionerTypeOK
<1>3. ASSUME NEW d \in Device, Release(d) PROVE Goal
  BY <1>3, <1>a, <1>p DEF Release, Go, ProvisionerTypeOK
<1>4. ASSUME NEW d \in Device, \/ VerifyIdle(d) \/ VerifyDevice(d)
                               \/ VmStart(d) \/ VmStop(d)
      PROVE  Goal
  BY <1>4, <1>a DEF VerifyIdle, VerifyDevice, VmStart, VmStop, Go, Stop
<1>5. ASSUME \/ Probe \/ ProbeUnreadable \/ EnterMode \/ LeaveMode \/ EnterRelease
             \/ EnterVerify \/ Finish
      PROVE  Goal
  BY <1>5, <1>a DEF Probe, ProbeUnreadable, EnterMode, LeaveMode, EnterRelease, EnterVerify, Finish, Go, Stop
<1>6. ASSUME ModeRuns \/ WriteIsLost \/ ModeFails \/ UNCHANGED vars PROVE Goal
  BY <1>6, <1>a DEF ModeRuns, WriteIsLost, ModeFails, vars
<1>7. ASSUME PersistModules \/ PersistIds \/ PersistRules PROVE Goal
  BY <1>7, <1>a DEF PersistModules, PersistIds, PersistRules, WriteFile, Go
<1>8. ~ \/ RemoveModules \/ RemoveIds \/ RemoveRules \/ Uninstall \/ Abort \/ NodeReboot
        \/ \E m \in Mode : Apply(m)
  BY <1>a, <1>p DEF RemoveModules, RemoveIds, RemoveRules, WriteFile, Uninstall, Begin,
     Abort, NodeReboot, Apply, Go, Stop, Resolved
<1> QED
  BY <1>1, <1>2, <1>3, <1>4, <1>5, <1>6, <1>7, <1>8
  DEF ProvisionerNext, RunStep, Environment, Behind

\* What the host check accepted stays so.
LEMMA AdmittedStep ==
  ASSUME TypeOK, Layers, [ProvisionerNext]_vars
  PROVE  Admitted'
<1> SUFFICES ASSUME Past({"resolve"} \cup AfterResolve)'
             PROVE  HostAccepts'
  BY DEF Admitted
<1>1. kind' = kind /\ host' = host
  BY RigidStep DEF Layers, ProvisionerTypeOK
<1>2. ASSUME asked' = asked, HostAccepts,
             \A d \in Device : \/ driver'[d] = driver[d]
                               \/ driver'[d] = "unbound"
                               \/ IsVfio(driver'[d])
      PROVE  HostAccepts'
  BY <1>1, <1>2, ScopeStays DEF HostAccepts, Capable, IsVfio, ConflictingDrivers
<1>3. CASE HostCheck
  <2>1. /\ HostAccepts
        /\ asked' = asked /\ driver' = driver
    BY <1>3 DEF HostCheck, Go, Stop, Past, AfterResolve, AfterMode, AfterRules, nodeVars
  <2> QED
    BY <1>2, <2>1
<1>4. CASE ~HostCheck
  BY <1>2, <1>4, Moves DEF Layers, Admitted
<1> QED
  BY <1>3, <1>4

-----------------------------------------------------------------------------
(* The mode stage and the VMs.                                             *)

\* Where VMs wait for the run to end, one that has a device open keeps it out
\* of every write and reset.
LEMMA UndisturbedStep ==
  ASSUME InductiveInvariant, Layers, Undisturbed, [ProvisionerNext]_vars
  PROVE  Undisturbed'
<1> SUFFICES ASSUME ~AdmitDuringRun, pc' \in {"idle", "mode"}
             PROVE  Undisturbed'
  BY DEF Undisturbed
<1> USE DEF modeVars, nodeVars, runVars
<1>p. ProvisionerTypeOK /\ Resolved /\ ModeDone /\ TypeOK /\ Planned
  BY DEF Layers, InductiveInvariant, Bookkeeping
<1>h. kind' = kind /\ Handles' = Handles
  BY <1>p, RigidStep, HandlesStay DEF ProvisionerTypeOK
<1>1. ASSUME Probe \/ ProbeUnreadable PROVE Undisturbed'
  <2>1. PICK unreadable : todo' = Writable(unreadable)
    BY <1>1 DEF Probe, ProbeUnreadable, Go
  <2>2. /\ pc' = "idle" /\ asked' = asked /\ held' = held
        /\ UNCHANGED <<reports, knob, active>>
    BY <1>1 DEF Probe, ProbeUnreadable, Go, hardware
  <2>3. \A d \in held \cap Handles : d \in todo' \/ WritesFor(Shown(d), asked) = <<>>
    <3> SUFFICES ASSUME NEW d \in held \cap Handles, d \notin Writable(unreadable)
                 PROVE  WritesFor(Shown(d), asked) = <<>>
      BY <2>1
    <3>1. d \in InScopeDevices /\ IsVfio(driver[d])
      BY <1>p DEF ProvisionerTypeOK, Handles, HasHandle, CcCapable, InScopeDevices, InScope
    <3> QED
      BY <3>1 DEF Writable
  <2>4. \A d : Shown(d)' = Shown(d)
    BY <2>2 DEF Shown
  <2> QED
    BY <1>h, <2>2, <2>3, <2>4 DEF Undisturbed
<1>2. ASSUME NEW d \in Device, VerifyIdle(d) PROVE Undisturbed'
  <2>1. /\ pc = "idle" /\ pc' = "idle" /\ d \notin held /\ todo' = todo \ {d}
        /\ asked' = asked /\ held' = held /\ UNCHANGED <<reports, knob, active>>
    BY <1>2 DEF VerifyIdle, Go, Stop
  <2>2. \A e : Shown(e)' = Shown(e)
    BY <2>1 DEF Shown
  <2> QED
    BY <1>h, <2>1, <2>2 DEF Undisturbed
<1>3. ASSUME EnterMode PROVE Undisturbed'
  <2>1. /\ pc = "idle" /\ todo = {} /\ pc' = "mode" /\ stage' = "open" /\ pending' = {}
        /\ asked' = asked /\ held' = held /\ UNCHANGED <<reports, knob, active>>
    BY <1>3 DEF EnterMode, Go, Start, NoLocals, hardware
  <2>2. \A e : Shown(e)' = Shown(e)
    BY <2>1 DEF Shown
  <2> QED
    BY <1>h, <2>1, <2>2 DEF Undisturbed
<1>4. ASSUME ModeRuns \/ WriteIsLost \/ ModeFails PROVE Undisturbed'
  <2>1. pc = "mode" /\ pc' = "mode" /\ asked' = asked /\ held' = held /\ mode = asked
    BY <1>4, <1>p DEF ModeRuns, WriteIsLost, ModeFails, ModeDone, Past
  <2>2. CASE \E d \in Device : Read(d)
    <3>1. PICK d \in Device : Read(d)
      BY <2>2
    <3>2. /\ stage = "read" /\ stage' = "read" /\ UNCHANGED <<reports, knob, active>>
          /\ plan'[d] = WritesFor(Shown(d), mode)
          /\ pending' = IF plan'[d] # <<>> THEN pending \cup {d} ELSE pending
          /\ d \in Handles
      BY <1>p, <3>1, TurnTaken DEF Read, hardware, TypeOK
    <3>3. \A e : Shown(e)' = Shown(e)
      BY <3>2 DEF Shown
    <3> QED
      BY <1>h, <2>1, <3>2, <3>3 DEF Undisturbed
  <2>3. CASE \E d \in Device : Open(d) \/ Verify(d) \/ Mismatch(d)
    <3>1. /\ UNCHANGED <<reports, knob, active>>
          /\ \/ stage' = stage /\ pending' = pending
             \/ stage' = "failed"
      BY <2>3 DEF Open, Verify, Mismatch, hardware
    <3>2. \A e : Shown(e)' = Shown(e)
      BY <3>1 DEF Shown
    <3> QED
      BY <1>h, <2>1, <3>1, <3>2 DEF Undisturbed
  <2>4. CASE \E d \in Device : WriteKnob(d) \/ WriteLost(d) \/ Reset(d)
    <3>1. stage \in {"write", "reset"} /\ stage' = stage /\ pending' = pending
      BY <2>4 DEF WriteKnob, WriteLost, Reset, Written
    <3> QED
      BY <2>1, <3>1 DEF Undisturbed
  <2>5. CASE NextLoop
    <3>1. /\ UNCHANGED <<reports, knob, active, pending>>
          /\ \/ stage = "open" /\ stage' = "read"
             \/ stage = "read" /\ stage' = "write"
             \/ stage = "write" /\ stage' = "reset"
             \/ stage' \notin {"open", "read", "write", "reset"}
      BY <1>p, <2>5, NextLoopCases
    <3>2. \A e : Shown(e)' = Shown(e)
      BY <3>1 DEF Shown
    <3>3. pending \subseteq Handles
      BY <1>p DEF TypeOK
    <3> QED
      BY <1>h, <2>1, <3>1, <3>2, <3>3 DEF Undisturbed
  <2>6. CASE Fail
    BY <2>1, <2>6 DEF Fail, Undisturbed
  <2> QED
    BY <1>4, <2>2, <2>3, <2>4, <2>5, <2>6 DEF ModeRuns, WriteIsLost, ModeFails, Step
<1>5. ASSUME NEW d \in Device, VmStart(d) \/ VmStop(d) PROVE Undisturbed'
  <2>1. /\ UNCHANGED <<modeVars, runVars>>
        /\ held' \subseteq held
    BY <1>5 DEF VmStart, VmStop
  <2>2. \A e : Shown(e)' = Shown(e)
    BY <2>1 DEF Shown
  <2> QED
    BY <1>h, <2>1, <2>2 DEF Undisturbed
<1>6. ASSUME UNCHANGED vars PROVE Undisturbed'
  <2>1. \A e : Shown(e)' = Shown(e)
    BY <1>6 DEF Shown, vars
  <2> QED
    BY <1>h, <1>6, <2>1 DEF Undisturbed, vars
<1>7. ~ \/ HostCheck \/ LeaveMode \/ PersistModules \/ PersistIds \/ PersistRules
        \/ EnterRelease \/ EnterVerify \/ Finish
        \/ RemoveModules \/ RemoveIds \/ RemoveRules
        \/ \E d \in Device : Resolve(d) \/ Bind(d) \/ Release(d) \/ VerifyDevice(d)
        \/ \E m \in Mode : Apply(m)
        \/ Uninstall \/ Abort \/ NodeReboot
  BY DEF HostCheck, LeaveMode, PersistModules, PersistIds, PersistRules, WriteFile,
     EnterRelease, EnterVerify, Finish, RemoveModules, RemoveIds, RemoveRules, Resolve,
     Bind, Release, VerifyDevice, Apply, Uninstall, Abort, NodeReboot, Go, Stop, Begin
<1> QED
  BY <1>1, <1>2, <1>3, <1>4, <1>5, <1>6, <1>7 DEF ProvisionerNext, RunStep, Environment

-----------------------------------------------------------------------------
(* The theorems.                                                           *)

LEMMA RunInit == ProvisionerInit => InductiveInvariant /\ Layers /\ Undisturbed
<1> SUFFICES ASSUME ProvisionerInit PROVE InductiveInvariant /\ Layers /\ Undisturbed
  OBVIOUS
<1>0. InductiveInvariant
  BY BookkeepingInit DEF ProvisionerInit, InductiveInvariant, Init, Synced, OnCourse,
     Verified, SuccessIsReported, Needed, ResetIsNeeded
<1>1. /\ pc = "stopped" /\ result = "none" /\ todo = {} /\ held = {} /\ asked = "off"
      /\ host \in Hosts /\ boot = NoBoot /\ loaded = {} /\ stage = "idle"
      /\ driver = [d \in Device |-> host.native[kind[d]]]
      /\ chosen = [d \in Device |-> "none"]
      /\ kind \in [Device -> Kind]
  BY BoardsAssumption DEF ProvisionerInit, Init
<1>2. \A d \in Device : host.native[kind[d]] \in Driver
  BY <1>1, HostTyped
<1>3. ProvisionerTypeOK
  BY <1>1, <1>2 DEF ProvisionerTypeOK, NoBoot, Mode, Stages, Running, Loops
<1>4. Resolved /\ Admitted /\ ModeDone /\ BootWritten /\ Bound /\ Undisturbed
  BY <1>1 DEF Resolved, Admitted, ModeDone, BootWritten, Bound, Undisturbed, Past,
     AfterResolve, AfterMode, AfterRules
<1> QED
  BY <1>0, <1>3, <1>4 DEF Layers

\* The invariant of the run is inductive together with the mode stage's own,
\* which therefore holds in every run as it holds of the stage by itself.
THEOREM LayersHold ==
  ProvisionerSpec => [](InductiveInvariant /\ Layers /\ Undisturbed)
<1>1. InductiveInvariant /\ Layers /\ Undisturbed /\ [ProvisionerNext]_vars
        => (InductiveInvariant /\ Layers /\ Undisturbed)'
  <2> SUFFICES ASSUME InductiveInvariant, Layers, Undisturbed,
                      [ProvisionerNext]_vars
               PROVE  InductiveInvariant' /\ Layers' /\ Undisturbed'
    OBVIOUS
  <2>1. TypeOK /\ Layers /\ ProvisionerTypeOK /\ Resolved /\ asked \in Mode
    BY DEF InductiveInvariant, Bookkeeping, Layers, ProvisionerTypeOK
  <2>2. InductiveInvariant'
    BY <2>1, StageStep, StageInvariantStep
  <2>3. Layers'
    BY <2>1, RunTypeStep, LayersStep, AdmittedStep DEF Layers
  <2> QED
    BY <2>2, <2>3, UndisturbedStep
<1> QED
  BY <1>1, RunInit, PTL DEF ProvisionerSpec

\* Every variable of a run keeps its type.
THEOREM ProvisionerTypeOKHolds == ProvisionerSpec => []ProvisionerTypeOK
<1>1. Layers => ProvisionerTypeOK
  BY DEF Layers
<1> QED
  BY <1>1, LayersHold, PTL

\* Ok from main::apply means the whole node: the bindings and the modes, for
\* every board and host, whatever failed or was lost on the way.
THEOREM SuccessIsWholeHolds == ProvisionerSpec => []SuccessIsWhole
<1>1. InductiveInvariant /\ Layers => SuccessIsWhole
  <2> SUFFICES ASSUME InductiveInvariant, Layers, result = "applied"
               PROVE  /\ \A d \in InScopeDevices :
                           IF d \in Passthrough
                           THEN driver[d] = Target(d) /\ IsVfio(driver[d])
                           ELSE ~IsVfio(driver[d])
                      /\ \A d \in Handles : Meets(Shown(d), asked)
    BY DEF SuccessIsWhole
  <2>1. /\ \A d \in Passthrough : driver[d] = Target(d) /\ chosen[d] \in Module
        /\ \A d \in InScopeDevices \ Passthrough : ~IsVfio(driver[d])
        /\ stage = "ok" /\ mode = asked
    BY DEF Layers, Resolved, IsResolved, ModeDone, Bound, Past
  <2>2. \A d \in Passthrough : IsVfio(Target(d))
    BY <2>1, DriverForTyped DEF Target
  <2>3. \A d \in Handles : Meets(Shown(d), asked)
    BY <2>1 DEF InductiveInvariant, Verified, SuccessIsReported
  <2> QED
    BY <2>1, <2>2, <2>3
<1> QED
  BY <1>1, LayersHold, PTL

\* Success labels every GPU with the mode the release asked for.
THEOREM LabelsNameTheModeHolds == ProvisionerSpec => []LabelsNameTheMode
<1>1. InductiveInvariant /\ Layers => LabelsNameTheMode
  <2> SUFFICES ASSUME InductiveInvariant, Layers, result = "applied",
                      NEW d \in InScopeDevices, CcCapable(kind[d])
               PROVE  CcLabelValues(kind[d], Shown(d))
                        = [mode |-> asked, ready |-> CcReady(asked)]
    BY DEF LabelsNameTheMode
  <2>1. d \in Device /\ d \in Handles
    BY DEF InScopeDevices, Handles, HasHandle
  <2>2. Meets(Shown(d), asked) /\ Capable /\ asked \in Mode
    BY <2>1 DEF InductiveInvariant, Verified, SuccessIsReported, Layers, ModeDone,
       Admitted, HostAccepts, Past, ProvisionerTypeOK
  <2>3. Shown(d) \in Knobs /\ Fits(Shown(d), kind[d])
    BY <2>1 DEF InductiveInvariant, Bookkeeping, TypeOK, KnobsAreSound, Shown
  <2>4. asked = "ppcie" => CarriesPpcie(kind[d])
    BY <2>1, <2>2 DEF Capable, VerifyCapable, CcReady, CcCapable
  <2>5. Provisioning(kind[d]) = "NvidiaInBandCc"
    BY DEF CcCapable
  <2> QED
    BY <2>2, <2>3, <2>4, <2>5 DEF CcLabelValues, Meets, Fits, Knobs, CcTarget, PpcieTarget,
       CcReady, Mode, CcMode, PpcieMode
<1> QED
  BY <1>1, LayersHold, PTL

\* Where a VM cannot open a device during a run, no device that is written or
\* reset is open in one.
THEOREM ResetOnlyIdleHolds == ProvisionerSpec => [](~AdmitDuringRun => ResetOnlyIdle)
<1>1. Undisturbed => (~AdmitDuringRun => ResetOnlyIdle)
  BY DEF Undisturbed, ResetOnlyIdle
<1> QED
  BY <1>1, LayersHold, PTL

\* The next boot binds what the run is about to bind, and nothing else: the
\* three files decide it by kind, and so did the run.
LEMMA FilesComeBack ==
  ASSUME InductiveInvariant, Layers
  PROVE  ComesBackBound
<1> SUFFICES ASSUME pc \in AfterRules \/ result = "applied",
                    NEW d \in InScopeDevices
             PROVE  IF d \in Passthrough THEN BootDriver(d) = Target(d)
                                         ELSE ~IsVfio(BootDriver(d))
  BY DEF ComesBackBound, AfterRules
<1>1. /\ boot.modules = BootModules /\ boot.ids = BootIds /\ boot.rules = BootRules
      /\ \A e \in Passthrough : IsResolved(e)
  BY DEF Layers, Resolved, BootWritten, Past, AfterResolve, AfterMode
<1>2. \A e \in Passthrough : e \in Device /\ (kind[e] = kind[d] => d \in Passthrough)
  BY DEF Passthrough, InScopeDevices
<1>3. d \in Device /\ kind[d] \in Kind /\ host \in Hosts
  BY DEF InScopeDevices, InductiveInvariant, Bookkeeping, TypeOK, Layers,
     ProvisionerTypeOK
<1>4. ~IsVfio(host.native[kind[d]])
  BY <1>3, HostTyped
<1>5. CASE d \notin Passthrough
  <2>1. \A module : <<kind[d], module>> \notin boot.rules
    BY <1>1, <1>2, <1>5 DEF BootRules
  <2>2. kind[d] \notin boot.ids
    BY <1>1, <1>2, <1>5 DEF BootIds
  <2> QED
    BY <1>4, <1>5, <2>1, <2>2 DEF BootDriver
<1>6. CASE d \in Passthrough
  <2>1. \A e \in Passthrough : kind[e] = kind[d] => chosen[e] = chosen[d]
    BY <1>1, <1>6 DEF IsResolved
  <2>2. \A module : <<kind[d], module>> \in boot.rules
                      <=> module = chosen[d] /\ NeedsDriverOverride(chosen[d])
    BY <1>1, <1>6, <2>1 DEF BootRules
  <2>3. chosen[d] \in Module
    BY <1>1, <1>6 DEF IsResolved
  <2>4. CASE NeedsDriverOverride(chosen[d])
    <3>1. (CHOOSE module \in Module : <<kind[d], module>> \in boot.rules) = chosen[d]
      BY <2>2, <2>3, <2>4
    <3> QED
      BY <1>6, <2>2, <2>3, <2>4, <3>1 DEF BootDriver, Target
  <2>5. CASE ~NeedsDriverOverride(chosen[d])
    <3>1. chosen[d] = "vfio_pci" /\ kind[d] \in boot.ids /\ "vfio_pci" \in boot.modules
      BY <1>1, <1>6, <2>5 DEF NeedsDriverOverride, BootIds, BootModules
    <3> QED
      BY <1>6, <2>2, <2>5, <3>1 DEF BootDriver, Target, DriverFor
  <2> QED
    BY <2>4, <2>5
<1> QED
  BY <1>5, <1>6

\* From the files on, a reboot brings back what the run chose.
THEOREM ComesBackBoundHolds == ProvisionerSpec => []ComesBackBound
BY FilesComeBack, LayersHold, PTL

\* After a successful uninstall a reboot hands every device back to the host.
THEOREM UninstallHandsBackHolds == ProvisionerSpec => []UninstallHandsBack
<1>1. Layers => UninstallHandsBack
  <2> SUFFICES ASSUME Layers, result = "uninstalled", NEW d \in Device
               PROVE  BootDriver(d) = host.native[kind[d]]
    BY DEF UninstallHandsBack
  <2>1. boot.ids = {} /\ boot.rules = {}
    BY DEF Layers, BootWritten, NoBoot
  <2> QED
    BY <2>1 DEF BootDriver
<1> QED
  BY <1>1, LayersHold, PTL

=============================================================================
