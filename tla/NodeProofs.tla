---- MODULE NodeProofs ----
(***************************************************************************)
(* What the owner of a node sees from one run to the next, for every set   *)
(* of devices, every board, host and kernel and any number of failures:    *)
(* refused runs, runs over a node already there, the status command, the   *)
(* promise of NodePromise, and changes of kernel.                          *)
(***************************************************************************)
EXTENDS KernelUpgrade, PromiseKept, StatusReport, ProvisionerProofs

USE BoundsAssumption, HostsAssumption, BoardsAssumption DEF BoundsAssumption

-----------------------------------------------------------------------------
(* Which steps move what.                                                  *)

\* The failures counted, and the writes lost, are never forgotten.
LEMMA CountersGrow ==
  ASSUME TypeOK, asked \in Mode, [ProvisionerNext]_vars
  PROVE  (faults' = 0 => faults = 0) /\ (lost' = 0 => lost = 0)
<1>1. CASE FaultCounted
  BY <1>1 DEF FaultCounted, TypeOK
<1>2. CASE [Next]_modeVars
  <2>1. faults' \in {faults, faults + 1} /\ lost' \in {lost, lost + 1}
    BY <1>2 DEF modeVars, Next, Start, Step, Open, Read, WriteKnob, Reset, Verify,
       Mismatch, NextLoop, WriteLost, Fail, Reboot
  <2>2. faults \in 0..MaxFaults /\ lost \in 0..MaxLost
    BY DEF TypeOK
  <2> QED
    BY <2>1, <2>2
<1> QED
  BY <1>1, <1>2, StageStep

\* Only an apply records what it finds; the record stays or goes.
LEMMA Recorded ==
  ASSUME [ProvisionerNext]_vars
  PROVE  \/ \E m \in Mode : Apply(m)
         \/ before' = before /\ asked' = asked
         \/ before' = {} /\ asked' = asked
<1> USE DEF runVars
<1>1. CASE \/ HostCheck \/ LeaveMode \/ Finish \/ RemoveRules \/ Abort \/ NodeReboot
           \/ \E d \in Device : \/ Resolve(d) \/ VerifyIdle(d) \/ Bind(d) \/ VerifyDevice(d)
  BY <1>1 DEF HostCheck, LeaveMode, Finish, RemoveRules, Abort, NodeReboot, Resolve,
     VerifyIdle, Bind, VerifyDevice, Go, Stop
<1>2. CASE \/ Probe \/ EnterMode \/ PersistModules \/ PersistIds \/ PersistRules
           \/ EnterRelease \/ EnterVerify \/ RemoveModules \/ RemoveIds
           \/ ProbeUnreadable \/ \E d \in Device : Release(d)
  BY <1>2 DEF Probe, EnterMode, PersistModules, PersistIds, PersistRules, WriteFile,
     EnterRelease, EnterVerify, RemoveModules, RemoveIds, Release, ProbeUnreadable, Go
<1>3. CASE \/ ModeRuns \/ WriteIsLost \/ ModeFails \/ Uninstall
           \/ \E d \in Device : VmStart(d) \/ VmStop(d)
           \/ UNCHANGED vars
  BY <1>3 DEF ModeRuns, WriteIsLost, ModeFails, Uninstall, VmStart, VmStop, vars
<1> QED
  BY <1>1, <1>2, <1>3 DEF ProvisionerNext, RunStep, Environment

\* Only the writers of the boot files, and a crash in one of them, move them.
LEMMA FilesMove ==
  ASSUME ProvisionerTypeOK, [ProvisionerNext]_vars
  PROVE  \/ boot' = boot
         \/ pc = "ids" /\ boot'.ids = BootIds /\ boot'.rules = boot.rules
         \/ pc = "rules" /\ boot'.ids = boot.ids /\ boot'.rules = BootRules
         \/ boot'.ids \in {boot.ids, {}} /\ boot'.rules \in {boot.rules, {}}
<1> USE DEF nodeVars, ProvisionerTypeOK
<1>1. CASE PersistModules \/ PersistIds \/ PersistRules
  BY <1>1 DEF PersistModules, PersistIds, PersistRules, WriteFile
<1>2. CASE RemoveModules \/ RemoveIds \/ RemoveRules
  BY <1>2 DEF RemoveModules, RemoveIds, RemoveRules, WriteFile
<1>3. CASE Abort
  BY <1>3 DEF Abort, Torn
<1>4. CASE \/ HostCheck \/ Probe \/ EnterMode \/ ModeRuns \/ LeaveMode \/ EnterRelease
           \/ EnterVerify \/ Finish \/ Uninstall \/ WriteIsLost \/ ModeFails \/ NodeReboot
           \/ (\E m \in Mode : Apply(m)) \/ UNCHANGED vars
  BY <1>4 DEF HostCheck, Probe, EnterMode, ModeRuns, LeaveMode, EnterRelease, EnterVerify,
     Finish, Uninstall, Begin, WriteIsLost, ModeFails, NodeReboot, Apply, vars
<1>5. CASE ProbeUnreadable \/ \E d \in Device :
             \/ Resolve(d) \/ VerifyIdle(d) \/ Bind(d) \/ Release(d)
             \/ VerifyDevice(d) \/ VmStart(d) \/ VmStop(d)
  BY <1>5 DEF Resolve, VerifyIdle, Bind, Release, VerifyDevice, ProbeUnreadable, VmStart,
     VmStop
<1> QED
  BY <1>1, <1>2, <1>3, <1>4, <1>5 DEF ProvisionerNext, RunStep, Environment

\* The files stay about kinds in scope and the modules resolved for them.
LEMMA FilesFitStep ==
  ASSUME TypeOK, Layers, FilesFit, [ProvisionerNext]_vars
  PROVE  FilesFit'
<1> DEFINE Fit(files) ==
      /\ \A k \in files.ids : InScope(k) /\ ResolveModule(host.alias, k) = "vfio_pci"
      /\ \A rule \in files.rules : InScope(rule[1])
<1>1. host' = host
  BY RigidStep DEF Layers, ProvisionerTypeOK
<1>2. Fit(boot) /\ \A b \in before : Fit(b.boot)
  BY DEF FilesFit
<1>3. pc \in {"ids", "rules"} =>
        \A d \in Passthrough : /\ InScope(kind[d])
                               /\ chosen[d] = ResolveModule(host.alias, kind[d])
                               /\ chosen[d] \in Module
  BY DEF Layers, Resolved, Past, AfterResolve, AfterMode, IsResolved, Passthrough,
     InPassthrough
<1>4. Fit(boot')
  <2>1. pc = "ids" => \A k \in BootIds :
          InScope(k) /\ ResolveModule(host.alias, k) = "vfio_pci"
    BY <1>3 DEF BootIds, NeedsDriverOverride
  <2>2. pc = "rules" => \A rule \in BootRules : InScope(rule[1])
    BY <1>3 DEF BootRules
  <2> QED
    BY <1>2, <2>1, <2>2, FilesMove DEF Layers
<1>5. \A b \in before' : b \in before \/ b.boot = boot
  BY Recorded DEF Apply, Snapshot
<1> QED
  BY <1>1, <1>2, <1>4, <1>5 DEF FilesFit

-----------------------------------------------------------------------------
(* A run that is refused.                                                  *)

\* What a run knows of the node as it found it, where nothing of it moves.
LEMMA LeftAsFound ==
  ASSUME NEW b, UNCHANGED <<kind, knob, active, driver, boot>>
  PROVE  /\ LeftAlone(b)' <=> LeftAlone(b)
         /\ \A d : AsFound(b, d)' <=> AsFound(b, d)
BY DEF LeftAlone, AsFound

\* A stage of the run with no failure to blame does not fail.
LEMMA StageIsSound ==
  ASSUME InductiveInvariant, NothingYet, [ProvisionerNext]_vars, asked \in Mode,
         faults' = 0, lost' = 0, pc' = "mode"
  PROVE  stage' # "failed"
<1>1. faults = 0 /\ lost = 0 /\ TypeOK
  BY CountersGrow DEF InductiveInvariant, Bookkeeping
<1>2. CASE ModeRuns
  <2>1. stage # "failed" /\ Step
    BY <1>1, <1>2 DEF NothingYet, ModeRuns
  <2>2. CASE NextLoop
    BY <1>1, <2>2, NextLoopCases
  <2>3. CASE \E d \in Device : Open(d) \/ Read(d) \/ WriteKnob(d) \/ Reset(d) \/ Verify(d)
    BY <2>1, <2>3 DEF Open, Read, WriteKnob, Reset, Verify
  <2>4. ASSUME NEW d \in Device, Mismatch(d) PROVE FALSE
    <3>1. stage = "verify" /\ d \in Handles /\ ~Meets(Shown(d), mode)
      BY <1>1, <2>4, TurnTaken DEF Mismatch
    <3>2. Meets(knob[d], mode) /\ knob[d] = active[d]
      BY <1>1, <2>4, <3>1 DEF InductiveInvariant, OnCourse, Synced
    <3> QED
      BY <3>1, <3>2 DEF Shown
  <2> QED
    BY <2>1, <2>2, <2>3, <2>4 DEF Step
<1>3. CASE EnterMode
  BY <1>3 DEF EnterMode, Start
<1>4. ~(WriteIsLost \/ ModeFails \/ Abort \/ ProbeUnreadable)
  BY <1>1 DEF WriteIsLost, WriteLost, ModeFails, Fail, Abort, ProbeUnreadable
<1>5. CASE (\E d \in Device : VmStart(d) \/ VmStop(d)) \/ UNCHANGED vars
  BY <1>1, <1>5 DEF VmStart, VmStop, vars, runVars, modeVars, NothingYet
<1>6. ~ \/ HostCheck \/ Probe \/ LeaveMode \/ PersistModules \/ PersistIds \/ PersistRules
        \/ EnterRelease \/ EnterVerify \/ Finish \/ RemoveModules \/ RemoveIds
        \/ RemoveRules \/ Uninstall \/ NodeReboot
        \/ \E m \in Mode : Apply(m)
        \/ \E d \in Device : Resolve(d) \/ VerifyIdle(d) \/ Bind(d) \/ Release(d)
                               \/ VerifyDevice(d)
  BY DEF HostCheck, Probe, LeaveMode, PersistModules, PersistIds, PersistRules, WriteFile,
     EnterRelease, EnterVerify, Finish, RemoveModules, RemoveIds, RemoveRules, Uninstall,
     Begin, NodeReboot, Apply, Resolve, VerifyIdle, Bind, Release, VerifyDevice, Go, Stop
<1> QED
  BY <1>2, <1>3, <1>4, <1>5, <1>6 DEF ProvisionerNext, RunStep, Environment

\* A run with nothing to blame leaves the node alone up to the mode stage and
\* the bindings alone up to the bindings: one case per action.
LEMMA NothingYetStep ==
  ASSUME InductiveInvariant, Layers, FilesFit, NothingYet, [ProvisionerNext]_vars
  PROVE  NothingYet'
<1> USE DEF modeVars, hardware, nodeVars, runVars
<1>p. TypeOK /\ ProvisionerTypeOK /\ Resolved /\ ModeDone /\ BootWritten /\ Bound
  BY DEF InductiveInvariant, Bookkeeping, Layers
<1>q. pc # "stopped" => result = "none"
  BY <1>p DEF Resolved
<1> SUFFICES ASSUME faults' = 0, lost' = 0, NEW b \in before'
             PROVE  AsYet(b)'
  BY <1>p, StageIsSound DEF NothingYet, ProvisionerTypeOK
<1>z. faults = 0 /\ lost = 0
  BY <1>p, CountersGrow DEF ProvisionerTypeOK
<1>1. ASSUME NEW m \in Mode, Apply(m) PROVE AsYet(b)'
  BY <1>1 DEF Apply, Begin, Snapshot, AsYet, LeftAlone, AsFound
<1>b. CASE b \in before /\ ~\E m \in Mode : Apply(m)
  <2>a. AsYet(b) /\ kind' = kind
    BY <1>b, <1>p, <1>z, RigidStep DEF NothingYet, ProvisionerTypeOK
  <2>1. CASE HostCheck \/ Probe \/ \E d \in Device : VerifyIdle(d)
    <3>1. /\ pc \in {"host", "resolve", "idle"}
          /\ pc' \in {"resolve", "idle", "stopped"}
          /\ UNCHANGED <<kind, knob, active, driver, boot>>
      BY <2>1 DEF HostCheck, Probe, VerifyIdle, Go, Stop
    <3> QED
      BY <2>a, <3>1, LeftAsFound DEF AsYet
  <2>2. ASSUME NEW d \in Device, Resolve(d) PROVE AsYet(b)'
    <3>1. /\ pc = "resolve" /\ pc' \in {"resolve", "stopped"}
          /\ UNCHANGED <<kind, knob, active, boot>>
          /\ driver' = driver \/ Modprobe(chosen'[d])
      BY <2>2 DEF Resolve, Go, Stop
    <3>2. LeftAlone(b)
      BY <2>a, <3>1 DEF AsYet
    <3>3. \A e \in Device : AsFound(b, e)'
      BY <3>1, <3>2 DEF LeftAlone, AsFound, Modprobe, ClaimedBy, DriverFor
    <3> QED
      BY <3>1, <3>2, <3>3 DEF AsYet, LeftAlone
  <2>3. CASE EnterMode \/ ModeRuns
    <3>1. /\ pc \in {"idle", "mode"} /\ pc' = "mode" /\ result' = "none"
          /\ driver' = driver
      BY <2>3, <1>q DEF EnterMode, ModeRuns, Go
    <3> QED
      BY <2>a, <3>1 DEF AsYet, LeftAlone, AsFound
  <2>4. CASE LeaveMode
    <3>1. pc = "mode" /\ pc' = "modules" /\ result' = "none" /\ driver' = driver
      BY <2>4, <1>q, <1>z DEF LeaveMode, Go, NothingYet
    <3> QED
      BY <2>a, <3>1 DEF AsYet, AsFound
  <2>5. CASE PersistModules \/ PersistIds \/ PersistRules
    <3>1. /\ pc \in {"modules", "ids", "rules"} /\ pc' \in {"ids", "rules", "bind"}
          /\ result' = "none" /\ driver' = driver
          /\ pc' = "bind" => todo' = Passthrough
      BY <2>5, <1>q DEF PersistModules, PersistIds, PersistRules, WriteFile, Go
    <3>2. \A d \in Device : AsFound(b, d)'
      BY <2>a, <3>1 DEF AsYet, AsFound
    <3> QED
      BY <3>1, <3>2, ScopeTyped DEF AsYet
  <2>6. ASSUME NEW d \in Device, Bind(d) PROVE AsYet(b)'
    <3>1. pc = "bind" /\ d \in todo /\ \A e \in todo : AsFound(b, e)
      BY <2>6, <2>a DEF Bind, First, AsYet
    <3>2. CASE Bindable(d)
      <4>1. /\ pc' = "bind" /\ todo' = todo \ {d} /\ result' = "none"
            /\ \A e \in Device : e # d => driver'[e] = driver[e]
        BY <2>6, <3>2, <1>p, <1>q DEF Bind, Go, ProvisionerTypeOK
      <4>2. todo \subseteq Device
        BY <1>p, ScopeTyped DEF ProvisionerTypeOK
      <4> QED
        BY <2>a, <3>1, <4>1, <4>2 DEF AsYet, AsFound
    <3>3. CASE ~Bindable(d)
      <4>1. /\ pc' = "stopped" /\ UNCHANGED <<kind, reports, knob, active, driver, boot>>
            /\ UNCHANGED <<asked, chosen, host>>
        BY <2>6, <3>3 DEF Bind, Stop
      <4>2. d \in Passthrough /\ IsResolved(d)
        BY <1>p, <3>1 DEF Resolved, Past, AfterResolve, AfterMode, AfterRules
      <4>3. boot = [modules |-> BootModules, ids |-> BootIds, rules |-> BootRules]
        BY <1>p, <3>1 DEF BootWritten, Past, AfterRules, ProvisionerTypeOK
      <4>4. \A e \in Handles : Meets(Shown(e), asked)
        BY <1>p, <3>1 DEF ModeDone, Past, AfterMode, AfterRules, InductiveInvariant,
           Verified, SuccessIsReported
      <4>5. driver[d] = b.driver[d]
        <5>1. kind[d] \in b.boot.ids => chosen[d] = "vfio_pci"
          BY <1>b, <4>2 DEF FilesFit, IsResolved
        <5> QED
          BY <3>1, <3>3, <5>1 DEF AsFound, Bindable, Target, DriverFor
      <4>6. StoppedByDriver(b)
        BY <3>3, <4>2, <4>3, <4>4, <4>5 DEF StoppedByDriver, Bindable
      <4>7. StoppedByDriver(b)'
        <5>1. /\ Passthrough' = Passthrough /\ BootModules' = BootModules
              /\ BootIds' = BootIds /\ BootRules' = BootRules
              /\ \A e : Target(e)' = Target(e)
          BY <4>1, ChoicesStay
        <5>2. Handles' = Handles /\ \A e : Shown(e)' = Shown(e)
          BY <4>1, HandlesStay DEF Shown
        <5> QED
          BY <4>1, <4>6, <5>1, <5>2 DEF StoppedByDriver
      <4> QED
        BY <4>1, <4>7 DEF AsYet
    <3> QED
      BY <3>2, <3>3
  <2>7. CASE EnterRelease \/ EnterVerify \/ RemoveModules \/ RemoveIds
             \/ \E d \in Device : Release(d)
    <3>1. pc' \in {"release", "verify", "rmIds", "rmRules"} /\ result' = "none"
      BY <2>7, <1>q DEF EnterRelease, EnterVerify, RemoveModules, RemoveIds, WriteFile,
         Release, Go
    <3> QED
      BY <3>1 DEF AsYet
  <2>8. ASSUME NEW d \in Device, VerifyDevice(d) PROVE AsYet(b)'
    <3>1. pc = "verify" /\ d \in todo /\ d \in Passthrough
      BY <2>8, <1>p DEF VerifyDevice, First, Resolved
    <3>2. driver[d] = Target(d)
      BY <3>1, <1>p DEF Bound, Past
    <3>3. HasHandle(kind[d]) => Meets(Shown(d), asked)
      BY <2>8, <3>1, <1>p DEF ModeDone, Past, AfterMode, AfterRules, InductiveInvariant,
         Verified, SuccessIsReported, Handles
    <3>4. pc' = "verify" /\ result' = "none"
      BY <2>8, <3>2, <3>3, <1>q DEF VerifyDevice, Go
    <3> QED
      BY <3>4 DEF AsYet
  <2>9. ~(Finish \/ RemoveRules \/ Uninstall \/ NodeReboot)
    BY DEF Finish, RemoveRules, Uninstall, NodeReboot, Stop
  <2>10. ~(WriteIsLost \/ ModeFails \/ Abort \/ ProbeUnreadable)
    BY <1>z DEF WriteIsLost, WriteLost, ModeFails, Fail, Abort, ProbeUnreadable
  <2>11. CASE (\E d \in Device : VmStart(d) \/ VmStop(d)) \/ UNCHANGED vars
    <3>1. UNCHANGED <<modeVars, host, driver, boot, runVars>>
      BY <2>11 DEF VmStart, VmStop, vars
    <3>2. \A d : AsFound(b, d)' <=> AsFound(b, d)
      BY <3>1 DEF AsFound
    <3>3. StoppedByDriver(b) => StoppedByDriver(b)'
      <4>1. /\ Passthrough' = Passthrough /\ BootModules' = BootModules
            /\ BootIds' = BootIds /\ BootRules' = BootRules
            /\ \A e : Target(e)' = Target(e)
        BY <3>1, ChoicesStay
      <4>2. Handles' = Handles /\ \A e : Shown(e)' = Shown(e)
        BY <3>1, HandlesStay DEF Shown
      <4> QED
        BY <3>1, <4>1, <4>2 DEF StoppedByDriver
    <3>4. LeftAlone(b)' <=> LeftAlone(b)
      BY <3>1, <3>2 DEF LeftAlone
    <3> QED
      BY <2>a, <3>1, <3>2, <3>3, <3>4 DEF AsYet
  <2> QED
    BY <1>b, <2>1, <2>2, <2>3, <2>4, <2>5, <2>6, <2>7, <2>8, <2>9, <2>10, <2>11
    DEF ProvisionerNext, RunStep, Environment
<1> QED
  BY <1>1, <1>b, Recorded

-----------------------------------------------------------------------------
(* A run over a node that is already there.                                *)

\* A successful run leaves the node in place for the mode it was asked for.
LEMMA AppliedInPlace ==
  ASSUME InductiveInvariant, Layers, result = "applied"
  PROVE  InPlace
<1>1. /\ HostAccepts /\ stage = "ok" /\ mode = asked
      /\ boot.ids = BootIds
      /\ \A d \in Passthrough : IsResolved(d) /\ driver[d] = Target(d)
      /\ \A d \in InScopeDevices \ Passthrough : ~IsVfio(driver[d])
  BY DEF Layers, Resolved, Admitted, ModeDone, BootWritten, Bound, Past
<1>2. \A d \in Passthrough : /\ driver[d] = DriverFor(ResolveModule(host.alias, kind[d]))
                             /\ IsVfio(driver[d])
  BY <1>1, DriverForTyped DEF IsResolved, Target
<1>3. \A d \in Handles : Meets(Shown(d), asked)
  BY <1>1 DEF InductiveInvariant, Verified, SuccessIsReported
<1>4. \A d \in Device : kind[d] \in boot.ids => d \in Passthrough
  BY <1>1 DEF BootIds, Passthrough
<1> QED
  BY <1>1, <1>2, <1>3, <1>4 DEF InPlace

\* It stays in place as long as its modes do, no device leaves its vfio driver
\* and vfio-pci gets no ids but those of the devices for passthrough.
LEMMA InPlaceStays ==
  ASSUME InPlace, UNCHANGED <<kind, reports, knob, active, host, asked>>,
         \A d \in Device : \/ driver'[d] = driver[d]
                           \/ d \notin Passthrough /\ driver'[d] = "unbound",
         \A d \in Device : kind[d] \in boot'.ids => kind[d] \in boot.ids \/ d \in Passthrough
  PROVE  InPlace'
<1>1. /\ InScopeDevices' = InScopeDevices /\ Passthrough' = Passthrough
      /\ Handles' = Handles /\ \A d : Shown(d)' = Shown(d)
  BY ScopeStays, HandlesStay DEF Shown
<1>2. HostAccepts'
  BY <1>1 DEF InPlace, HostAccepts, Capable, ConflictingDrivers
<1>3. \A d \in InScopeDevices : d \in Device
  BY ScopeTyped
<1>4. ~IsVfio("unbound")
  BY DEF IsVfio
<1> QED
  BY <1>1, <1>2, <1>3, <1>4 DEF InPlace

\* The mode stage of such a run plans nothing, so it writes and resets nothing
\* and has nothing to reject.
LEMMA SettledStage ==
  ASSUME InductiveInvariant, Layers, InPlace, pc = "mode", pending = {}, Step
  PROVE  /\ UNCHANGED <<kind, reports, knob, active, faults>>
         /\ pending' = {}
         /\ stage # "failed" => stage' # "failed"
<1> USE DEF hardware
<1>1. TypeOK /\ Planned /\ asked \in Mode /\ mode = asked
  BY DEF InductiveInvariant, Bookkeeping, Layers, ProvisionerTypeOK, ModeDone, Past
<1>2. \A d \in Handles : Meets(Shown(d), mode) /\ WritesFor(Shown(d), mode) = <<>>
  <2> SUFFICES ASSUME NEW d \in Handles
               PROVE  Meets(Shown(d), mode) /\ WritesFor(Shown(d), mode) = <<>>
    OBVIOUS
  <2>1. Meets(Shown(d), mode)
    BY <1>1 DEF InPlace
  <2>2. Shown(d) \in Knobs
    BY <1>1 DEF TypeOK, Shown, Handles
  <2> QED
    BY <1>1, <2>1, <2>2, PlanReachesMode
<1>3. ASSUME NEW d \in Device, Open(d) \/ Verify(d)
      PROVE  UNCHANGED <<kind, reports, knob, active, faults, pending, stage>>
  BY <1>3 DEF Open, Verify
<1>4. ASSUME NEW d \in Device, Read(d)
      PROVE  UNCHANGED <<kind, reports, knob, active, faults, pending, stage>>
  <2>1. plan'[d] = <<>>
    BY <1>1, <1>2, <1>4, TurnTaken DEF Read, TypeOK
  <2> QED
    BY <1>4, <2>1 DEF Read
<1>5. ASSUME NEW d \in Device
      PROVE  ~(WriteKnob(d) \/ Reset(d))
  BY <1>1 DEF WriteKnob, Written, Reset, First, Planned
<1>6. ASSUME NEW d \in Device
      PROVE  ~Mismatch(d)
  BY <1>1, <1>2, TurnTaken DEF Mismatch
<1>7. CASE NextLoop
  BY <1>1, <1>7, NextLoopCases
<1> QED
  BY <1>3, <1>4, <1>5, <1>6, <1>7 DEF Step

\* A run over such a node leaves it so: one case per action.
LEMMA SettledStep ==
  ASSUME InductiveInvariant, Layers, Settled, [ProvisionerNext]_vars
  PROVE  Settled'
<1> USE DEF modeVars, hardware, nodeVars, runVars
<1>p. TypeOK /\ ProvisionerTypeOK /\ Resolved /\ ModeDone /\ BootWritten /\ Bound
  BY DEF InductiveInvariant, Bookkeeping, Layers
<1>r. kind' = kind /\ host' = host
  BY <1>p, RigidStep DEF ProvisionerTypeOK
<1>q. pc # "stopped" => result = "none"
  BY <1>p DEF Resolved
<1> SUFFICES ASSUME NEW b \in before', b.converged
             PROVE  /\ pc' # "stopped" => InPlace'
                    /\ pc' = "mode" => pending' = {}
                    /\ faults' = 0 => /\ result' # "failed"
                                      /\ pc' = "idle" => todo' = {}
                                      /\ pc' = "mode" => stage' # "failed"
  BY DEF Settled
<1> DEFINE Goal == /\ pc' # "stopped" => InPlace'
                   /\ pc' = "mode" => pending' = {}
                   /\ faults' = 0 => /\ result' # "failed"
                                     /\ pc' = "idle" => todo' = {}
                                     /\ pc' = "mode" => stage' # "failed"
<1>1. ASSUME NEW m \in Mode, Apply(m) PROVE Goal
  <2>1. result = "applied" /\ asked = m
    <3>1. b = [knob |-> knob, active |-> active, driver |-> driver, boot |-> boot,
               converged |-> result = "applied" /\ asked = m]
      BY <1>1 DEF Apply, Snapshot
    <3>2. b.converged = (result = "applied" /\ asked = m)
      BY <3>1, Zenon
    <3> QED
      BY <3>2
  <2>2. InPlace'
    <3>1. /\ UNCHANGED <<kind, reports, knob, active, host, asked>>
          /\ driver' = driver /\ boot' = boot
      BY <1>1, <2>1 DEF Apply, Begin
    <3> QED
      BY <2>1, <3>1, AppliedInPlace, InPlaceStays
  <2> QED
    BY <1>1, <2>2 DEF Apply, Begin
<1>b. CASE b \in before /\ ~\E m \in Mode : Apply(m)
  <2>a. /\ pc # "stopped" => InPlace
        /\ pc = "mode" => pending = {}
        /\ faults = 0 => /\ result # "failed"
                         /\ pc = "idle" => todo = {}
                         /\ pc = "mode" => stage # "failed"
    BY <1>b DEF Settled
  <2>s. ASSUME pc # "stopped", UNCHANGED <<modeVars, driver, boot, asked>>
        PROVE  InPlace'
    BY <1>r, <2>a, <2>s, InPlaceStays
  <2>1. CASE HostCheck
    <3>1. pc = "host" /\ pc' = "resolve" /\ result' = "none"
      BY <2>1, <1>q, <2>a DEF HostCheck, Go, InPlace
    <3>2. InPlace'
      BY <2>1, <2>s DEF HostCheck, Go, Stop
    <3> QED
      BY <3>1, <3>2
  <2>2. ASSUME NEW d \in Device, Resolve(d) PROVE Goal
    <3>1. pc = "resolve" /\ d \in Passthrough /\ InPlace
      BY <2>2, <1>p, <2>a DEF Resolve, First, Resolved
    <3>2. chosen'[d] = ResolveModule(host.alias, kind[d])
      BY <2>2, <1>p DEF Resolve, ProvisionerTypeOK
    <3>3. chosen'[d] # "none"
      BY <3>1, <3>2, ScopeTyped DEF InPlace, DriverFor, IsVfio
    <3>4. /\ pc' = "resolve" /\ result' = "none" /\ asked' = asked
          /\ Modprobe(chosen'[d]) /\ UNCHANGED <<modeVars, boot>>
      BY <2>2, <3>3, <1>q DEF Resolve, Go
    <3>5. \A e \in Device : driver'[e] = driver[e]
      BY <3>1, <3>4, ScopeTyped DEF Modprobe, ClaimedBy, InPlace, IsVfio
    <3>6. InPlace'
      BY <3>1, <3>4, <3>5, <1>r, InPlaceStays
    <3> QED
      BY <3>4, <3>6
  <2>3. CASE Probe
    <3>1. pc = "resolve" /\ todo = {} /\ InPlace
      BY <2>3, <2>a DEF Probe
    <3>2. \A d \in Passthrough : driver[d] = Target(d)
      BY <3>1, <1>p, ScopeTyped DEF Resolved, IsResolved, Target, InPlace
    <3>3. \A d \in Passthrough : WritesFor(Shown(d), asked) = <<>>
      <4> SUFFICES ASSUME NEW d \in Passthrough
                   PROVE  WritesFor(Shown(d), asked) = <<>>
        OBVIOUS
      <4>1. /\ d \in Device /\ Shown(d) \in Knobs /\ Fits(Shown(d), kind[d])
            /\ kind[d] \in Kind
        BY ScopeTyped DEF InductiveInvariant, Bookkeeping, TypeOK, KnobsAreSound, Shown
      <4>2. Meets(Shown(d), asked)
        <5>1. CASE d \in Handles
          BY <3>1, <5>1 DEF InPlace
        <5>2. CASE d \notin Handles
          BY <4>1, <5>2 DEF Handles, HasHandle, Fits, CarriesPpcie, CcCapable, HasChip,
             SupportsPpcie, Meets
        <5> QED
          BY <5>1, <5>2
      <4> QED
        BY <4>1, <4>2, <1>p, PlanReachesMode DEF ProvisionerTypeOK
    <3>4. Writable({}) = {}
      BY <3>1, <3>2, <3>3 DEF Writable, InPlace
    <3>5. InPlace'
      BY <2>3, <3>1, <2>s DEF Probe, Go
    <3> QED
      BY <2>3, <3>1, <3>4, <3>5, <1>q DEF Probe, Go
  <2>4. ASSUME ProbeUnreadable PROVE Goal
    <3>1. /\ pc = "resolve" /\ pc' = "idle" /\ asked' = asked
          /\ UNCHANGED <<reports, knob, active, driver, boot>>
          /\ faults' # 0
      BY <2>4, <1>p DEF ProbeUnreadable, Go, TypeOK
    <3>2. InPlace'
      BY <1>r, <2>a, <3>1, InPlaceStays
    <3> QED
      BY <3>1, <3>2
  <2>5. ASSUME NEW d \in Device, VerifyIdle(d) PROVE Goal
    <3>1. pc = "idle" /\ todo # {} /\ faults' = faults
      BY <2>5 DEF VerifyIdle, First
    <3>2. pc' # "stopped" => InPlace'
      BY <2>5, <3>1, <2>s DEF VerifyIdle, Go, Stop
    <3>3. pc' \in {"idle", "stopped"}
      BY <2>5 DEF VerifyIdle, Go, Stop
    <3> QED
      BY <2>a, <3>1, <3>2, <3>3
  <2>6. CASE EnterMode
    <3>1. /\ pc = "idle" /\ pc' = "mode" /\ result' = "none" /\ asked' = asked
          /\ stage' = "open" /\ pending' = {}
          /\ UNCHANGED <<reports, knob, active, driver, boot>>
      BY <2>6, <1>q DEF EnterMode, Go, Start, NoLocals
    <3>2. InPlace'
      BY <1>r, <2>a, <3>1, InPlaceStays
    <3> QED
      BY <3>1, <3>2
  <2>7. CASE ModeRuns
    <3>1. pc = "mode" /\ InPlace /\ pending = {} /\ Step /\ UNCHANGED <<nodeVars, runVars>>
      BY <2>7, <2>a DEF ModeRuns
    <3>2. /\ UNCHANGED <<kind, reports, knob, active, faults>>
          /\ pending' = {}
          /\ stage # "failed" => stage' # "failed"
      BY <3>1, SettledStage
    <3>3. InPlace'
      BY <1>r, <3>1, <3>2, InPlaceStays
    <3> QED
      BY <2>a, <3>1, <3>2, <3>3, <1>q
  <2>8. ~WriteIsLost
    BY <2>a, <1>p DEF WriteIsLost, WriteLost, Written, First, InductiveInvariant,
       Bookkeeping, Planned
  <2>9. CASE ModeFails
    <3>1. /\ pc = "mode" /\ pc' = "mode" /\ asked' = asked /\ pending' = {} /\ faults' # 0
          /\ UNCHANGED <<reports, knob, active, driver, boot>>
      BY <2>9, <1>p DEF ModeFails, Fail, NoLocals, TypeOK
    <3>2. InPlace'
      BY <1>r, <2>a, <3>1, InPlaceStays
    <3> QED
      BY <3>1, <3>2
  <2>10. CASE LeaveMode
    <3>1. /\ pc = "mode" /\ pc' \in {"modules", "stopped"} /\ faults' = faults
          /\ pc' = "stopped" => stage = "failed"
          /\ pc' = "modules" => result' = "none" /\ asked' = asked
          /\ UNCHANGED <<modeVars, driver, boot>>
      BY <2>10, <1>q DEF LeaveMode, Go, Stop
    <3> QED
      BY <2>a, <2>s, <3>1
  <2>11. CASE PersistModules \/ PersistIds \/ PersistRules \/ RemoveModules \/ RemoveIds
    <3>1. /\ pc # "stopped" /\ pc' \notin {"stopped", "mode", "idle"} /\ result' = "none"
          /\ UNCHANGED <<modeVars, driver, asked>>
          /\ boot' \in {[boot EXCEPT !.modules = BootModules], [boot EXCEPT !.ids = BootIds],
                        [boot EXCEPT !.rules = BootRules], [boot EXCEPT !.modules = {}],
                        [boot EXCEPT !.ids = {}]}
      BY <2>11, <1>q DEF PersistModules, PersistIds, PersistRules, RemoveModules,
         RemoveIds, WriteFile, Go
    <3>2. \A d \in Device : kind[d] \in BootIds => d \in Passthrough
      BY DEF BootIds, Passthrough
    <3>3. boot'.ids \in {boot.ids, BootIds, {}}
      BY <3>1, <1>p DEF ProvisionerTypeOK
    <3>4. InPlace'
      BY <1>r, <2>a, <3>1, <3>2, <3>3, InPlaceStays
    <3> QED
      BY <3>1, <3>4
  <2>12. ASSUME NEW d \in Device, Bind(d) PROVE Goal
    <3>1. pc = "bind" /\ d \in Passthrough /\ InPlace
      BY <2>12, <2>a, <1>p DEF Bind, First, Resolved
    <3>2. driver[d] = Target(d)
      BY <3>1, <1>p, ScopeTyped
      DEF InPlace, Resolved, Past, AfterResolve, AfterMode, AfterRules, IsResolved, Target
    <3>3. /\ pc' = "bind" /\ result' = "none" /\ asked' = asked
          /\ \A e \in Device : driver'[e] = driver[e]
          /\ UNCHANGED <<modeVars, boot>>
      BY <2>12, <3>2, <1>p, <1>q DEF Bind, Bindable, Go, ProvisionerTypeOK
    <3>4. InPlace'
      BY <1>r, <3>1, <3>3, InPlaceStays
    <3> QED
      BY <3>3, <3>4
  <2>13. CASE EnterRelease \/ EnterVerify
    <3>1. /\ pc # "stopped" /\ pc' \in {"release", "verify"} /\ result' = "none"
          /\ UNCHANGED <<modeVars, driver, boot, asked>>
      BY <2>13, <1>q DEF EnterRelease, EnterVerify, Go
    <3> QED
      BY <2>s, <3>1
  <2>14. ASSUME NEW d \in Device, Release(d) PROVE Goal
    <3>1. /\ pc = "release" /\ d \notin Passthrough /\ pc' = "release" /\ result' = "none"
          /\ asked' = asked /\ UNCHANGED <<modeVars, boot>>
          /\ \A e \in Device : e # d => driver'[e] = driver[e]
          /\ driver'[d] = "unbound"
      BY <2>14, <1>p, <1>q DEF Release, First, Go, Bound, ProvisionerTypeOK
    <3>2. InPlace'
      BY <1>r, <2>a, <3>1, InPlaceStays
    <3> QED
      BY <3>1, <3>2
  <2>15. ASSUME NEW d \in Device, VerifyDevice(d) PROVE Goal
    <3>1. pc = "verify" /\ d \in todo /\ d \in Passthrough /\ InPlace
      BY <2>15, <2>a, <1>p DEF VerifyDevice, First, Resolved
    <3>2. driver[d] = Target(d)
      BY <3>1, <1>p DEF Bound, Past
    <3>3. HasHandle(kind[d]) => Meets(Shown(d), asked)
      BY <2>15, <3>1 DEF InPlace, Handles
    <3>4. /\ pc' = "verify" /\ result' = "none" /\ UNCHANGED <<modeVars, driver, boot, asked>>
      BY <2>15, <3>2, <3>3, <1>q DEF VerifyDevice, Go
    <3> QED
      BY <2>s, <3>1, <3>4
  <2>16. CASE Abort
    BY <2>16, <1>p DEF Abort, Stop, TypeOK
  <2>17. ~(Finish \/ RemoveRules \/ Uninstall \/ NodeReboot)
    BY DEF Finish, RemoveRules, Uninstall, NodeReboot, Stop
  <2>18. CASE (\E d \in Device : VmStart(d) \/ VmStop(d)) \/ UNCHANGED vars
    <3>1. UNCHANGED <<modeVars, host, driver, boot, runVars>>
      BY <2>18 DEF VmStart, VmStop, vars
    <3> QED
      BY <2>a, <2>s, <3>1
  <2> QED
    BY <1>b, <2>1, <2>2, <2>3, <2>4, <2>5, <2>6, <2>7, <2>8, <2>9, <2>10, <2>11, <2>12,
       <2>13, <2>14, <2>15, <2>16, <2>17, <2>18
    DEF ProvisionerNext, RunStep, Environment
<1> QED
  BY <1>1, <1>b, Recorded

-----------------------------------------------------------------------------
(* The theorems about runs.                                                *)

\* The invariant of a run is inductive as a whole.
THEOREM RunInvariantHolds == ProvisionerSpec => [](InductiveInvariant /\ RunInvariant)
<1>1. ProvisionerInit => FilesFit /\ NothingYet /\ Settled
  BY DEF ProvisionerInit, FilesFit, NothingYet, Settled, NoBoot
<1>2. /\ InductiveInvariant /\ Layers /\ FilesFit /\ NothingYet /\ Settled
      /\ [ProvisionerNext]_vars
      => (FilesFit /\ NothingYet /\ Settled)'
  BY FilesFitStep, NothingYetStep, SettledStep DEF InductiveInvariant, Bookkeeping
<1>3. Layers /\ Undisturbed /\ FilesFit /\ NothingYet /\ Settled => RunInvariant
  BY DEF RunInvariant
<1> QED
  BY <1>1, <1>2, <1>3, LayersHold, PTL DEF ProvisionerSpec

\* A run that fails with nothing to blame left modes and boot files as it found
\* them, or got through all of both and was stopped by a foreign driver.
THEOREM RefusedWholeHolds == ProvisionerSpec => []RefusedWhole
<1>1. RunInvariant => RefusedWhole
  BY DEF RunInvariant, NothingYet, AsYet, RefusedWhole
<1> QED
  BY <1>1, RunInvariantHolds, PTL

\* A run over a node that is already there neither fails nor touches a mode.
THEOREM ConvergedRunIsHarmlessHolds == ProvisionerSpec => []ConvergedRunIsHarmless
<1>1. RunInvariant => ConvergedRunIsHarmless
  BY DEF RunInvariant, Settled, ConvergedRunIsHarmless
<1> QED
  BY <1>1, RunInvariantHolds, PTL

\* What status prints after a successful run is the mode the run was asked for,
\* whichever devices it fails to read.
THEOREM StatusAgreesWithRunHolds == ProvisionerSpec => []StatusAgreesWithRun
<1>1. InductiveInvariant /\ Layers /\ LabelsNameTheMode => StatusAgreesWithRun
  <2> SUFFICES ASSUME InductiveInvariant, Layers, LabelsNameTheMode, result = "applied"
               PROVE  StatusAgreesWithRun
    BY DEF StatusAgreesWithRun
  <2>1. /\ HostAccepts /\ asked \in Mode
        /\ \A d \in Handles : Meets(Shown(d), asked)
    BY DEF Layers, ProvisionerTypeOK, Admitted, ModeDone, Past, InductiveInvariant,
       Verified, SuccessIsReported
  <2>2. StatusAnswers(TRUE, FALSE)
    BY <2>1 DEF StatusAnswers, HostAccepts
  <2>3. ASSUME NEW unread \in SUBSET Handles, NEW d \in Listed(FALSE)
        PROVE  LET c == Columns(d, TRUE, unread)
                   v == WouldLabel(d, TRUE, unread)
               IN  /\ c.cc \in {CcTarget(asked), "n/a"}
                        \/ (c.cc = "unreadable" /\ d \in unread)
                   /\ c.ppcie \in {PpcieTarget(asked), "n/a"}
                        \/ (c.ppcie = "unreadable" /\ d \in unread)
                   /\ d \in Handles \ unread /\ CcCapable(kind[d]) =>
                        v = [mode |-> asked, ready |-> CcReady(asked)]
                   /\ d \in unread => v.mode = "none" /\ ~v.ready
    <3> DEFINE seen == Probed(d, unread)
               c == Columns(d, TRUE, unread)
               v == WouldLabel(d, TRUE, unread)
    <3> SUFFICES /\ c.cc \in {CcTarget(asked), "n/a"} \/ (c.cc = "unreadable" /\ d \in unread)
                 /\ \/ c.ppcie \in {PpcieTarget(asked), "n/a"}
                    \/ c.ppcie = "unreadable" /\ d \in unread
                 /\ d \in Handles \ unread /\ CcCapable(kind[d]) =>
                      v = [mode |-> asked, ready |-> CcReady(asked)]
                 /\ d \in unread => v.mode = "none" /\ ~v.ready
      BY Zenon
    <3>1. d \in Device /\ d \in InScopeDevices
      BY <2>3 DEF Listed, InScopeDevices
    <3>2. /\ c.cc = Column(seen.cc, HasChip(kind[d]), TRUE)
          /\ c.ppcie = Column(seen.ppcie, CarriesPpcie(kind[d]), TRUE)
          /\ v = CcLabelValues(kind[d], seen)
      BY DEF Columns, WouldLabel
    <3>3. HasChip(kind[d]) => Provisioning(kind[d]) = "NvidiaInBandCc"
      BY DEF HasChip, Provisioning
    <3>4. CASE d \in Handles \ unread
      <4>1. /\ seen = Shown(d) /\ Fits(seen, kind[d]) /\ Meets(seen, asked)
        BY <2>1, <3>1, <3>4
        DEF Probed, InductiveInvariant, Bookkeeping, KnobsAreSound, Shown
      <4> HIDE DEF seen
      <4>2. Column(seen.cc, HasChip(kind[d]), TRUE) \in {CcTarget(asked), "n/a"}
        BY <3>3, <4>1 DEF Column, Fits, Meets, CcCapable
      <4>3. Column(seen.ppcie, CarriesPpcie(kind[d]), TRUE) \in {PpcieTarget(asked), "n/a"}
        BY <4>1 DEF Column, Fits, Meets
      <4>4. CcCapable(kind[d]) =>
              CcLabelValues(kind[d], seen) = [mode |-> asked, ready |-> CcReady(asked)]
        BY <3>1, <4>1 DEF LabelsNameTheMode
      <4> HIDE DEF c, v
      <4> QED
        BY <3>2, <3>4, <4>2, <4>3, <4>4
    <3>5. CASE d \notin Handles \ unread
      <4>1. seen = [cc |-> "none", ppcie |-> "none"]
        BY <3>5 DEF Probed
      <4>2. d \notin unread => ~HasChip(kind[d]) /\ ~CarriesPpcie(kind[d])
        BY <3>1, <3>3, <3>5
        DEF Handles, HasHandle, CcCapable, CarriesPpcie, SupportsPpcie, HasChip
      <4>3. /\ Column(seen.cc, HasChip(kind[d]), TRUE)
                 = IF HasChip(kind[d]) THEN "unreadable" ELSE "n/a"
            /\ Column(seen.ppcie, CarriesPpcie(kind[d]), TRUE)
                 = IF CarriesPpcie(kind[d]) THEN "unreadable" ELSE "n/a"
        BY <4>1 DEF Column
      <4>4. v.mode = "none" /\ ~v.ready
        <5>1. seen.cc = "none" /\ seen.ppcie = "none"
          BY <4>1
        <5> HIDE DEF seen, v
        <5>2. \/ v = [mode |-> "none", ready |-> FALSE]
              \/ v = [mode |-> seen.cc, ready |-> seen.cc \notin {"none", "off"}]
          BY <3>2, <5>1 DEF CcLabelValues
        <5>3. ~(seen.cc \notin {"none", "off"})
          BY <5>1
        <5>4. v.mode = "none" \/ v.mode = seen.cc
          BY <5>2
        <5>5. v.ready = FALSE \/ v.ready = (seen.cc \notin {"none", "off"})
          <6>1. CASE v = [mode |-> "none", ready |-> FALSE]
            BY <6>1
          <6>2. CASE v = [mode |-> seen.cc, ready |-> seen.cc \notin {"none", "off"}]
            <7>1. v.ready = (seen.cc \notin {"none", "off"})
              BY <6>2, Zenon
            <7> QED
              BY <7>1
          <6> QED
            BY <5>2, <6>1, <6>2
        <5> QED
          BY <5>1, <5>3, <5>4, <5>5
      <4> HIDE DEF seen, c, v
      <4> QED
        BY <3>2, <3>5, <4>2, <4>3, <4>4
    <3> QED
      BY <3>4, <3>5
  <2> QED
    BY <2>2, <2>3 DEF StatusAgreesWithRun
<1> QED
  BY <1>1, LayersHold, LabelsNameTheModeHolds, PTL

-----------------------------------------------------------------------------
(* The promise to the owner of the node, kept step by step.                *)

\* What the owner sees of a device.
View(d) == <<WhereIs(d), ModesOf(d, Shown(d)), ModesOf(d, active[d])>>

\* What the promise calls rigid is what a device is and the host has for it.
LEMMA RigidView ==
  ASSUME UNCHANGED <<kind, host>>
  PROVE  UNCHANGED Promise!rigid
BY DEF Promise!rigid, InScopeDevices, WhereHome

\* The owner sees nothing of a step that moves no driver and no mode.
LEMMA ViewStays ==
  ASSUME UNCHANGED <<kind, reports, knob, active>>,
         \A d \in Device : driver'[d] = driver[d]
  PROVE  \A d \in Device : View(d)' = View(d)
BY DEF View, WhereIs, ModesOf, Shown

LEMMA DevicesStay ==
  ASSUME \A d \in Device : View(d)' = View(d)
  PROVE  UNCHANGED Promise!devices
<1>1. \A d \in Device : /\ WhereIs(d)' = WhereIs(d)
                        /\ ModesOf(d, Shown(d))' = ModesOf(d, Shown(d))
                        /\ ModesOf(d, active[d])' = ModesOf(d, active[d])
  BY DEF View
<1> QED
  BY <1>1, Zenon DEF Promise!devices

\* A run in progress is not an outcome.
LEMMA Outcomes ==
  ASSUME ProvisionerTypeOK
  PROVE  /\ pc = "stopped" => /\ Outcome = result
                              /\ Outcome \notin {"running", "settled", "removing"}
         /\ pc # "stopped" => Outcome \in {"running", "settled", "removing"}
         /\ Outcome = "removing" <=> pc \in {"rmModules", "rmIds", "rmRules"}
         /\ Outcome = "settled" => \E b \in before : b.converged
         /\ pc # "stopped" /\ pc' # "stopped" /\ before' = before
              /\ (pc' \in {"rmModules", "rmIds", "rmRules"} <=> Outcome = "removing")
              => Outcome' = Outcome
BY DEF Outcome, ProvisionerTypeOK

\* A step inside a run: devices in scope and not in use may change.
LEMMA Changes ==
  ASSUME UNCHANGED <<kind, host, held, asked>>, Outcome' = Outcome,
         \A d \in Device :
           \/ d \in InScopeDevices \ held /\ Outcome = "running"
           \/ View(d)' = View(d)
  PROVE  [Promise!PromiseNext]_(Promise!promiseVars)
<1>1. CASE Outcome = "running"
  <2>1. \A d \in Device : WhereIs(d)' \in {"host", "vfio"}
    BY DEF WhereIs
  <2>2. \A d \in Device : /\ ModesOf(d, Shown(d))' \in SUBSET Mode
                          /\ ModesOf(d, active[d])' \in SUBSET Mode
    BY DEF ModesOf
  <2>3. \A d \in Device : (d \notin InScopeDevices \/ d \in held) =>
           /\ WhereIs(d)' = WhereIs(d)
           /\ ModesOf(d, Shown(d))' = ModesOf(d, Shown(d))
           /\ ModesOf(d, active[d])' = ModesOf(d, active[d])
    BY DEF View
  <2>4. Promise!Change
    BY <1>1, <2>1, <2>2, <2>3, RigidView DEF Promise!Change, Promise!Place
  <2> QED
    BY <2>4 DEF Promise!PromiseNext
<1>2. CASE Outcome # "running"
  BY <1>2, RigidView, DevicesStay DEF Promise!promiseVars
<1> QED
  BY <1>1, <1>2

\* A run that ends with an error.
LEMMA GivesUp ==
  ASSUME ProvisionerTypeOK, pc # "stopped", Stop("failed"),
         UNCHANGED <<kind, reports, knob, active, host, driver, held>>
  PROVE  Promise!PromiseNext
<1>1. Outcome' = "failed" /\ asked' = asked
  BY DEF Stop, Outcome
<1>2. Promise!GiveUp
  BY <1>1, Outcomes, RigidView, ViewStays, DevicesStay DEF Promise!GiveUp
<1> QED
  BY <1>2 DEF Promise!PromiseNext

\* What modprobe claims is in scope, out of use and, on a node in place, nothing.
LEMMA Claims ==
  ASSUME ProvisionerTypeOK, FilesFit, NEW module, NEW d \in ClaimedBy(module)
  PROVE  /\ d \in InScopeDevices /\ d \notin held
         /\ ~InPlace
<1>1. d \in Device /\ driver[d] = "unbound" /\ kind[d] \in boot.ids
  BY DEF ClaimedBy
<1>2. d \in InScopeDevices
  BY <1>1 DEF FilesFit, InScopeDevices
<1>3. d \notin held
  BY <1>1 DEF ProvisionerTypeOK, IsVfio
<1>4. ~InPlace
  BY <1>1, ScopeTyped DEF InPlace, IsVfio
<1> QED
  BY <1>2, <1>3, <1>4

\* The steps inside a run that may change a device.
LEMMA ChangesAllowed ==
  ASSUME InductiveInvariant, RunInvariant, ~AdmitDuringRun,
         \/ ModeRuns \/ WriteIsLost \/ ModeFails
         \/ \E d \in Device : Resolve(d) \/ Bind(d) \/ Release(d)
  PROVE  [Promise!PromiseNext]_(Promise!promiseVars)
<1> USE DEF hardware, nodeVars, runVars
<1>p. /\ TypeOK /\ Planned /\ ProvisionerTypeOK /\ Resolved /\ Bound /\ ModeDone
      /\ Undisturbed /\ FilesFit /\ Layers /\ Settled
  BY DEF InductiveInvariant, Bookkeeping, RunInvariant, Layers
<1>i. pc # "stopped" /\ Outcome = "settled" => InPlace /\ (pc = "mode" => pending = {})
  BY <1>p, Outcomes DEF Settled
<1>h. \A d \in Handles : d \in InScopeDevices
  BY DEF Handles, HasHandle, CcCapable, InScopeDevices, InScope
<1>1. ASSUME NEW d \in Device, Resolve(d)
      PROVE  [Promise!PromiseNext]_(Promise!promiseVars)
  <2>1. CASE chosen'[d] = "none"
    <3>1. /\ pc # "stopped" /\ Stop("failed")
          /\ UNCHANGED <<kind, reports, knob, active, host, driver, held>>
      BY <1>1, <2>1 DEF Resolve, modeVars
    <3> QED
      BY <1>p, <3>1, GivesUp
  <2>2. CASE chosen'[d] # "none"
    <3>1. /\ pc = "resolve" /\ pc' = "resolve" /\ before' = before
          /\ UNCHANGED <<kind, reports, knob, active, host, held, asked>>
          /\ \A e \in Device : driver'[e] = driver[e] \/ e \in ClaimedBy(chosen'[d])
      BY <1>1, <2>2 DEF Resolve, Go, Modprobe, modeVars
    <3>2. Outcome \in {"running", "settled"} /\ Outcome' = Outcome
      BY <1>p, <3>1, Outcomes
    <3>3. \A e \in ClaimedBy(chosen'[d]) :
            e \in InScopeDevices \ held /\ Outcome = "running"
      BY <1>p, <1>i, <3>1, <3>2, Claims
    <3>4. \A e \in Device : driver'[e] = driver[e] => View(e)' = View(e)
      BY <3>1 DEF View, WhereIs, ModesOf, Shown
    <3> QED
      BY <3>1, <3>2, <3>3, <3>4, Changes
  <2> QED
    BY <2>1, <2>2
<1>2. ASSUME NEW d \in Device, Bind(d)
      PROVE  [Promise!PromiseNext]_(Promise!promiseVars)
  <2>1. d \in Passthrough /\ pc = "bind"
    BY <1>2, <1>p DEF Bind, First, Resolved
  <2>2. CASE ~Bindable(d)
    <3>1. /\ pc # "stopped" /\ Stop("failed")
          /\ UNCHANGED <<kind, reports, knob, active, host, driver, held>>
      BY <1>2, <2>2 DEF Bind, modeVars
    <3> QED
      BY <1>p, <3>1, GivesUp
  <2>3. CASE Bindable(d)
    <3>1. /\ pc' = "bind" /\ before' = before
          /\ UNCHANGED <<kind, reports, knob, active, host, held, asked>>
          /\ \A e \in Device : e # d => driver'[e] = driver[e]
          /\ driver'[d] = Target(d)
      BY <1>2, <2>3, <1>p DEF Bind, Go, modeVars, ProvisionerTypeOK
    <3>2. Outcome \in {"running", "settled"} /\ Outcome' = Outcome
      BY <1>p, <2>1, <3>1, Outcomes
    <3>3. \A e \in Device : driver'[e] = driver[e] => View(e)' = View(e)
      BY <3>1 DEF View, WhereIs, ModesOf, Shown
    <3>4. d \in held => driver'[d] = driver[d]
      BY <1>p, <2>3, <3>1 DEF ProvisionerTypeOK, Bindable, IsVfio
    <3>5. Outcome = "settled" => driver'[d] = driver[d]
      <4>1. IsResolved(d)
        BY <1>p, <2>1 DEF Resolved, Past, AfterResolve, AfterMode, AfterRules
      <4> QED
        BY <1>i, <2>1, <3>1, <4>1, ScopeTyped DEF InPlace, IsResolved, Target
    <3>6. d \in InScopeDevices
      BY <2>1, ScopeTyped
    <3> QED
      BY <3>1, <3>2, <3>3, <3>4, <3>5, <3>6, Changes
  <2> QED
    BY <2>2, <2>3
<1>3. ASSUME NEW d \in Device, Release(d)
      PROVE  [Promise!PromiseNext]_(Promise!promiseVars)
  <2>1. /\ pc = "release" /\ pc' = "release" /\ before' = before
        /\ UNCHANGED <<kind, reports, knob, active, host, held, asked>>
        /\ d \in InScopeDevices \ held /\ d \notin Passthrough
        /\ \A e \in Device : e # d => driver'[e] = driver[e]
        /\ driver'[d] = "unbound"
    BY <1>3, <1>p DEF Release, First, Go, modeVars, ProvisionerTypeOK, Bound
  <2>2. Outcome \in {"running", "settled"} /\ Outcome' = Outcome
    BY <1>p, <2>1, Outcomes
  <2>3. \A e \in Device : driver'[e] = driver[e] => View(e)' = View(e)
    BY <2>1 DEF View, WhereIs, ModesOf, Shown
  <2>4. Outcome = "settled" => View(d)' = View(d)
    <3>1. Outcome = "settled" => ~IsVfio(driver[d])
      BY <1>i, <2>1 DEF InPlace
    <3> QED
      BY <2>1, <3>1 DEF View, WhereIs, ModesOf, Shown, IsVfio
  <2> QED
    BY <2>1, <2>2, <2>3, <2>4, Changes
<1>4. CASE ModeRuns \/ WriteIsLost \/ ModeFails
  <2>1. /\ pc = "mode" /\ UNCHANGED <<nodeVars, runVars>>
        /\ Step \/ Fail \/ \E d \in Device : WriteLost(d)
    BY <1>4 DEF ModeRuns, WriteIsLost, ModeFails
  <2>2. UNCHANGED <<kind, host, held, asked, driver, reports>>
    BY <2>1 DEF Step, Open, Read, WriteKnob, Reset, Verify, Mismatch, NextLoop, Fail,
       WriteLost
  <2>3. Outcome \in {"running", "settled"} /\ Outcome' = Outcome
    BY <1>p, <2>1, Outcomes
  <2>4. ASSUME NEW d \in Device,
               <<knob'[d], active'[d]>> # <<knob[d], active[d]>>
        PROVE  d \in left /\ stage \in {"write", "reset"}
    BY <1>p, <2>1, <2>4 DEF Step, Open, Read, WriteKnob, Written, Reset, Verify, Mismatch,
       NextLoop, Fail, WriteLost, First, TypeOK
  <2>5. ASSUME NEW d \in Device,
               <<knob'[d], active'[d]>> # <<knob[d], active[d]>>
        PROVE  d \in InScopeDevices \ held /\ Outcome = "running"
    <3>1. d \in pending /\ d \in Handles
      BY <1>p, <2>4, <2>5 DEF Planned, TypeOK
    <3> QED
      BY <1>p, <1>i, <1>h, <2>1, <2>3, <2>4, <2>5, <3>1 DEF Undisturbed
  <2>6. \A d \in Device : <<knob'[d], active'[d]>> = <<knob[d], active[d]>>
                            => View(d)' = View(d)
    BY <2>2 DEF View, WhereIs, ModesOf, Shown
  <2> QED
    BY <2>2, <2>3, <2>5, <2>6, Changes
<1> QED
  BY <1>1, <1>2, <1>3, <1>4

\* A reboot: what was applied stays, what was uninstalled is handed back, and
\* what was never the provisioner's is where the host puts it.
LEMMA Restarts ==
  ASSUME InductiveInvariant, RunInvariant, reports = "knob", NodeReboot,
         ComesBackBound, SuccessIsWhole, UninstallHandsBack
  PROVE  Promise!Restart
<1>p. /\ TypeOK /\ ProvisionerTypeOK /\ FilesFit
  BY DEF InductiveInvariant, Bookkeeping, RunInvariant, Layers
<1>1. /\ UNCHANGED <<kind, reports, knob, host, asked>>
      /\ active' = knob /\ held' = {} /\ Outcome' = "none"
      /\ \A d \in Device : driver'[d] = BootDriver(d)
  BY DEF NodeReboot, Reboot, Stop, Outcome
<1>2. \A d \in Device : WhereIs(d)' \in {"host", "vfio"}
  BY DEF WhereIs
<1>3. \A d \in Device \ InScopeDevices : BootDriver(d) = host.native[kind[d]]
  <2> SUFFICES ASSUME NEW d \in Device \ InScopeDevices
               PROVE  BootDriver(d) = host.native[kind[d]]
    OBVIOUS
  <2>1. ~InScope(kind[d])
    BY DEF InScopeDevices
  <2>2. kind[d] \notin boot.ids
    BY <1>p, <2>1 DEF FilesFit
  <2>3. \A module : <<kind[d], module>> \notin boot.rules
    <3> SUFFICES ASSUME NEW module, <<kind[d], module>> \in boot.rules
                 PROVE  FALSE
      OBVIOUS
    <3>1. InScope(<<kind[d], module>>[1])
      BY <1>p DEF FilesFit
    <3> QED
      BY <2>1, <3>1
  <2> QED
    BY <2>2, <2>3 DEF BootDriver
<1>4. \A d \in Device : BootDriver(d) = host.native[kind[d]] => WhereIs(d)' = WhereHome(d)
  BY <1>1 DEF WhereIs, WhereHome
<1>5. Outcome = "applied" => \A d \in InScopeDevices : WhereIs(d)' = WhereIs(d)
  <2> SUFFICES ASSUME Outcome = "applied", NEW d \in InScopeDevices
               PROVE  WhereIs(d)' = WhereIs(d)
    OBVIOUS
  <2>1. result = "applied" /\ d \in Device
    BY <1>p, Outcomes, ScopeTyped
  <2> QED
    BY <1>1, <2>1 DEF ComesBackBound, SuccessIsWhole, WhereIs
<1>6. Outcome = "uninstalled" => \A d \in Device : WhereIs(d)' = WhereHome(d)
  <2> SUFFICES ASSUME Outcome = "uninstalled"
               PROVE  \A d \in Device : WhereIs(d)' = WhereHome(d)
    OBVIOUS
  <2>1. result = "uninstalled"
    BY <1>p, Outcomes
  <2> QED
    BY <1>4, <2>1 DEF UninstallHandsBack
<1>7. \A d \in Device : /\ ModesOf(d, Shown(d))' = ModesOf(d, Shown(d))
                        /\ ModesOf(d, active[d])' = ModesOf(d, Shown(d))
  BY <1>1 DEF ModesOf, Shown
<1> DEFINE place == [d \in Device |-> WhereIs(d)]
           home == [d \in Device |-> WhereHome(d)]
           shown == [d \in Device |-> ModesOf(d, Shown(d))]
           behaves == [d \in Device |-> ModesOf(d, active[d])]
<1>8. /\ place' \in Promise!Place
      /\ \A d \in Device \ InScopeDevices : place'[d] = home[d]
      /\ Outcome = "applied" => \A d \in InScopeDevices : place'[d] = place[d]
      /\ Outcome = "uninstalled" => place' = home
  BY <1>1, <1>2, <1>3, <1>4, <1>5, <1>6, ScopeTyped DEF Promise!Place
<1>9. behaves' = shown /\ shown' = shown
  BY <1>7, Zenon
<1>10. UNCHANGED Promise!rigid
  BY <1>1, RigidView
<1> QED
  BY <1>1, <1>8, <1>9, <1>10, Zenon DEF Promise!Restart

\* Every step of the provisioner is one the promise allows, or one its owner
\* does not see.
LEMMA PromiseStep ==
  ASSUME InductiveInvariant, RunInvariant, reports = "knob", ~AdmitDuringRun,
         ComesBackBound, SuccessIsWhole, UninstallHandsBack, [ProvisionerNext]_vars
  PROVE  [Promise!PromiseNext]_(Promise!promiseVars)
<1> USE DEF modeVars, hardware, nodeVars, runVars
<1>p. ProvisionerTypeOK /\ Resolved /\ ModeDone /\ Bound
  BY DEF RunInvariant, Layers
<1>1. ASSUME NEW m \in Mode, Apply(m) PROVE Promise!PromiseNext
  <2>1. /\ pc = "stopped" /\ asked' = m
        /\ UNCHANGED <<kind, reports, knob, active, host, driver, held>>
    BY <1>1 DEF Apply, Begin
  <2>2. Outcome' = IF Outcome = "applied" /\ asked = m THEN "settled" ELSE "running"
    <3>1. pc' = "host" /\ before' = Snapshot(m)
      BY <1>1 DEF Apply, Begin
    <3>2. (\E b \in Snapshot(m) : b.converged) <=> (result = "applied" /\ asked = m)
      <4>1. \A b \in Snapshot(m) : b.converged = (result = "applied" /\ asked = m)
        <5> SUFFICES ASSUME NEW b \in Snapshot(m)
                     PROVE  b.converged = (result = "applied" /\ asked = m)
          OBVIOUS
        <5>1. b = [knob |-> knob, active |-> active, driver |-> driver, boot |-> boot,
                   converged |-> result = "applied" /\ asked = m]
          BY DEF Snapshot
        <5> QED
          BY <5>1, Zenon
      <4>2. \E b : b \in Snapshot(m)
        BY Zenon DEF Snapshot
      <4> QED
        BY <4>1, <4>2
    <3>3. Outcome' = IF \E b \in Snapshot(m) : b.converged THEN "settled" ELSE "running"
      BY <3>1 DEF Outcome
    <3> HIDE DEF Outcome
    <3> QED
      BY <1>p, <2>1, <3>2, <3>3, Outcomes
  <2>3. Promise!Ask(m)
    BY <1>p, <2>1, <2>2, Outcomes, RigidView, ViewStays, DevicesStay DEF Promise!Ask
  <2> QED
    BY <2>3 DEF Promise!PromiseNext
<1>2. CASE Uninstall
  <2>1. /\ pc = "stopped" /\ asked' = asked /\ Outcome' = "removing"
        /\ UNCHANGED <<kind, reports, knob, active, host, driver, held>>
    BY <1>2 DEF Uninstall, Begin, Outcome
  <2>2. Promise!AskRemoval
    BY <1>p, <2>1, Outcomes, RigidView, ViewStays, DevicesStay DEF Promise!AskRemoval
  <2> QED
    BY <2>2 DEF Promise!PromiseNext
<1>3. CASE RemoveRules
  <2>1. /\ pc = "rmRules" /\ asked' = asked /\ Outcome' = "uninstalled"
        /\ UNCHANGED <<kind, reports, knob, active, host, driver, held>>
    BY <1>3 DEF RemoveRules, Stop, Outcome
  <2>2. Promise!Removed
    BY <1>p, <2>1, Outcomes, RigidView, ViewStays, DevicesStay DEF Promise!Removed
  <2> QED
    BY <2>2 DEF Promise!PromiseNext
<1>4. CASE \/ HostCheck \/ LeaveMode \/ Abort
           \/ \E d \in Device : VerifyIdle(d) \/ VerifyDevice(d)
  <2>1. /\ pc # "stopped" /\ UNCHANGED <<kind, reports, knob, active, host, driver, held>>
        /\ \/ Stop("failed")
           \/ /\ pc \notin {"rmModules", "rmIds", "rmRules"}
              /\ pc' \notin {"stopped", "rmModules", "rmIds", "rmRules"}
              /\ before' = before /\ asked' = asked
    BY <1>4 DEF HostCheck, LeaveMode, Abort, VerifyIdle, VerifyDevice, Go
  <2>2. CASE Stop("failed")
    BY <1>p, <2>1, <2>2, GivesUp
  <2>3. CASE ~Stop("failed")
    BY <1>p, <2>1, <2>3, Outcomes, ViewStays, Changes
  <2> QED
    BY <2>2, <2>3
<1>5. CASE \/ Probe \/ EnterMode \/ PersistModules \/ PersistIds \/ PersistRules
           \/ EnterRelease \/ EnterVerify \/ RemoveModules \/ RemoveIds
           \/ ProbeUnreadable
  <2>1. /\ pc # "stopped" /\ pc' # "stopped" /\ before' = before /\ asked' = asked
        /\ pc' \in {"rmModules", "rmIds", "rmRules"}
             <=> pc \in {"rmModules", "rmIds", "rmRules"}
        /\ UNCHANGED <<kind, reports, knob, active, host, driver, held>>
    BY <1>5 DEF Probe, EnterMode, Start, PersistModules, PersistIds, PersistRules, WriteFile,
       EnterRelease, EnterVerify, RemoveModules, RemoveIds, ProbeUnreadable, Go
  <2> QED
    BY <1>p, <2>1, Outcomes, ViewStays, Changes
<1>6. CASE Finish
  <2>1. /\ pc = "verify" /\ todo = {} /\ asked' = asked /\ Outcome' = "applied"
        /\ UNCHANGED <<kind, reports, knob, active, host, driver, held>>
    BY <1>6 DEF Finish, Stop, Outcome
  <2>2. /\ \A d \in Passthrough : driver[d] = Target(d) /\ chosen[d] \in Module
        /\ \A d \in InScopeDevices \ Passthrough : ~IsVfio(driver[d])
        /\ \A d \in Handles : Meets(Shown(d), asked)
    BY <1>p, <2>1 DEF Resolved, IsResolved, Bound, ModeDone, Past, AfterResolve, AfterMode,
       AfterRules, InductiveInvariant, Verified, SuccessIsReported
  <2>3. \A d \in InScopeDevices :
          /\ WhereIs(d) = "vfio" <=> InPassthrough(kind[d], asked)
          /\ asked \in ModesOf(d, Shown(d))
    BY <1>p, <2>2, ScopeTyped, DriverForTyped
    DEF WhereIs, Passthrough, Target, ModesOf, Handles, ProvisionerTypeOK
  <2>4. Outcome \in {"running", "settled"}
    BY <1>p, <2>1, Outcomes
  <2>5. Promise!AllInPlace(asked)
    BY <1>p, <2>3, ScopeTyped DEF Promise!AllInPlace, ProvisionerTypeOK
  <2>6. Promise!Succeed
    BY <2>1, <2>4, <2>5, RigidView, ViewStays, DevicesStay DEF Promise!Succeed
  <2> QED
    BY <2>6 DEF Promise!PromiseNext
<1>7. CASE NodeReboot
  BY <1>7, Restarts DEF Promise!PromiseNext
<1>8. ASSUME NEW d \in Device, VmStart(d) PROVE Promise!PromiseNext
  <2>1. /\ pc = "stopped" /\ IsVfio(driver[d]) /\ held' = held \cup {d}
        /\ UNCHANGED <<kind, reports, knob, active, host, driver, asked, Outcome>>
    BY <1>8 DEF VmStart, Outcome
  <2>2. Promise!OpenDevice(d)
    BY <1>p, <2>1, Outcomes, RigidView, ViewStays, DevicesStay DEF Promise!OpenDevice, WhereIs
  <2> QED
    BY <2>2 DEF Promise!PromiseNext
<1>9. ASSUME NEW d \in Device, VmStop(d) PROVE Promise!PromiseNext
  <2>1. /\ held' = held \ {d}
        /\ UNCHANGED <<kind, reports, knob, active, host, driver, asked, Outcome>>
    BY <1>9 DEF VmStop, Outcome
  <2>2. Promise!CloseDevice(d)
    BY <2>1, RigidView, ViewStays, DevicesStay DEF Promise!CloseDevice
  <2> QED
    BY <2>2 DEF Promise!PromiseNext
<1>10. CASE UNCHANGED vars
  <2>1. UNCHANGED <<kind, reports, knob, active, host, driver, held, asked, Outcome>>
    BY <1>10 DEF vars, Outcome
  <2> QED
    BY <2>1, RigidView, ViewStays, DevicesStay DEF Promise!promiseVars
<1> QED
  BY <1>1, <1>2, <1>3, <1>4, <1>5, <1>6, <1>7, <1>8, <1>9, <1>10, ChangesAllowed
  DEF ProvisionerNext, RunStep, Environment

LEMMA PromiseStart == ProvisionerInit => Promise!PromiseInit
<1> SUFFICES ASSUME ProvisionerInit PROVE Promise!PromiseInit
  OBVIOUS
<1>1. /\ driver = [d \in Device |-> host.native[kind[d]]]
      /\ active = knob /\ held = {} /\ asked = "off" /\ pc = "stopped" /\ result = "none"
  BY DEF ProvisionerInit, Init
<1>2. InScopeDevices \in SUBSET Device
  BY ScopeTyped
<1>3. [m \in Mode |-> {d \in Device : InPassthrough(kind[d], m)}]
        \in [Mode -> SUBSET InScopeDevices]
  BY DEF InPassthrough, InScopeDevices
<1>4. /\ \A d \in Device : WhereHome(d) \in {"host", "vfio"} /\ WhereIs(d) = WhereHome(d)
      /\ \A d \in Device : ModesOf(d, Shown(d)) \in SUBSET Mode
      /\ \A d \in Device : ModesOf(d, active[d]) = ModesOf(d, Shown(d))
  BY <1>1 DEF WhereHome, WhereIs, ModesOf, Shown
<1>5. asked \in Mode /\ Outcome = "none"
  BY <1>1 DEF Mode, Outcome
<1> QED
  BY <1>1, <1>2, <1>3, <1>4, <1>5, Zenon DEF Promise!PromiseInit, Promise!Place

\* The provisioner implements the promise, for every board, host and kernel and
\* any number of failures and lost writes, on hardware that reports what its
\* EEPROM holds and where no VM opens a device during a run.
THEOREM PromiseIsKeptHolds ==
  ASSUME Readings \subseteq {"knob"}, ~AdmitDuringRun
  PROVE  ProvisionerSpec => PromiseIsKept
<1>1. ProvisionerInit => reports = "knob"
  BY DEF ProvisionerInit, Init
<1>2. reports = "knob" /\ InductiveInvariant /\ RunInvariant /\ [ProvisionerNext]_vars
        => (reports = "knob")'
  <2> SUFFICES ASSUME reports = "knob", InductiveInvariant, RunInvariant,
                      [ProvisionerNext]_vars
               PROVE  reports' = reports
    OBVIOUS
  <2>1. FaultCounted => reports' = reports
    BY DEF FaultCounted, hardware
  <2>2. [Next]_modeVars => reports' = reports
    BY DEF Next, modeVars, Start, Step, Open, Read, WriteKnob, Reset, Verify, Mismatch,
       NextLoop, WriteLost, Fail, Reboot, hardware
  <2> QED
    BY <2>1, <2>2, StageStep DEF RunInvariant, Layers, ProvisionerTypeOK
<1>3. /\ InductiveInvariant /\ RunInvariant /\ reports = "knob"
      /\ ComesBackBound /\ SuccessIsWhole /\ UninstallHandsBack
      /\ [ProvisionerNext]_vars
      => [Promise!PromiseNext]_(Promise!promiseVars)
  BY PromiseStep
<1> QED
  BY <1>1, <1>2, <1>3, PromiseStart, RunInvariantHolds, ComesBackBoundHolds,
     SuccessIsWholeHolds, UninstallHandsBackHolds, PTL
  DEF ProvisionerSpec, PromiseIsKept, Promise!PromiseSpec

-----------------------------------------------------------------------------
(* Changes of kernel.                                                      *)

\* Only one module registers vfio-pci.
LEMMA GenericDriver ==
  ASSUME NEW module \in Module \cup {"none"}
  PROVE  DriverFor(module) = "vfio-pci" <=> module = "vfio_pci"
BY DEF Module, DriverFor

\* What a kernel resolves for a kind is a module, and not the generic one for
\* a coherently attached GPU.
LEMMA ResolvedModule ==
  ASSUME NEW h \in Hosts, NEW k \in Kind
  PROVE  /\ ResolveModule(h.alias, k) \in Module \cup {"none"}
         /\ IsC2c(k) => ResolveModule(h.alias, k) # "vfio_pci"
<1>1. h.alias[k] \in Module \cup {"none"}
  OBVIOUS
<1> QED
  BY <1>1 DEF ResolveModule, VfioModule, VariantAvailable, Module

\* A boot from files that do not name the generic module for such a GPU does
\* not bind it to vfio-pci.
LEMMA BootIsSafe ==
  ASSUME UpgradeInvariant, NEW d \in Device
  PROVE  /\ BootDriver(d) \in Driver
         /\ IsC2c(kind[d]) => BootDriver(d) # "vfio-pci"
<1>1. CASE \E module \in Module : <<kind[d], module>> \in boot.rules
  <2> DEFINE module == CHOOSE m \in Module : <<kind[d], m>> \in boot.rules
  <2>1. module \in Module /\ <<kind[d], module>> \in boot.rules
    BY <1>1
  <2>2. BootDriver(d) = DriverFor(module)
    BY <1>1 DEF BootDriver
  <2>3. IsC2c(kind[d]) => module # "vfio_pci"
    <3>1. <<kind[d], module>>[1] = kind[d] /\ <<kind[d], module>>[2] = module
      OBVIOUS
    <3> HIDE DEF module
    <3> QED
      BY <2>1, <3>1 DEF UpgradeInvariant, GenericNowhere
  <2> HIDE DEF module
  <2>4. DriverFor(module) \in Driver
    BY <2>1 DEF Module, DriverFor, Driver
  <2> QED
    BY <2>1, <2>2, <2>3, <2>4, GenericDriver
<1>2. CASE ~\E module \in Module : <<kind[d], module>> \in boot.rules
  <2>1. BootDriver(d) \in {"vfio-pci", host.native[kind[d]]}
    BY <1>2 DEF BootDriver
  <2>2. kind[d] \in boot.ids \/ BootDriver(d) = host.native[kind[d]]
    BY <1>2 DEF BootDriver
  <2>3. host.native[kind[d]] \in Driver /\ ~IsVfio(host.native[kind[d]])
    BY DEF UpgradeInvariant, UpgradeTypeOK
  <2>4. IsC2c(kind[d]) => kind[d] \notin boot.ids
    BY DEF UpgradeInvariant, GenericNowhere
  <2> QED
    BY <2>1, <2>2, <2>3, <2>4 DEF IsVfio, Driver
<1> QED
  BY <1>1, <1>2

\* A step that moves none of these keeps the invariant.
LEMMA Untouched ==
  ASSUME UpgradeInvariant, UNCHANGED <<kind, host, driver, boot, chosen>>
  PROVE  UpgradeInvariant'
BY DEF UpgradeInvariant, UpgradeTypeOK, GenericNowhere

LEMMA UpgradeInit == ProvisionerInit => UpgradeInvariant
<1> SUFFICES ASSUME ProvisionerInit PROVE UpgradeInvariant
  OBVIOUS
<1>1. kind \in [Device -> Kind] /\ host \in Hosts
  BY DEF ProvisionerInit, Init
<1>2. \A d \in Device : host.native[kind[d]] \in Driver /\ ~IsVfio(host.native[kind[d]])
  BY <1>1
<1>3. UpgradeTypeOK
  BY <1>1, <1>2 DEF ProvisionerInit, UpgradeTypeOK, NoBoot
<1>4. GenericNowhere
  BY <1>2 DEF ProvisionerInit, GenericNowhere, NoBoot, IsVfio
<1> QED
  BY <1>3, <1>4 DEF UpgradeInvariant

LEMMA UpgradeStep == UpgradeInvariant /\ [KernelNext]_vars => UpgradeInvariant'
<1> SUFFICES ASSUME UpgradeInvariant, [KernelNext]_vars
             PROVE  UpgradeInvariant'
  OBVIOUS
<1> USE DEF modeVars, hardware, nodeVars, runVars
<1>0. UpgradeTypeOK /\ GenericNowhere
  BY DEF UpgradeInvariant
<1>1. CASE \/ HostCheck \/ Probe \/ EnterMode \/ LeaveMode \/ EnterRelease
           \/ EnterVerify \/ Finish
  BY <1>1, Untouched DEF HostCheck, Probe, EnterMode, LeaveMode, EnterRelease,
     EnterVerify, Finish, Start
<1>2. CASE ModeRuns \/ WriteIsLost \/ ModeFails
  <2>1. UNCHANGED kind
    BY <1>2 DEF ModeRuns, WriteIsLost, ModeFails, Step, Open, Read, Written, WriteKnob,
       WriteLost, Reset, Verify, Mismatch, NextLoop, Fail
  <2> QED
    BY <1>2, <2>1, Untouched DEF ModeRuns, WriteIsLost, ModeFails
<1>3. CASE ProbeUnreadable \/ \E d \in Device : \/ VerifyIdle(d) \/ VerifyDevice(d)
                                                \/ VmStart(d) \/ VmStop(d)
  BY <1>3, Untouched DEF VerifyIdle, VerifyDevice, ProbeUnreadable, VmStart, VmStop
<1>4. CASE (\E m \in Mode : Apply(m)) \/ Uninstall
  <2>1. /\ chosen' = [d \in Device |-> "none"]
        /\ UNCHANGED <<kind, host, driver, boot>>
    BY <1>4 DEF Apply, Uninstall, Begin
  <2> QED
    BY <1>0, <2>1 DEF UpgradeInvariant, UpgradeTypeOK, GenericNowhere
<1>5. ASSUME NEW d \in Device, Resolve(d)
      PROVE  UpgradeInvariant'
  <2> DEFINE module == ResolveModule(host.alias, kind[d])
  <2>1. /\ module \in Module \cup {"none"}
        /\ IsC2c(kind[d]) => module # "vfio_pci"
    BY <1>0, ResolvedModule DEF UpgradeTypeOK
  <2> HIDE DEF module
  <2>2. /\ chosen' = [chosen EXCEPT ![d] = module]
        /\ UNCHANGED <<kind, host, boot>>
        /\ Modprobe(chosen'[d]) \/ UNCHANGED driver
    BY <1>5 DEF Resolve, module
  <2>3. driver' \in [Device -> Driver \cup {"none"}]
    BY <1>0, <2>1, <2>2 DEF UpgradeTypeOK, Modprobe, ClaimedBy, DriverFor, Driver, Module
  <2>4. \A e \in Device : IsC2c(kind[e]) => driver'[e] = driver[e]
    BY <1>0, <2>2 DEF UpgradeTypeOK, GenericNowhere, Modprobe, ClaimedBy
  <2> QED
    BY <1>0, <2>1, <2>2, <2>3, <2>4 DEF UpgradeInvariant, UpgradeTypeOK, GenericNowhere
<1>6. CASE \/ PersistModules \/ PersistIds \/ PersistRules
           \/ RemoveModules \/ RemoveIds \/ RemoveRules \/ Abort
  <2>1. UNCHANGED <<kind, host, driver, chosen>>
    BY <1>6 DEF PersistModules, PersistIds, PersistRules, RemoveModules, RemoveIds,
       RemoveRules, WriteFile, Abort
  <2>2. /\ BootModules \subseteq Module \cup {"none"}
        /\ BootIds \subseteq Kind
        /\ \A k \in BootIds : ~IsC2c(k)
        /\ BootRules \subseteq Kind \X (Module \cup {"none"})
        /\ \A rule \in BootRules : rule[2] # "vfio_pci"
    BY <1>0 DEF UpgradeTypeOK, GenericNowhere, BootModules, BootIds, BootRules,
       Passthrough, NeedsDriverOverride
  <2>3. /\ boot'.modules \in {boot.modules, BootModules, {}}
        /\ boot'.ids \in {boot.ids, BootIds, {}}
        /\ boot'.rules \in {boot.rules, BootRules, {}}
        /\ boot' \in [modules : {boot'.modules}, ids : {boot'.ids}, rules : {boot'.rules}]
    <3>1. boot' \in {boot,
                     [boot EXCEPT !.modules = BootModules], [boot EXCEPT !.modules = {}],
                     [boot EXCEPT !.ids = BootIds], [boot EXCEPT !.ids = {}],
                     [boot EXCEPT !.rules = BootRules], [boot EXCEPT !.rules = {}]}
      BY <1>6 DEF PersistModules, PersistIds, PersistRules, RemoveModules, RemoveIds,
         RemoveRules, WriteFile, Abort, Torn
    <3> QED
      BY <1>0, <3>1 DEF UpgradeTypeOK
  <2>4. UpgradeTypeOK'
    <3>1. /\ boot'.modules \subseteq Module \cup {"none"}
          /\ boot'.ids \subseteq Kind
          /\ boot'.rules \subseteq Kind \X (Module \cup {"none"})
      BY <1>0, <2>2, <2>3 DEF UpgradeTypeOK
    <3> QED
      BY <1>0, <2>1, <2>3, <3>1 DEF UpgradeTypeOK
  <2>5. GenericNowhere'
    BY <1>0, <2>1, <2>2, <2>3 DEF GenericNowhere
  <2> QED
    BY <2>4, <2>5 DEF UpgradeInvariant
<1>7. ASSUME NEW d \in Device, Bind(d) \/ Release(d)
      PROVE  UpgradeInvariant'
  <2>1. /\ UNCHANGED <<kind, host, boot, chosen>>
        /\ \/ driver' = driver
           \/ driver' = [driver EXCEPT ![d] = Target(d)] /\ Bindable(d) /\ d \in todo
           \/ driver' = [driver EXCEPT ![d] = "unbound"]
    BY <1>7 DEF Bind, Release, First
  <2>2. chosen[d] \in Module \cup {"none"} 
    BY <1>0 DEF UpgradeTypeOK
  <2>3. IsC2c(kind[d]) => Target(d) # "vfio-pci"
    BY <1>0, <2>2, GenericDriver DEF Target, GenericNowhere
  <2>4. driver' \in [Device -> Driver \cup {"none"}]
    <3>1. Target(d) \in Driver \cup {"none"}
      BY <2>2 DEF Target, DriverFor, Module, Driver
    <3> QED
      BY <1>0, <2>1, <3>1 DEF UpgradeTypeOK, Driver
  <2> QED
    BY <1>0, <2>1, <2>3, <2>4 DEF UpgradeInvariant, UpgradeTypeOK, GenericNowhere
<1>8. ASSUME NEW kernel \in Hosts, KernelReboot(kernel)
      PROVE  UpgradeInvariant'
  <2>1. /\ host' = kernel
        /\ driver' = [d \in Device |-> BootsTo(d, kernel)]
        /\ UNCHANGED <<kind, boot, chosen>>
    BY <1>8 DEF KernelReboot, Reboot
  <2>2. \A d \in Device : BootsTo(d, kernel) \in {"unbound", BootDriver(d)}
    BY DEF BootsTo
  <2>3. driver' \in [Device -> Driver \cup {"none"}]
    BY <2>1, <2>2, BootIsSafe DEF Driver
  <2>4. \A d \in Device : IsC2c(kind[d]) => driver'[d] # "vfio-pci"
    BY <2>1, <2>2, BootIsSafe
  <2> QED
    BY <1>0, <2>1, <2>3, <2>4 DEF UpgradeInvariant, UpgradeTypeOK, GenericNowhere
<1>9. CASE UNCHANGED vars
  BY <1>9, Untouched DEF vars
<1> QED
  BY <1>1, <1>2, <1>3, <1>4, <1>5, <1>6, <1>7, <1>8, <1>9 DEF KernelNext, RunStep

\* The inductive invariant over any sequence of kernels.
THEOREM UpgradeInvariantHolds == KernelSpec => []UpgradeInvariant
BY UpgradeInit, UpgradeStep, PTL DEF KernelSpec

\* No run and no boot, of any kernel, from whatever files runs under other
\* kernels left, hands a coherently attached GPU to plain vfio-pci.
THEOREM CoherentNeverGenericHolds == KernelSpec => []CoherentNeverGeneric
<1>1. UpgradeInvariant => CoherentNeverGeneric
  <2> SUFFICES ASSUME UpgradeInvariant, NEW d \in Device, IsC2c(kind[d])
               PROVE  driver[d] # "vfio-pci" /\ BootDriver(d) # "vfio-pci"
    BY DEF CoherentNeverGeneric
  <2> QED
    BY BootIsSafe DEF UpgradeInvariant, GenericNowhere
<1> QED
  BY <1>1, UpgradeInvariantHolds, PTL

-----------------------------------------------------------------------------

\* Everything but the reboot is a step of the provisioner.
LEMMA KernelSteps ==
  ASSUME [KernelNext]_vars, ~\E kernel \in Hosts : KernelReboot(kernel)
  PROVE  [ProvisionerNext]_vars
BY DEF KernelNext, ProvisionerNext, Environment

\* A reboot into another kernel keeps what the stages know: nothing is running.
LEMMA LayersAcrossReboot ==
  ASSUME InductiveInvariant, Layers, NEW kernel \in Hosts, KernelReboot(kernel)
  PROVE  InductiveInvariant' /\ Layers'
<1>p. TypeOK /\ ProvisionerTypeOK
  BY DEF InductiveInvariant, Bookkeeping, Layers
<1>1. /\ Reboot /\ host' = kernel /\ held' = {} /\ UNCHANGED <<kind, boot, chosen, asked>>
      /\ pc' = "stopped" /\ todo' = {} /\ result' = "none" /\ stage' = "idle"
      /\ driver' = [d \in Device |-> BootsTo(d, kernel)]
      /\ loaded' \subseteq boot.modules \cup {rule[2] : rule \in boot.rules}
  BY DEF KernelReboot, Reboot, Stop
<1>2. InductiveInvariant'
  BY <1>1, StageInvariantStep DEF Next
<1>3. ProvisionerTypeOK'
  <2>1. \A d \in Device : BootsTo(d, kernel) \in {"unbound", BootDriver(d)}
    BY DEF BootsTo
  <2>2. driver' \in [Device -> Driver]
    BY <1>p, <1>1, <2>1, BootDriverTyped DEF Driver
  <2>3. loaded' \subseteq Module
    <3>1. \A rule \in boot.rules : rule[2] \in Module
      BY <1>p DEF ProvisionerTypeOK
    <3> QED
      BY <1>p, <1>1, <3>1 DEF ProvisionerTypeOK
  <2>4. ~Running'
    BY <1>1 DEF Running, Loops
  <2> QED
    BY <1>p, <1>1, <2>2, <2>3, <2>4 DEF ProvisionerTypeOK
<1>4. Resolved' /\ Admitted' /\ ModeDone' /\ BootWritten' /\ Bound'
  BY <1>1, ClearedKeeps DEF Cleared
<1> QED
  BY <1>2, <1>3, <1>4 DEF Layers

\* What the stages of a run know, over any sequence of kernels.
THEOREM LayersHoldAcrossKernels == KernelSpec => [](InductiveInvariant /\ Layers)
<1>1. InductiveInvariant /\ Layers /\ [KernelNext]_vars => (InductiveInvariant /\ Layers)'
  <2> SUFFICES ASSUME InductiveInvariant, Layers, [KernelNext]_vars
               PROVE  InductiveInvariant' /\ Layers'
    OBVIOUS
  <2>1. CASE \E kernel \in Hosts : KernelReboot(kernel)
    BY <2>1, LayersAcrossReboot
  <2>2. CASE ~\E kernel \in Hosts : KernelReboot(kernel)
    <3>1. [ProvisionerNext]_vars
      BY <2>2, KernelSteps
    <3>2. TypeOK /\ asked \in Mode
      BY DEF InductiveInvariant, Bookkeeping, Layers, ProvisionerTypeOK
    <3>3. InductiveInvariant'
      BY <3>1, <3>2, StageStep, StageInvariantStep
    <3>4. Layers'
      BY <3>1, <3>2, RunTypeStep, LayersStep, AdmittedStep DEF Layers
    <3> QED
      BY <3>3, <3>4
  <2> QED
    BY <2>1, <2>2
<1> QED
  BY <1>1, RunInit, PTL DEF KernelSpec

\* Whatever runs under other kernels left, the files a run has written under
\* this one bring back what it chose: this kernel ships every module it names.
THEOREM ComesBackOnThisKernelHolds == KernelSpec => []ComesBackOnThisKernel
<1>1. InductiveInvariant /\ Layers => ComesBackOnThisKernel
  <2> SUFFICES ASSUME InductiveInvariant, Layers,
                      pc \in AfterRules \/ result = "applied",
                      NEW d \in InScopeDevices
               PROVE  IF d \in Passthrough THEN BootsTo(d, host) = Target(d)
                                           ELSE ~IsVfio(BootsTo(d, host))
    BY DEF ComesBackOnThisKernel, AfterRules
  <2>1. IF d \in Passthrough THEN BootDriver(d) = Target(d) ELSE ~IsVfio(BootDriver(d))
    BY FilesComeBack DEF ComesBackBound, AfterRules
  <2>2. CASE d \notin Passthrough
    BY <2>1, <2>2 DEF BootsTo, IsVfio
  <2>3. CASE d \in Passthrough
    <3>1. IsResolved(d) /\ d \in Device /\ kind[d] \in Kind
      BY <2>3, ScopeTyped DEF Layers, Resolved, Past, AfterResolve, AfterMode,
         InductiveInvariant, Bookkeeping, TypeOK
    <3>2. Ships(host, chosen[d])
      BY <3>1 DEF IsResolved, ResolveModule, VfioModule, Ships, Module
    <3>3. \A m \in Module : DriverFor(m) = DriverFor(chosen[d]) => m = chosen[d]
      BY <3>1 DEF IsResolved, Module, DriverFor
    <3>4. (CHOOSE m \in Module : DriverFor(m) = BootDriver(d)) = chosen[d]
      BY <2>1, <2>3, <3>1, <3>3 DEF IsResolved, Target
    <3> QED
      BY <2>1, <2>3, <3>2, <3>4 DEF BootsTo
  <2> QED
    BY <2>2, <2>3
<1> QED
  BY <1>1, LayersHoldAcrossKernels, PTL

=============================================================================
