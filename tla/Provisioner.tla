---- MODULE Provisioner ----
(***************************************************************************)
(* main::apply and main::uninstall on one node, from the host check to the *)
(* final verification, with the mode stage of ModeStage as one of its      *)
(* stages, the VMs that open devices, and the reboots and crashes that     *)
(* cut a run short.                                                        *)
(*                                                                         *)
(*   host -> resolve -> idle -> mode -> modules -> ids -> rules            *)
(*        -> bind -> release -> verify                                     *)
(*                                                                         *)
(* The boot configuration is three files: which modules are loaded, which  *)
(* ids vfio-pci claims as it loads, which ids a udev rule hands to another *)
(* driver.                                                                 *)
(***************************************************************************)
EXTENDS ModeStage

CONSTANTS Hosts,          \* the hosts to consider
          AdmitDuringRun  \* may a VM open a device while a run is in progress

ASSUME HostsAssumption ==
  Hosts \subseteq [alias : [Kind -> Module \cup {"none"}],
                   native : [Kind -> {dr \in Driver : ~IsVfio(dr)}],
                   iommu : BOOLEAN]
ASSUME AdmitAssumption == AdmitDuringRun \in BOOLEAN

VARIABLES host,     \* alias table, the drivers kinds boot with, IOMMU on or off
          driver,   \* the driver each device is bound to
          held,     \* the devices a VM has open
          boot,     \* the boot configuration on the node's disk
          loaded,   \* the vfio modules the kernel has loaded
          pc,       \* the stage of the run
          asked,    \* the mode the run was asked for
          todo,     \* the devices the stage has still to visit
          chosen,   \* the vfio module resolved for each device
          result,   \* how the last run on this boot ended
          before    \* what the run found, at most one record; only the
                    \* properties read it

nodeVars == <<host, driver, held, boot, loaded>>
runVars == <<pc, asked, todo, chosen, result, before>>
vars == <<modeVars, nodeVars, runVars>>

InScopeDevices == {d \in Device : InScope(kind[d])}
Passthrough == {d \in Device : InPassthrough(kind[d], asked)}
Target(d) == DriverFor(chosen[d])

NoBoot == [modules |-> {}, ids |-> {}, rules |-> {}]

\* What the node's own boot makes of the three files: the udev rule loads its
\* module itself, vfio-pci claims its ids when modules-load.d loads it.
BootDriver(d) ==
  IF \E module \in Module : <<kind[d], module>> \in boot.rules
  THEN DriverFor(CHOOSE module \in Module : <<kind[d], module>> \in boot.rules)
  ELSE IF kind[d] \in boot.ids /\ "vfio_pci" \in boot.modules THEN "vfio-pci"
  ELSE host.native[kind[d]]

-----------------------------------------------------------------------------

Stages == {"host", "resolve", "idle", "mode", "modules", "ids",
           "rules", "bind", "release", "verify",
           "rmModules", "rmIds", "rmRules"}

ProvisionerTypeOK ==
  /\ host \in Hosts
  /\ driver \in [Device -> Driver]
  /\ held \subseteq {d \in Device : IsVfio(driver[d])}
  /\ boot \in [modules : SUBSET Module, ids : SUBSET Kind,
               rules : SUBSET (Kind \X Module)]
  /\ loaded \subseteq Module
  /\ pc \in Stages \cup {"stopped"}
  /\ asked \in Mode
  /\ todo \subseteq InScopeDevices
  /\ chosen \in [Device -> Module \cup {"none"}]
  /\ result \in {"none", "applied", "uninstalled", "failed"}
  /\ Running => pc = "mode"

Snapshot(m) ==
  {[knob |-> knob, active |-> active, driver |-> driver, boot |-> boot,
    converged |-> result = "applied" /\ asked = m]}

ProvisionerInit ==
  /\ Init
  /\ host \in Hosts
  /\ driver = [d \in Device |-> host.native[kind[d]]]
  /\ held = {}
  /\ boot = NoBoot
  /\ loaded = {}
  /\ pc = "stopped"
  /\ asked = "off"
  /\ todo = {}
  /\ chosen = [d \in Device |-> "none"]
  /\ result = "none"
  /\ before = {}

-----------------------------------------------------------------------------
(* A run goes on to the next stage, or ends in success or with an error.   *)

Go(next, devices) ==
  /\ pc' = next
  /\ todo' = devices
  /\ UNCHANGED <<asked, result, before>>

Stop(how) ==
  /\ pc' = "stopped"
  /\ todo' = {}
  /\ result' = how
  /\ before' = IF how = "failed" THEN before ELSE {}
  /\ UNCHANGED asked

Begin(first) ==
  /\ pc = "stopped"
  /\ pc' = first
  /\ todo' = {}
  /\ result' = "none"
  /\ chosen' = [d \in Device |-> "none"]
  /\ UNCHANGED <<modeVars, nodeVars>>

Apply(m) ==
  /\ Begin("host")
  /\ asked' = m
  /\ before' = Snapshot(m)

Capable == VerifyCapable({kind[d] : d \in Device}, asked)

\* host::check, in_scope, verify_capable: the node is refused whole, before
\* any device is touched.
HostAccepts ==
  /\ host.iommu
  /\ \A d \in Device : driver[d] \notin ConflictingDrivers
  /\ InScopeDevices # {}
  /\ Capable

HostCheck ==
  /\ pc = "host"
  /\ IF HostAccepts THEN Go("resolve", Passthrough) ELSE Stop("failed")
  /\ UNCHANGED <<modeVars, nodeVars, chosen>>

\* What vfio-pci takes as modprobe loads it: the unbound devices whose ids an
\* earlier run left in modprobe.d.  A variant driver takes nothing by itself.
ClaimedBy(module) ==
  {d \in Device : /\ module = "vfio_pci" /\ module \notin loaded
                  /\ driver[d] = "unbound" /\ kind[d] \in boot.ids}

Modprobe(module) ==
  /\ loaded' = loaded \cup {module}
  /\ driver' = [d \in Device |->
                  IF d \in ClaimedBy(module) THEN DriverFor(module) ELSE driver[d]]

\* resolve_drivers: the module is found and loaded before anything is reset.
Resolve(d) ==
  /\ pc = "resolve"
  /\ First(d, todo)
  /\ chosen' = [chosen EXCEPT ![d] = ResolveModule(host.alias, kind[d])]
  /\ IF chosen'[d] # "none"
     THEN Modprobe(chosen'[d]) /\ Go("resolve", todo \ {d})
     ELSE Stop("failed") /\ UNCHANGED <<driver, loaded>>
  /\ UNCHANGED <<modeVars, host, held, boot>>

\* Bugs: a device whose modes could not be read counts as converged; a device
\* about to be handed back is not looked at; every device is looked at.
Writable_TrustsUnread(unreadable) ==
  {d \in InScopeDevices :
     IF d \notin Passthrough THEN IsVfio(driver[d])
     ELSE \/ driver[d] # Target(d)
          \/ d \notin unreadable /\ WritesFor(Shown(d), asked) # <<>>}
Writable_KeptOnly(unreadable) ==
  {d \in Passthrough : \/ driver[d] # Target(d)
                       \/ d \in unreadable
                       \/ WritesFor(Shown(d), asked) # <<>>}
Writable_Everything(unreadable) == InScopeDevices

\* writable: the devices this run would change, by the driver they have and
\* the modes probe_modes read; a device it could not read counts as one.
Writable(unreadable) ==
  {d \in InScopeDevices :
     IF d \notin Passthrough THEN IsVfio(driver[d])
     ELSE \/ driver[d] # Target(d)
          \/ d \in unreadable
          \/ WritesFor(Shown(d), asked) # <<>>}

Probe ==
  /\ pc = "resolve"
  /\ todo = {}
  /\ Go("idle", Writable({}))
  /\ UNCHANGED <<modeVars, nodeVars, chosen>>

\* Reads that fail do not stop the run here, as in the mode stage they do.
ProbeUnreadable ==
  /\ pc = "resolve"
  /\ todo = {}
  /\ faults < MaxFaults
  /\ faults' = faults + 1
  /\ \E unreadable \in SUBSET Handles \ {{}} : Go("idle", Writable(unreadable))
  /\ UNCHANGED <<hardware, run, lost, nodeVars, chosen>>

\* verify_idle: a device a VM has open stops the run.
VerifyIdle(d) ==
  /\ pc = "idle"
  /\ First(d, todo)
  /\ IF d \in held THEN Stop("failed") ELSE Go("idle", todo \ {d})
  /\ UNCHANGED <<modeVars, nodeVars, chosen>>

EnterMode ==
  /\ pc = "idle"
  /\ todo = {}
  /\ Start(asked)
  /\ Go("mode", {})
  /\ UNCHANGED <<nodeVars, chosen>>

ModeRuns ==
  /\ pc = "mode"
  /\ Step
  /\ UNCHANGED <<nodeVars, runVars>>

WriteIsLost ==
  /\ pc = "mode"
  /\ \E d \in Device : WriteLost(d)
  /\ UNCHANGED <<nodeVars, runVars>>

LeaveMode ==
  /\ pc = "mode"
  /\ \/ stage = "ok" /\ Go("modules", {})
     \/ stage = "failed" /\ Stop("failed")
  /\ UNCHANGED <<modeVars, nodeVars, chosen>>

-----------------------------------------------------------------------------
(* modules::persist, one file after the other.                             *)

BootModules == {chosen[d] : d \in Passthrough}
BootIds == {kind[d] : d \in {e \in Passthrough : ~NeedsDriverOverride(chosen[e])}}
BootRules ==
  {<<kind[d], chosen[d]>> : d \in {e \in Passthrough : NeedsDriverOverride(chosen[e])}}

\* Stage s writes its file as `file`; the run goes on to stage t.
WriteFile(s, file, t, devices) ==
  /\ pc = s
  /\ boot' = file
  /\ Go(t, devices)
  /\ UNCHANGED <<modeVars, host, driver, held, loaded, chosen>>

PersistModules ==
  WriteFile("modules", [boot EXCEPT !.modules = BootModules], "ids", {})
PersistIds ==
  WriteFile("ids", [boot EXCEPT !.ids = BootIds], "rules", {})

\* Bug: a rules file with no rule left in it is not removed.
PersistRules_KeepsOld ==
  WriteFile("rules", IF BootRules = {} THEN boot ELSE [boot EXCEPT !.rules = BootRules],
            "bind", Passthrough)

PersistRules ==
  WriteFile("rules", [boot EXCEPT !.rules = BootRules], "bind", Passthrough)

-----------------------------------------------------------------------------
(* The live bindings.                                                      *)

\* vfio::bind binds an unbound device, keeps one that is bound to its target
\* and refuses one that another driver holds.
Bindable(d) == driver[d] \in {"unbound", Target(d)}

Bind(d) ==
  /\ pc = "bind"
  /\ First(d, todo)
  /\ IF Bindable(d)
     THEN driver' = [driver EXCEPT ![d] = Target(d)] /\ Go("bind", todo \ {d})
     ELSE Stop("failed") /\ UNCHANGED driver
  /\ UNCHANGED <<modeVars, host, held, boot, loaded, chosen>>

\* Bug: a device that drops out of the passthrough set stays where it is.
ToRelease_Nothing == {}

\* release: only what vfio holds of the devices that stay on the host.
ToRelease == {d \in InScopeDevices \ Passthrough : IsVfio(driver[d])}

EnterRelease ==
  /\ pc = "bind"
  /\ todo = {}
  /\ Go("release", ToRelease)
  /\ UNCHANGED <<modeVars, nodeVars, chosen>>

\* vfio::unbind returns once nothing has the device open any more.
Release(d) ==
  /\ pc = "release"
  /\ First(d, todo)
  /\ d \notin held
  /\ driver' = [driver EXCEPT ![d] = "unbound"]
  /\ Go("release", todo \ {d})
  /\ UNCHANGED <<modeVars, host, held, boot, loaded, chosen>>

\* Bug: every device in scope is verified, those left on the host included.
EnterVerify_AllInScope ==
  /\ pc = "release"
  /\ todo = {}
  /\ Go("verify", InScopeDevices)
  /\ UNCHANGED <<modeVars, nodeVars, chosen>>

EnterVerify ==
  /\ pc = "release"
  /\ todo = {}
  /\ Go("verify", Passthrough)
  /\ UNCHANGED <<modeVars, nodeVars, chosen>>

\* main::verify: the binding and the mode, read again.
VerifyDevice(d) ==
  /\ pc = "verify"
  /\ First(d, todo)
  /\ IF driver[d] = Target(d) /\ (HasHandle(kind[d]) => Meets(Shown(d), asked))
     THEN Go("verify", todo \ {d})
     ELSE Stop("failed")
  /\ UNCHANGED <<modeVars, nodeVars, chosen>>

Finish ==
  /\ pc = "verify"
  /\ todo = {}
  /\ Stop("applied")
  /\ UNCHANGED <<modeVars, nodeVars, chosen>>

-----------------------------------------------------------------------------
(* main::uninstall: the three files go; bindings and modes are left alone. *)

Uninstall ==
  /\ Begin("rmModules")
  /\ before' = {}
  /\ UNCHANGED asked

RemoveModules == WriteFile("rmModules", [boot EXCEPT !.modules = {}], "rmIds", {})
RemoveIds == WriteFile("rmIds", [boot EXCEPT !.ids = {}], "rmRules", {})

\* Bug: unpersist forgets the udev rules.
RemoveRules_KeepsThem ==
  /\ pc = "rmRules"
  /\ Stop("uninstalled")
  /\ UNCHANGED <<modeVars, nodeVars, chosen>>

RemoveRules ==
  /\ pc = "rmRules"
  /\ boot' = [boot EXCEPT !.rules = {}]
  /\ Stop("uninstalled")
  /\ UNCHANGED <<modeVars, host, driver, held, loaded, chosen>>

-----------------------------------------------------------------------------
(* What happens to a run, and around it.                                   *)

\* A call returns Err outside the mode stage's own Fail, or the Job is
\* killed.  fs::write truncates before it writes: a file being written may be
\* left empty.
Torn ==
  CASE pc = "modules" -> {boot, [boot EXCEPT !.modules = {}]}
    [] pc = "ids"     -> {boot, [boot EXCEPT !.ids = {}]}
    [] pc = "rules"   -> {boot, [boot EXCEPT !.rules = {}]}
    [] OTHER          -> {boot}

Abort ==
  /\ pc # "stopped"
  /\ ~Running
  /\ faults < MaxFaults
  /\ faults' = faults + 1
  /\ boot' \in Torn
  /\ Stop("failed")
  /\ UNCHANGED <<hardware, run, lost, host, driver, held, loaded, chosen>>

ModeFails ==
  /\ pc = "mode"
  /\ Fail
  /\ UNCHANGED <<nodeVars, runVars>>

NodeReboot ==
  /\ Reboot
  /\ driver' = [d \in Device |-> BootDriver(d)]
  /\ loaded' = boot.modules \cup {rule[2] : rule \in boot.rules}
  /\ held' = {}
  /\ Stop("none")
  /\ UNCHANGED <<host, boot, chosen>>

VmStart(d) ==
  /\ IsVfio(driver[d])
  /\ d \notin held
  /\ AdmitDuringRun \/ pc = "stopped"
  /\ held' = held \cup {d}
  /\ UNCHANGED <<modeVars, host, driver, boot, loaded, runVars>>

VmStop(d) ==
  /\ d \in held
  /\ held' = held \ {d}
  /\ UNCHANGED <<modeVars, host, driver, boot, loaded, runVars>>

\* The process's own steps.
RunStep ==
  \/ HostCheck \/ Probe \/ EnterMode \/ ModeRuns \/ LeaveMode
  \/ PersistModules \/ PersistIds \/ PersistRules
  \/ EnterRelease \/ EnterVerify \/ Finish
  \/ RemoveModules \/ RemoveIds \/ RemoveRules
  \/ \E d \in Device : \/ Resolve(d)
                       \/ VerifyIdle(d)
                       \/ Bind(d)
                       \/ Release(d)
                       \/ VerifyDevice(d)

Environment ==
  \/ \E m \in Mode : Apply(m)
  \/ Uninstall
  \/ ProbeUnreadable \/ WriteIsLost \/ ModeFails \/ Abort \/ NodeReboot
  \/ \E d \in Device : VmStart(d) \/ VmStop(d)

ProvisionerNext == RunStep \/ Environment

ProvisionerSpec == ProvisionerInit /\ [][ProvisionerNext]_vars

\* A run that is not killed goes on; nobody has to start or stop a VM, start a
\* run or reboot the node.
ProvisionerFairSpec == ProvisionerSpec /\ WF_vars(RunStep)

-----------------------------------------------------------------------------
(* Properties.                                                             *)

\* Where a VM cannot open a device during a run, no device the mode stage is
\* about to write or reset is open in one: verify_idle looked at every device
\* the stage turns out to change, the ones probe_modes could not read and the
\* switches that stay on the host included (idle.rs:7).
ResetOnlyIdle ==
  (pc = "mode" /\ stage \in {"write", "reset"}) => pending \cap held = {}

\* Ok from main::apply means what it prints: every device for passthrough is
\* on its vfio driver, no other device in scope is on one, and every device
\* with a mode reports the one asked for, whatever was lost or busy.
SuccessIsWhole ==
  result = "applied" =>
    /\ \A d \in InScopeDevices :
         IF d \in Passthrough THEN driver[d] = Target(d) /\ IsVfio(driver[d])
                              ELSE ~IsVfio(driver[d])
    /\ \A d \in Handles : Meets(Shown(d), asked)

\* From the moment the boot configuration is written, also if the run dies
\* before it binds anything, a reboot gives every device for passthrough its
\* vfio driver and no other device in scope one: "so a crash leaves a node
\* that comes back bound" (main.rs:187).
ComesBackBound ==
  (pc \in {"bind", "release", "verify"} \/ result = "applied") =>
    \A d \in InScopeDevices :
      IF d \in Passthrough THEN BootDriver(d) = Target(d)
                           ELSE ~IsVfio(BootDriver(d))

\* A device is on the driver the run found it on, or modprobe claimed it for
\* the ids that an interrupted run or uninstall had left on the disk.
AsFound(b, d) ==
  \/ driver[d] = b.driver[d]
  \/ <<b.driver[d], driver[d]>> = <<"unbound", "vfio-pci">> /\ kind[d] \in b.boot.ids

LeftAlone(b) ==
  /\ <<b.knob, b.active, b.boot>> = <<knob, active, boot>>
  /\ \A d \in Device : AsFound(b, d)

\* Bind alone refuses what the checks let through, after modes and files are
\* written: a device to be bound that the run found on another driver.
StoppedByDriver(b) ==
  /\ boot = [modules |-> BootModules, ids |-> BootIds, rules |-> BootRules]
  /\ \A d \in Handles : Meets(Shown(d), asked)
  /\ \E d \in Passthrough :
       driver[d] = b.driver[d] /\ driver[d] \notin {"unbound", Target(d)}

\* A run that fails by itself, with no call failing and no write lost, changed
\* neither mode nor boot configuration, and no binding that modprobe did not
\* change for it: "refuse whole, not half" (main.rs:169); or it changed all of
\* them and bind found a foreign driver.
RefusedWhole ==
  (result = "failed" /\ faults = 0 /\ lost = 0) =>
    \A b \in before : LeftAlone(b) \/ StoppedByDriver(b)

\* Running the mode again that the node was just provisioned for neither
\* fails nor writes nor resets a device, whichever VMs have devices open:
\* "converged nodes can be upgraded while Kata workloads are running"
\* (main.rs:441).
ConvergedRunIsHarmless ==
  (faults = 0 /\ \E b \in before : b.converged) =>
    result # "failed" /\ (pc = "mode" => pending = {})

\* After a successful run the labels the modes stand for name the mode the
\* release asked for: a PPCIE board is not labelled by its per-GPU CC mode.
LabelsNameTheMode ==
  result = "applied" =>
    \A d \in InScopeDevices : CcCapable(kind[d]) =>
      CcLabelValues(kind[d], Shown(d)) = [mode |-> asked, ready |-> CcReady(asked)]

\* After an uninstall that returned Ok, a reboot gives every device back to
\* the driver the host has for it.
UninstallHandsBack ==
  result = "uninstalled" => \A d \in Device : BootDriver(d) = host.native[kind[d]]

\* A run comes to an end: it never waits in the kernel for a device that a VM
\* has open (main.rs:857).
ApplyEnds == pc # "stopped" ~> pc = "stopped"

-----------------------------------------------------------------------------
(* The inductive invariant: what each stage leaves to the ones behind it.  *)

\* The run is in one of these stages, or has been through all of them.
Past(stages) == pc \in stages \/ result = "applied"

AfterRules == {"bind", "release", "verify"}
AfterMode == {"modules", "ids", "rules"} \cup AfterRules
AfterResolve == {"idle", "mode"} \cup AfterMode

\* A run has no result yet, and an applied one resolved every module.
IsResolved(d) ==
  chosen[d] = ResolveModule(host.alias, kind[d]) /\ chosen[d] \in Module
Resolved ==
  /\ pc # "stopped" => result = "none"
  /\ pc \in {"resolve", "bind", "verify"} => todo \subseteq Passthrough
  /\ pc = "resolve" => \A d \in Passthrough \ todo : IsResolved(d)
  /\ Past(AfterResolve) => \A d \in Passthrough : IsResolved(d)

\* What the host check accepted stays so: a run only moves devices to vfio
\* drivers or off them.
Admitted == Past({"resolve"} \cup AfterResolve) => HostAccepts

\* The mode stage works on the mode asked for and has succeeded behind itself.
ModeDone ==
  /\ Past({"mode"} \cup AfterMode) => mode = asked
  /\ Past(AfterMode) => stage = "ok"

\* The files written so far, and removed so far.
BootWritten ==
  /\ Past({"ids", "rules"} \cup AfterRules) => boot.modules = BootModules
  /\ Past({"rules"} \cup AfterRules) => boot.ids = BootIds
  /\ Past(AfterRules) => boot.rules = BootRules
  /\ pc \in {"rmIds", "rmRules"} => boot.modules = {}
  /\ pc = "rmRules" => boot.ids = {}
  /\ result = "uninstalled" => boot = NoBoot

\* What bind and release are past is bound and released.
Bound ==
  /\ pc = "bind" => \A d \in Passthrough \ todo : driver[d] = Target(d)
  /\ Past({"release", "verify"}) => \A d \in Passthrough : driver[d] = Target(d)
  /\ pc = "release" => todo \cap Passthrough = {}
  /\ pc = "release" =>
       \A d \in InScopeDevices \ Passthrough : d \in todo \/ ~IsVfio(driver[d])
  /\ Past({"verify"}) =>
       \A d \in InScopeDevices \ Passthrough : ~IsVfio(driver[d])

Layers ==
  ProvisionerTypeOK /\ Resolved /\ Admitted /\ ModeDone /\ BootWritten /\ Bound

\* A device a VM has open needs no write: the idle check looked at it, or
\* probe_modes found it converged.
Undisturbed ==
  ~AdmitDuringRun =>
    /\ pc = "idle" =>
         \A d \in held \cap Handles : d \in todo \/ WritesFor(Shown(d), asked) = <<>>
    /\ (pc = "mode" /\ stage \in {"open", "read"}) =>
         \A d \in held \cap Handles : /\ WritesFor(Shown(d), asked) = <<>>
                                      /\ d \notin pending
    /\ (pc = "mode" /\ stage \in {"write", "reset"}) => pending \cap held = {}

\* The files, those on the disk and those the run found there, are about kinds
\* in scope, and vfio-pci has ids only of kinds this kernel resolves to it.
FilesFit ==
  \A files \in {boot} \cup {b.boot : b \in before} :
    /\ \A k \in files.ids : InScope(k) /\ ResolveModule(host.alias, k) = "vfio_pci"
    /\ \A rule \in files.rules : InScope(rule[1])

\* Modes and files are as the run found them until the mode stage, bindings
\* until the run binds, and a run that failed left them so.
AsYet(b) ==
  /\ pc \in {"host", "resolve", "idle"} => LeftAlone(b)
  /\ pc \in {"mode", "modules", "ids", "rules"} => \A d \in Device : AsFound(b, d)
  /\ pc = "bind" => \A d \in todo : AsFound(b, d)
  /\ result = "failed" => LeftAlone(b) \/ StoppedByDriver(b)

NothingYet ==
  (faults = 0 /\ lost = 0) => /\ pc = "mode" => stage # "failed"
                              /\ \A b \in before : AsYet(b)

\* A node that is provisioned for the mode asked for.
InPlace ==
  /\ HostAccepts
  /\ \A d \in InScopeDevices :
       IF d \in Passthrough
       THEN /\ driver[d] = DriverFor(ResolveModule(host.alias, kind[d]))
            /\ IsVfio(driver[d])
       ELSE ~IsVfio(driver[d])
  /\ \A d \in Handles : Meets(Shown(d), asked)
  /\ \A d \in Device : kind[d] \in boot.ids => d \in Passthrough

\* A run over such a node finds it so, leaves it so, and has nothing to look
\* at, write or refuse.
Settled ==
  (\E b \in before : b.converged) =>
    /\ pc # "stopped" => InPlace
    /\ pc = "mode" => pending = {}
    /\ faults = 0 => /\ result # "failed"
                     /\ pc = "idle" => todo = {}
                     /\ pc = "mode" => stage # "failed"

RunInvariant == Layers /\ Undisturbed /\ FilesFit /\ NothingYet /\ Settled

=============================================================================
