# Kata device provisioner: TLA+ models and proofs

The provisioner is a short-lived Job. It puts the NVIDIA GPUs and NVSwitches of
one node into one confidential-computing mode, binds them to a vfio driver and
writes the node's boot configuration so that a reboot binds them again. Nothing
of it stays running: what it leaves behind are EEPROM bits, driver bindings and
three files. This directory models that program, checks it with TLC and proves
the main facts about its core with TLAPS. Source paths below are relative to
the repository.

## The system

| part | code | state it keeps | operations |
|---|---|---|---|
| device table, node mode | `src/device.rs`, `src/mode.rs` | none; a static table | which devices are in scope, which modes they can take, the labels their modes stand for |
| firmware knobs, write plans | `src/nvidia.rs`, over `pcilibs_rs::cc` | per device: EEPROM knobs CC and PPCIE, the mode in force since the last reset | query, set CC, set PPCIE, reset; `writes_for` plans them |
| mode stage | `nvidia::apply` | locals only: open handles, plans, who is pending | open all, read all, write all, reset the pending, verify all |
| driver resolution | `src/modules.rs`, `main::resolve_drivers` | none; reads the kernel's alias table | which vfio module and driver a device needs |
| boot configuration | `modules::persist`, `unpersist` | `modules-load.d`, `modprobe.d` and udev files | write three files, remove three files |
| idle check | `src/idle.rs`, `main::writable` | none; reads `/proc` | which devices a run would change, whether a VM has one open |
| host check | `src/host.rs` | none | IOMMU on, no host GPU driver |
| apply, uninstall | `src/main.rs` | none that outlives the process | the stages in order; fail on the first error |
| status | `main::status` | none | list devices, probe them, print modes and labels |
| chart and dispatcher | `deploy/helm/...` | Jobs, node labels, ownership markers | one Job per node, label those that succeed, clean up |
| profile index | `tools/profile-index` | `index.json`, beside a catalog and values files | generate the index of the shipped profiles, check that the committed one is theirs |

The parts interact by plain calls inside one process. What makes the program
hard is what it shares with others: the hardware, which outlives a run that was
cut short; the kernel's driver bindings, which do not outlive a reboot; the
boot files, of which a crash can leave some from one run and some from another;
VMs, which open devices whenever they like; and the device firmware, where
enabling one of the two knobs clears the other. None of these is locked.

What makes each part correct:

* plans: whatever the two knobs were, the writes in their order end in the mode
  asked for, never touch a knob the device lacks and never write without need;
* mode stage: no reset before the whole board carries the mode, no reset
  without need, success only when every device reports the mode, and no device
  left behaving unlike its EEPROM unless the run was cut short;
* idle check: everything the mode stage, the bind and the release will touch
  has been looked at, and nothing is refused that needs no change;
* boot configuration: once written, a reboot alone gives every device the
  driver the run chose, and after an uninstall gives everything back;
* apply: Ok means all of it, a refusal means none of it; runs that get in each
  other's way leave no reset owed but where one of them failed before it, and
  runs that want the same do not undo one another;
* status: what it shows after a run is what the run was asked for;
* rollout: "deployed" means every selected node reports the mode that the
  release has for it, no node is provisioned twice, an uninstall reaches every
  node that is labelled, and Helm is told an end;
* profile index: what passes the check can be deployed as it says.

## Modules

| module | models | notes |
|---|---|---|
| `DeviceTable` | `device.rs`, `mode.rs`, `verify_capable`, `passthrough_set`, `resolve_module`, `needs_driver_override` | pure operators; a device id is abstracted to one of seven kinds, the partition on which every predicate of the source is a function |
| `Firmware` | `writes_for`, `verify`, the knob writes of `pcilibs_rs::cc` | pure; a plan is a sequence of at most two writes |
| `ModeStage` | `nvidia::apply` | state machine; extends `Firmware` |
| `Provisioner` | `main::apply`, `main::uninstall`, `modules::persist`, VMs, boots | state machine; extends `ModeStage` and runs its `Start`, `Step`, `Fail` and `Reboot` as its mode stage |
| `NodePromise` | no code: what the owner of a node is promised of `apply` and `uninstall` | abstract specification |
| `PromiseKept` | the refinement mapping from `Provisioner` to `NodePromise` | checked as a property |
| `KernelUpgrade` | the same node across kernels: alias tables that differ from boot to boot | state machine; `Provisioner` with a reboot into any of `Hosts` |
| `StatusReport` | `main::status` | operators over `Provisioner`'s states |
| `Overlap` | several `apply` and `uninstall` processes on one node | state machine over `Firmware`, with the runs' locals per run |
| `IdleScan` | `main::verify_idle` over `idle::holders`: `/proc`, process by process and link by link | state machine |
| `IdleCheck` | the check as `Provisioner` has it: one look per device | abstract specification |
| `IdleScanKept` | the refinement mapping from `IdleScan` to `IdleCheck` | checked and proved |
| `Rollout` | one profile of the chart over a fleet: hooks, dispatcher, per-node Jobs, labels | state machine; a Job is `apply` or `uninstall`, by its outcome |
| `ProfileIndex` | `tools/profile-index` | state machine: edits, generate, check |
| `DocClaims` | sentences of the documents that the code does not keep | properties over `Provisioner` |
| `FirmwareProofs`, `ModeStageProofs`, `ProvisionerProofs`, `NodeProofs`, `OverlapProofs`, `IdleScanProofs`, `RolloutProofs`, `ProfileIndexProofs` | theorems | see below |
| `MC*` | boards, hosts and readings for TLC | |

### ModeStage

`kind`, `knob` (EEPROM) and `active` (the mode in force) are the hardware;
`plan`, `pending` and `left` are the locals of `nvidia::apply`; `stage` is the
loop that is running. One action is one pass of one loop body: `Open`, `Read`
(a query and `writes_for`), `WriteKnob` or `WriteLost` (one write of a plan),
`Reset`, `Verify` or `Mismatch`; `NextLoop` goes from one loop to the next.
`discover` sorts by PCI address, so `First` takes the devices in order.

The source says two different things of what a query returns between a write
and the reset: the new mode (`nvidia.rs:223`) or, for PPCIE, not yet
(`nvidia.rs:182`). The model does not choose: `reports` is `"knob"` or
`"active"` for the whole behaviour and properties that depend on it say so.
That PPCIE shows on no device before all carry it is stronger than `"active"`
and is not modelled; a verification that fails for it is a `Mismatch`.

`Fail` is an error of any call of the stage or the death of the process, at
any point, with the hardware as it is. `Reboot` resets every device.

### Provisioner

`pc` walks `host, resolve, idle, mode, modules, ids, rules, bind, release,
verify`, in the order of `main::apply`; `todo` holds what the stage has still
to visit. `Stop("failed")` is the `?` of each call. `boot` is the three files:
module names, the ids for vfio-pci, the udev rules. They are written one by one
and `Abort` may leave the one being written empty, because `fs::write`
truncates first. `BootDriver` is what a boot makes of them. `loaded` are the
vfio modules the kernel has: the first `modprobe` of vfio-pci after a boot
reads its ids from the disk and takes the unbound devices that carry one, so a
run that follows an interrupted one may bind a device while it still resolves
drivers (`Modprobe`), and then refuse: that is the one change `RefusedWhole`
lets a refused run leave behind (`AsFound`). `held` is what VMs
have open, `before` is a record of the state a run found that only properties
read.

`AdmitDuringRun` says whether a VM may open a device while a run is in
progress. Nothing in the code prevents it: the run takes no hold on a device
that it found idle, so with `TRUE` a VM can open one between the check and its
reset. The runs and `ResetOnlyIdle` are about `FALSE`, which is what a cordoned
node would give: the check itself looks at everything it has to.

### KernelUpgrade

`KernelReboot` replaces the reboot of `Provisioner`: the node comes up in any
kernel of `Hosts`, which differ in their alias tables only. `BootsTo` is what
that boot makes of the files: a rule that names a module this kernel does not
ship keeps every other driver away and binds nothing.

### Overlap

Each run has its own `at` (the stage), `left`, `plan` and `pending`; the node's
`knob`, `active`, `bound` and `boot` are shared, and every visit of a device and
every file written is a step that interleaves with those of the others. A reset
has a begin and an end, between which others go on. `Fail(r)` is the `?` of any
call of run `r`, or the death of its process there: it may come at any step, so
also at a query, a write or a reset of a device that another run has in the
middle of a reset. A run that fails in a reset leaves the device reset or not,
one that dies in `fs::write` leaves the file `torn`. A run ends `"ok"`,
`"erred"`, or `"refused"`: by `Verify`, when it finds a mode or a binding
that is not its own. It starts behind the checks, which read only; VMs are
`Provisioner`'s.

### IdleScan and IdleCheck

For each device asked about, `EnterDevice` starts a scan; `ListTo(p)` is the
listing of `/proc` getting to a process, which may skip or include one that was
born or died meanwhile; `Visit` lists its descriptors, `ReadLink` reads one.
The other processes start, exit, open, close and hand on descriptors between
any two of these. `steady` are the descriptors open ever since the scan of the
device began and `gained` says whether a descriptor has appeared since
`verify_idle` began; only properties read them. `MaxBlind` bounds the reads that
fail though the process lives and the descriptor is open: of `/proc`, of one
process's `fd` directory, of one link (`LinkUnreadable`). The code takes each for
"nobody there". The `fd` directory of one process is listed in one step, its
links are read one by one.

`IdleCheck` has one step per device. The mapping takes the visit of a device to
the first link that names one of its nodes, or to the end of the listing; every
step of the scan is a step of the check until a descriptor appears (`gained`) or
a read fails. The first is the condition under which `Provisioner` calls a check
sound (`~AdmitDuringRun`).

### Rollout

`Upgrade` and `Uninstall` are the operator's; `queue` holds the hooks Helm has
still to run, the default run first but for `devtools`, in the order of their
names, since they have one weight. `StartRun` lists nodes by the run's selector,
`GiveUp` is a run that waited for nodes in vain, `Provision` and `Unprovision`
create Jobs up to `Parallelism`, `Applied`, `Removed`, `ApplyFails` and
`RemoveFails` are the ways they end. Node labels change at any moment
(`Relabel`, `Discovered`).

`shows` is what queries of a node's devices return when the Job ends. That is
what an Ok has verified, and all it has: a retry, or the next rollout, that
follows a Job killed between its writes and its resets returns Ok and is
labelled with the old mode in force (`doc_active`). What the devices behave in
is `ModeStage`'s subject, so no property of `Rollout` speaks of it.

Helm may give up on a run at any point of it. `DispatcherDies` loses the
dispatcher's pod: with `backoffLimit: 0` the hook has failed there and then, and
the Jobs it created go on with nobody to see how they end. `HelmTimesOut` ends
Helm's wait: the dispatcher goes on with all its run has to do, and labels what
succeeds. Either way these Jobs are `loose`. They run beside the next rollout and
beside the uninstall, may end before or after anything those do, and may be
deleted half way, since they belong to the dispatcher's Job
(`--owner-job-name`) and that goes with the next hook of its name or its `ttl`.
The bookkeeping of what that touches is `crossed`: nodes where a rollout, or the
listing of a cleanup, met something loose.

Dispatcher and Helm are not in the repository. What they do is taken from the
chart's flags and comments. Where the comments describe a behaviour that decides
a property it is a parameter: the dispatcher image is one of the values
(`job.dispatcherImage`, `values.yaml:109`), and a values record's `sweeps` says
whether that image unprovisions nodes of the run's instance that the run does
not select (`_helpers.tpl:378`, `values.yaml:138`). All runs of a profile share
one instance (`_helpers.tpl:383`), so with overrides and a sweeping image, which
is what the comments describe, each run takes back what the runs before it
have provisioned: the node ends `Bare`, without label and boot files, in a
release that Helm calls deployed. `DeployedMeansProvisioned` says so, node by
node (`Overtaken`). The cleanup run has no `--cleanup-job-template` and takes
back nothing but what it lists.

### ProfileIndex

`Generate` and `Check` are the two ways `generate` ends; catalog, values files
and the committed index are edited by hand in between. `shown` is a family's
display name and model examples, which the index repeats. The digest of a
profile is the profile.

## Runs

| run | question | bounds |
|---|---|---|
| `mode_stage` | do the five loops keep their promises over any sequence of runs in any modes | four boards of three devices (HGX Hopper, one with an older GPU, Blackwell beside Hopper beside a NIC, Grace beside Blackwell), both readings, one cut-short run, one lost write |
| `provisioner` | do whole runs, in any sequence with uninstalls, VMs, crashes, torn files and reboots; does `status --probe` agree with the run before it | four boards of two devices (two PPCIE boards, one of them Grace; a Grace GPU beside Blackwell; Blackwell beside a GPU older than Hopper), five hosts (alias table with and without the Grace driver, the switch or a GPU held by a host driver, IOMMU off), one fault, one lost write; any set of devices may be unreadable at a probe, which is the one fault |
| `node_promise` | do `apply` and `uninstall` implement `NodePromise`, and does a run end when VMs hold devices | a PPCIE board, whose switch enters and leaves the passthrough set, and a Grace GPU beside a NIC, two hosts, one fault; hardware that reports its EEPROM |
| `idle_scan` | can a process that keeps a device open escape the scan, whatever the others do; is the scan the one-step check `Provisioner` takes it for; does it end | three devices, two of them in one group, one with a cdev, one that no node gives to a VM; two processes, two descriptors each, one failed read of `/proc` |
| `overlap` | what do two runs at once do to one another | three boards of two devices, every pair of `on`, `off`, `ppcie` and an uninstall, both readings; either run may fail or be killed in any call |
| `kernel_upgrade` | what do runs and boots of changing kernels make of old files | two boards, four alias tables, one fault, one lost write |
| `rollout` | do rollouts keep what "deployed" and "uninstalled" say, with overrides and a dispatcher that sweeps or does not, beside Jobs of a run that was given up; and does each end | two nodes of which one or both are eligible, two releases with an override (one sweeps), two rollouts, one run given up, one change of a node's labels, one Job at a time |
| `profile_index` | does a passing check mean a deployable index, after any edits | two profiles and MIXED-FLEET, thirteen catalogs, eight contents of a values file, two indexes written by hand |
| `doc_active`, `doc_overlap`, `doc_stale_label`, `doc_uninstall` | a sentence of the documents each | the smallest instance that tells the story |

Why the bounds are enough. Devices interact in the mode stage only through
"all knobs before any reset" and "any failure stops all": two devices show
both, a third shows a device between two others. Every distinct plan (none,
one write of either kind, two writes) occurs on these boards, because the
knobs start anywhere they may. A second cut-short run starts from hardware
that a first one can leave already, and a `MaxFaults` of one lets that state be
met by any later run; the theorems have no such bound. Between the hosts every
branch of `ResolveModule`, `HostAccepts`, `Bindable` and `BootDriver` is taken.
In the scan, a handover takes two processes and a process that moves a holder
between two of its own descriptors takes two descriptors. Two runs are the
fewest that overlap and the chart's own case; the proofs take any number. A
second rollout, or an uninstall, meets whatever a first left, loose Jobs
included; nodes meet only through `Parallelism`, the run they are in and the end
of it, which two show. The proofs take any number of all of these.

`Overlap` and `Rollout` really stop: all runs are over, or a release is gone. The
bounds on rollouts and relabellings stop the rest. So deadlock is not checked
there; `RolloutEnds` says what a deadlock of a rollout would break, and the steps
of a run in `Overlap` wait for no other run.

Properties of `mode_stage`: `SuccessIsReported`, `KnobsBeforeResets`,
`TornOnlyByFault`, `SuccessIsActive`, `ResetIsNeeded`, `NoFalseAlarm` and the
proofs' `InductiveInvariant`. That a run ends is no question there: the stage is
five `for` loops over lists of devices and of at most two writes. Several hold
only without a fault or a lost write, or with one reading; each condition is
needed, and `DocClaims` has the counterexample for the one that matters.

`node_promise` checks the whole of `Provisioner` against a specification of a
page: devices change only while a run is in progress and none that a VM has
open, Ok means every binding and every mode, a node already there is not
changed at all, a reboot keeps what was applied and what an uninstall gave
back. It holds for hardware that reports its EEPROM. With the other reading the
promise of a reboot fails after a crash between the writes and the resets: a run
that asks for the old mode, as a rollback would, finds it reported and returns
Ok, and the next reset brings up the mode that was given up.

Properties of `provisioner`: `ResetOnlyIdle`, `SuccessIsWhole`,
`ComesBackBound`, `RefusedWhole`, `ConvergedRunIsHarmless`, `LabelsNameTheMode`,
`UninstallHandsBack`, `StatusAgreesWithRun` and the proofs' `RunInvariant`. The
comment on each says what it means and where the code makes it true.

Properties of the other runs. `SteadyHolderIsFound`: a device is passed only if
no process kept one descriptor of it open through its scan, in whatever order
processes come and go. `PassedStayIdle` and `ScanIsCheck` are what the stages
behind the check rely on. `NoResetOwed`: however writes and resets of several
runs interleave, when the last one is over `active` is `knob`, because each run
resets what it wrote, after it wrote it; but for devices that a run had written
when it failed, and that no other run has reset since. `AgreedRunsStand`: runs to
one mode do not undo one another. They may fail, in a call that collides with
another's reset as well as for reasons of their own; but none is refused at its
verifications for what another did, and what an Ok has said stays true while the
slower ones write, reset, bind, persist and fail behind it, up to a boot file that
one of them dies in writing. `CoherentNeverGeneric`: no files and no boot put a
coherent GPU on plain vfio-pci, on any kernel. `ComesBackOnThisKernel` is
`ComesBackBound` over old files of other kernels. `StatusAgreesWithRun` compares
two computations of the code with one another, since `status` has its own
predicates. `DeployedMeansProvisioned`, `SteadyNodeRunsOnce` and
`UninstallLeavesOnlyStrays` relate what Helm reports to the nodes, except for
nodes relabelled during the rollout (`moved`) and nodes where a Job of a run given
up was still under way (`crossed`): there the last writer wins, whichever it is.
`UninstallLeavesOnlyStrays` excepts also nodes that carry no label because the
last Job on them failed, or ended with nobody to see it: one that failed behind
`persist` has boot files and nothing for the cleanup to select it by. Such a node
may have been labelled before, and lost its label to a sweep.
`IndexIsDeployable` and `ChecksAgree` relate a verdict to files that
have changed under it.

Fairness. On a node the only fairness assumed is weak fairness of the process's
own next step (`RunStep`, `ScanStep`): a process that is scheduled and
not killed goes on.
VMs need never stop, operators need never start anything and nothing is
assumed of the hardware; in particular the release of a held device stays
disabled for as long as the VM lives, and `ApplyEnds` holds because the run
never gets there, given that no VM opens a device behind the check
(`~AdmitDuringRun`): one that did would block the release at `main.rs:226`.
`ScanEnds` needs nothing of the other processes: the listing
goes by ascending pid, so births behind it do not make it longer. Over a fleet,
`FairRollout` assumes weak fairness of the dispatcher's steps and of the Jobs:
`activeDeadlineSeconds` (`_helpers.tpl:256`) ends a Job one way or the other and
`waitForNodesSeconds` ends the wait for nodes. The dispatcher may still die at
any moment, which with `backoffLimit: 0` ends the hook at once. Nothing is asked
of what is loose.

## What the documents say and the code does not do

* `doc_active`. With hardware that reports what its EEPROM holds
  (`nvidia.rs:223`): a run dies after its writes and before its resets. The
  next run finds nothing to write, so it resets nothing, verifies what is
  reported and returns Ok. The device behaves in the old mode until it is
  reset for another reason. With the other reading the next run resets it.
* `doc_overlap`. A run to `off`, planned earlier, writes a device behind the last
  verification of a run to `on`: one Ok, one failure, and a board in both modes.
* `doc_stale_label`. Nothing takes a label away when a Job fails half way to
  another mode.
* `doc_uninstall`. `_helpers.tpl:284-285` says uninstall has to reach every node
  the install ever touched, `cleanup-dispatcher-job.yaml:5-6` every node the
  release ever provisioned. The cleanup selects by the result label: a node
  whose only Job failed behind `persist` has none, keeps its boot configuration,
  and Helm calls the uninstall done. The same Job belies `NOTES.txt:22`, "nothing
  was changed on a node that failed": files, and before them resets, are
  behind it. `RefusedWhole` has what does hold of a node that is refused, with
  its exceptions.

Read in the code or the chart, and not the subject of a run:

* `ARCHITECTURE.md:347` says a C2C node is refused for any mode but `off`.
  `verify_capable` makes that check only if the mode turns per-GPU CC on; `ppcie`
  does not, and GH200 counts as Hopper, so it passes (`VerifyCapable`).
* `ARCHITECTURE.md:42` has the idle check before driver resolution.
  `main::apply` resolves, and loads modules, first; `:54` says of the resolution
  that nothing has been mutated before it, and the `modprobe` that it makes can
  itself bind devices whose ids an earlier run left (`AsFound`).
* `ARCHITECTURE.md:173-177` and `:211-216` speak of rollouts that pass over
  satisfied nodes by `--skip-satisfied-nodes`. The chart gives no dispatcher that
  flag: every rollout runs a Job on every node it selects, and
  `ConvergedRunIsHarmless` is why that does no harm.
* `README.md:140` says an uninstall releases the devices, `NOTES.txt:24-26` that
  it leaves live bindings alone. The code does the latter: `UninstallHandsBack` is
  about the next boot.
* `README.md:130-138` and `NOTES.txt:8` give a node with an override that mode
  "instead". With a dispatcher that sweeps, which is the one `_helpers.tpl:378-383`
  and `values.yaml:137-141` describe, only the last run's nodes are left with
  theirs (`DeployedMeansProvisioned`). Whether the image the chart names sweeps,
  the repository does not say.

Properties that hold only under a condition have their story too; it is told with
the condition. A reset can meet a VM that came after the check (`AdmitDuringRun`),
a device handed from a process ahead of the scan to one behind it is not found
(`gained`, `steady`), nor one whose process could not be read (`blind`); a
run or uninstall cut short leaves ids that the next run's own `modprobe` acts on,
before that run's idle check refuses (`AsFound`); a
failure between two writes leaves a board in two modes until the next run
(`SuccessIsWhole` is about runs that return Ok); a crash in `fs::write` leaves a
boot file empty (`ComesBackBound` is about files that are written); a node on which
`nvidia-nvswitch` holds the switch is refused at the bind, behind the resets
(the exception `RefusedWhole` makes); a GPU older than Hopper that no alias names
fails the resolution, under `off` too.

## Proofs

`FirmwareProofs` is about the plan, for every pair of knob values and every
mode: `WritesForTyped` (at most two writes, each for a knob the device has, so
`Handle::write` never meets its `bail!`), `PlanReachesMode` (the writes, with
each clearing the other's knob as the firmware does, end in the mode) and
`PutIsSound` (a write keeps the knobs exclusive).

`ModeStageProofs` proves each invariant of `mode_stage` for every set of
devices, every board, and any number of faults and lost writes. Assumed are
only the named assumptions of the module: devices are naturals (the address
order), boards map devices to kinds, readings are the two, bounds are naturals.

None of the invariants is inductive alone. `TornOnlyByFault`, say, needs to
know that a device whose EEPROM was written is pending and that the reset loop
visits everything pending. The inductive invariant is built in layers, each
proved on top of those before:

1. `Bookkeeping`: types, sound knobs, plans that fit the device, and `Planned`,
   which ties `left`, `pending` and `plan` together in each loop;
2. `Synced`: without a fault, EEPROM and behaviour differ only on a device that
   waits for its reset (gives `TornOnlyByFault`);
3. `OnCourse`: what is left of each plan takes the EEPROM to the mode (gives
   `KnobsBeforeResets`, `NoFalseAlarm`), where `PlanReachesMode` is used;
4. `Verified`: what the verify loop is past reports the mode (gives
   `SuccessIsReported` and, with `Synced`, `SuccessIsActive`);
5. `Needed`: what waits for a reset does not behave in the mode yet (gives
   `ResetIsNeeded`).

`InvariantHolds` puts them together.

`ProvisionerProofs` proves whole runs, for every board, every host and any
number of faults and lost writes; the only further assumption is what a host
is: an alias for each kind or none, a boot driver that is not a vfio driver.
First, `StageStep`: each step of a run is a step of the mode stage, leaves it
alone, or is a failure elsewhere that only its counter sees; so the stage's
invariant holds inside a run (`StageInvariantStep`). The run's own invariant
says what each stage leaves to the ones behind it, because none of the
properties of a finished run says how it got there:

1. `Resolved`: past the resolution every device for passthrough has the module
   its kind resolves to, and no run has a result before it ends;
2. `Admitted` and `ModeDone`: what the host and capability checks accepted stays
   so, and past the mode stage the stage is "ok" for the mode asked for;
3. `BootWritten`: which of the three files are written, or removed, so far;
4. `Bound`: which devices are bound, or released, so far;
5. `Undisturbed` (where VMs wait for a run to end): a device that is open in a
   VM is still to be looked at, or needs no write, from the idle check on.

`LayersStep`, `AdmittedStep` and `UndisturbedStep` have one case per action,
`LayersHold` puts them together, and from it follow `SuccessIsWholeHolds` (4, 2 and
the stage's `Verified`), `LabelsNameTheModeHolds` (2: a GPU that cannot carry PPCIE
never gets as far as a run for it), `ComesBackBoundHolds` (3 and 1: the files
decide by kind, and so did the run), `UninstallHandsBackHolds` (3) and
`ResetOnlyIdleHolds` (5, under `~AdmitDuringRun`).

`NodeProofs` has what relates one run to another. `RunInvariantHolds` adds three
parts to the layers, for properties that compare a run with the node it found:

* `FilesFit`: ids and rules on the disk, whoever wrote them, are about kinds in
  scope that this kernel resolves so. Only then does a `modprobe` claim nothing
  but what the next run would bind itself;
* `NothingYet`: stage by stage, what a run has left as it found it
  (`RefusedWholeHolds`). Behind the mode stage it can fail of itself at the bind
  only, which needs the layers: verification is of what bind and release have
  just done. `StageIsSound` is the lemma that the mode stage fails only where a
  call failed or a write was lost;
* `Settled`: a run over a node that is already provisioned finds it `InPlace` at
  every step and has nothing to look at, write or refuse
  (`ConvergedRunIsHarmlessHolds`).

`StatusAgreesWithRunHolds` follows from the layers and case by case from the
device table, since `status` has predicates of its own.

`PromiseIsKeptHolds` is the refinement of `NodePromise`: `PromiseStart`, and
`PromiseStep`, in which each action of the provisioner is a step of the promise
or a stutter under the mapping of `PromiseKept`. Changes of devices are allowed by
`ChangesAllowed` (nothing out of scope changes, and nothing in a VM),
reboots by `ComesBackBound` and `UninstallHandsBack`, an Ok by `SuccessIsWhole`,
a run over a converged node by `Settled`. It assumes what the run assumes: hardware
that reports its EEPROM and `~AdmitDuringRun`; each is needed (see above).

`CoherentNeverGenericHolds` is for any boards, any kernels
and any number of faults: `UpgradeInvariant` says that neither a run's choice nor
a file ever names the generic module for a coherent GPU, which is what a boot
and a `modprobe` act on. It needs of `ResolveModule` only that it never falls
back to the generic module for one. `LayersHoldAcrossKernels` says that the layers
of a run survive a boot into another kernel, which comes between runs: what a
run relies on is what it has resolved itself. `ComesBackOnThisKernelHolds` follows,
since what a run resolves the running kernel ships.

`OverlapProofs` is about any number of runs and devices. `NoResetOwed` holds for
any requests. It is not inductive alone (`ResetInvariantHolds`): `PlansAhead` says a
device a run is about to write is among those it will reset, `ResetsAhead` that
wherever EEPROM and behaviour differ some run is still to come to that device's
reset. A reset by one run of a device another is in the middle of writing is the
case that needs both. It holds with failures: `Owing(r)` is what run `r` may have written and not
reset, by where it is in its loops, and a run that fails keeps exactly that.

`AgreedRunsStandHolds` is for runs that ask for one mode, whichever of them fail or
die. A run's plan was made from what it read, and by the time it writes others
have written: what saves it is that all writes go one way. `Ahead` orders knobs
by the modes they have where the mode asked for wants them, `AheadPut` says a write
towards the mode keeps that order although it clears the other knob, and
`AheadPlan` that a plan which takes knobs to the mode also takes there any that are
ahead of them. `OneWay` is the invariant that makes the order apply (every write
left in any plan is towards the mode, the EEPROM is ahead of the behaviour),
`Onward` that no step goes back, not even one that fails. On these stand
`ModesAhead` (what a run is past stays so), `BindingsAhead` and `FilesAhead`, and
from those that no verification finds another mode or binding (`NoneRefused`).

`IdleScanProofs` proves the scan for any processes, descriptors, devices and
groups. `ScanShape` says which locals are in use where, and `Ahead` where a
descriptor is seen from the scan: beyond the cursor, listed and not read, or in
the directory being read. The invariant is that every steady descriptor is
ahead or found, which gives `SteadyHolderFound`; with `~gained` whatever is open
was open when the scan began, which gives `PassedStayIdleHolds` and the simulation
`ScanImplementsCheck`, the step of `IdleCheck` being that of the first `ReadLink`
that finds a node of the device, or of `LeaveDevice`.

`RolloutProofs` proves the three safety properties of a rollout for any fleet, any
releases, with and without sweeps, any number of rollouts and of runs that are
given up, and without an assumption of its own. `EveryNodeHasItsTurn` is the heart:
a selected node that is neither moved nor crossed is ahead of the rollout, in it,
behind it, or the rollout has a failure that it will tell. What behind means
depends on the runs that came after the node's own: `Behind` has it provisioned
and marked as the instance's, or, once a sweeping run has overtaken it, about to
be taken back or bare. The marker is needed, because it is what a sweep goes by.
`RunsInTurn` and `TurnsAreOver` say that a node's turn comes once, `LooseIsKnown`
that a loose Job can only disturb nodes that are crossed, `LabelsLeadToConf` that
boot files are on labelled nodes or on strays.

`ProfileIndexProofs` proves that a verdict stays true of the files until one is
edited (`VerdictStandsAlways`), from which both properties follow for any catalogs
and contents.

Only model-checked: the liveness properties `ApplyEnds`, `ScanEnds` and
`RolloutEnds`, since liveness under fairness is beyond the prover. Every safety
property, action property and refinement that a passing run checks is also a
theorem, under the assumptions named here.

## Abstractions

* A device id is its kind; an address is a natural; a boot file is a set.
* In `Provisioner` each device is its own IOMMU group. In the source a holder of
  the group node makes every device of the group busy, so the check refuses
  more than here; `IdleScan` has the groups.
* The alias table has one entry per kind or none.
* A vfio module is never unloaded between two boots; nothing in the source
  unloads one.
* In `Provisioner` `/proc` is read at once for each device, which `IdleScan` shows
  to be sound where no VM opens a device meanwhile.
* Parsing of the command line, and the layout of what is printed.
* In `Overlap` the boot files hold devices, not modules and ids, and a device is
  bound or not: which driver it has does not depend on the other runs. Binding a
  device is one step, and so is a query. What a call does that collides with
  another run's reset is not known to the source: it fails, or it works.
* In `IdleScan` the descriptors of one process are listed in one step.
* A Job of `Rollout` succeeds in full or fails before, in or behind the mode
  stage, with and without the boot files; `Provisioner` has what happens inside,
  and `Overlap` what two Jobs on one node do. Retries of a Job are part of its
  outcome.
* Boot: the udev rule and the ids win over the host's own driver, which is what
  `host.rs:16` relies on for GPUs.

## Plan

Done: everything in the table of modules, in this order: `DeviceTable`,
`Firmware`, `ModeStage`, `Provisioner`, `NodePromise`, `DocClaims`, `IdleScan`,
`Overlap`, `KernelUpgrade`, `Rollout`, `StatusReport`, `ProfileIndex`, with their
proofs.

Left:

1. theorems that each step of a run, and of a scan, makes progress (a later stage,
   fewer devices, a shorter plan), which is the half of `ApplyEnds` and `ScanEnds`
   within the prover's reach;
2. several profiles in one release, and one node in two of them.

## Not modelled

* `job.nodes`, an explicit list in place of the selector: it replaces
  `Selected` by a constant set and takes the wait for nodes away.
* The node feature rule and the profiles' values: static rules. What they come
  to is which nodes a rollout selects, and `Rollout` lets that change freely.
* RBAC, the image and CI: no behaviour.
* `pcilibs_rs`, the kernel, Helm and `k8s-job-dispatcher`: external, modelled as
  far as the source or the chart says what it expects of them.
* Command line parsing, logging and the text of errors.
