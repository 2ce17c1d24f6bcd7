---- MODULE NodePromise ----
(***************************************************************************)
(* What the owner of a node is promised, with nothing of how it is done:   *)
(* devices only change while a run is in progress, and never one a VM has  *)
(* open; "applied" means all of it; a run over a node already there        *)
(* changes nothing; a reboot keeps what was applied and, once              *)
(* uninstalled, gives every device back.                                   *)
(***************************************************************************)
CONSTANTS Device,  \* the devices of the node
          Mode     \* the node modes

VARIABLES scope,    \* the devices the provisioner may touch; never changes
          leaving,  \* the devices each mode takes from the host; never changes
          home,     \* where each device is without a provisioner; never changes
          place,    \* where each device is, "host" or "vfio"
          shown,    \* the node modes each device's report agrees with
          behaves,  \* the node modes each device's behaviour agrees with
          inUse,    \* the devices a VM has open
          wish,     \* the mode asked for last
          outcome   \* "running" and "settled" are runs in progress

rigid == <<scope, leaving, home>>
devices == <<place, shown, behaves>>
promiseVars == <<rigid, devices, inUse, wish, outcome>>

Place == [Device -> {"host", "vfio"}]

PromiseInit ==
  /\ scope \in SUBSET Device
  /\ leaving \in [Mode -> SUBSET scope]
  /\ home \in Place
  /\ place = home
  /\ shown \in [Device -> SUBSET Mode]
  /\ behaves = shown
  /\ inUse = {}
  /\ wish \in Mode
  /\ outcome = "none"

\* A node asked again for what was just applied is settled.
Ask(m) ==
  /\ outcome \notin {"running", "settled", "removing"}
  /\ wish' = m
  /\ outcome' = IF outcome = "applied" /\ wish = m THEN "settled" ELSE "running"
  /\ UNCHANGED <<rigid, devices, inUse>>

\* Some devices in scope change, none that is in use.
Change ==
  /\ outcome = "running"
  /\ place' \in Place
  /\ shown' \in [Device -> SUBSET Mode]
  /\ behaves' \in [Device -> SUBSET Mode]
  /\ \A d \in Device : (d \notin scope \/ d \in inUse) =>
       <<place'[d], shown'[d], behaves'[d]>> = <<place[d], shown[d], behaves[d]>>
  /\ UNCHANGED <<rigid, inUse, wish, outcome>>

AllInPlace(m) ==
  \A d \in scope : /\ place[d] = "vfio" <=> d \in leaving[m]
                   /\ m \in shown[d]

Succeed ==
  /\ outcome \in {"running", "settled"}
  /\ AllInPlace(wish)
  /\ outcome' = "applied"
  /\ UNCHANGED <<rigid, devices, inUse, wish>>

AskRemoval ==
  /\ outcome \notin {"running", "settled", "removing"}
  /\ outcome' = "removing"
  /\ UNCHANGED <<rigid, devices, inUse, wish>>

Removed ==
  /\ outcome = "removing"
  /\ outcome' = "uninstalled"
  /\ UNCHANGED <<rigid, devices, inUse, wish>>

GiveUp ==
  /\ outcome \in {"running", "settled", "removing"}
  /\ outcome' = "failed"
  /\ UNCHANGED <<rigid, devices, inUse, wish>>

\* What the devices report is in their EEPROM and in force after a reboot.
Restart ==
  /\ place' \in Place
  /\ \A d \in Device \ scope : place'[d] = home[d]
  /\ outcome = "applied" => \A d \in scope : place'[d] = place[d]
  /\ outcome = "uninstalled" => place' = home
  /\ behaves' = shown
  /\ inUse' = {}
  /\ outcome' = "none"
  /\ UNCHANGED <<rigid, shown, wish>>

\* A VM only ever has a device open that is out of the host's hands, and no
\* new one while a run is in progress.
OpenDevice(d) ==
  /\ outcome \notin {"running", "settled", "removing"}
  /\ place[d] = "vfio"
  /\ inUse' = inUse \cup {d}
  /\ UNCHANGED <<rigid, devices, wish, outcome>>

CloseDevice(d) ==
  /\ inUse' = inUse \ {d}
  /\ UNCHANGED <<rigid, devices, wish, outcome>>

PromiseNext ==
  \/ \E m \in Mode : Ask(m)
  \/ Change \/ Succeed \/ AskRemoval \/ Removed \/ GiveUp \/ Restart
  \/ \E d \in Device : OpenDevice(d) \/ CloseDevice(d)

PromiseSpec == PromiseInit /\ [][PromiseNext]_promiseVars

=============================================================================
