---- MODULE IdleScan ----
(***************************************************************************)
(* verify_idle, the step of Provisioner that is anything but one step: for *)
(* every device the run would change, idle::holders walks /proc process by *)
(* process and descriptor by descriptor, while the processes it looks at   *)
(* start, open and close devices, hand descriptors on and exit.            *)
(*                                                                         *)
(* A VM holds a device by the group node of its IOMMU group or by the      *)
(* device's own cdev.  Processes and descriptors are their numbers: /proc  *)
(* lists them in that order, the processes in as many reads as it takes,   *)
(* the descriptors of one process in one.                                  *)
(***************************************************************************)
EXTENDS Integers

CONSTANTS Device,   \* PCI addresses
          Group,    \* the IOMMU group of each device, negative without one
          Cdevs,    \* the devices that have a cdev
          Process,  \* pids
          Fd,       \* descriptor numbers
          MaxBlind  \* how many reads of /proc may fail although the process lives

ASSUME ScanAssumption ==
  /\ Device \subseteq Nat /\ Process \subseteq Nat /\ Fd \subseteq Nat
  /\ Group \in [Device -> Int]
  /\ Cdevs \subseteq Device
  /\ MaxBlind \in Nat

Node == {<<"group", Group[d]>> : d \in Device} \cup {<<"cdev", d>> : d \in Device}
Closed == <<"closed", 0>>

VARIABLES alive,    \* the processes of the node
          open,     \* what each descriptor of each process is
          asked,    \* the devices verify_idle was given
          todo,     \* those it has not passed yet; the first is being scanned
          at,       \* where the scan is: "device", "list", "read"
          cursor,   \* the last pid that /proc has listed
          pids,     \* the listed processes not yet visited
          fds,      \* the listed descriptors not yet read of the first of them
          found,    \* the holders found
          verdict,  \* "none", "scanning", "idle", "busy"
          blind,    \* how many reads failed
          gained,   \* has a descriptor of a device appeared since the scan began
          steady    \* descriptors open on the device since its scan began;
                    \* these two only the properties read

world == <<alive, open>>
place == <<at, cursor, pids, fds>>
scan == <<asked, todo, place, found, verdict, blind>>
history == <<gained, steady>>
scanVars == <<world, scan, history>>

First(n, S) == n \in S /\ \A m \in S : n =< m

\* Bugs: a VM that opened the cdev, or the group node, is not looked for.
VfioNodes_GroupOnly(d) ==
  IF Group[d] >= 0 THEN {<<"group", Group[d]>>} ELSE {}
VfioNodes_CdevOnly(d) == IF d \in Cdevs THEN {<<"cdev", d>>} ELSE {}

\* vfio_nodes: the nodes the scan looks for.
VfioNodes(d) ==
  (IF Group[d] >= 0 THEN {<<"group", Group[d]>>} ELSE {}) \cup
  (IF d \in Cdevs THEN {<<"cdev", d>>} ELSE {})

\* The kernel's side: the nodes there are, and which devices one gives its
\* holder, the group node all those of the group.
Exists(n) == \/ n[1] = "group" /\ n[2] >= 0
             \/ n[1] = "cdev" /\ n[2] \in Cdevs
Gives(n, d) == n \in {<<"group", Group[d]>>, <<"cdev", d>>} /\ Exists(n)

Holders(d, o) == {pf \in Process \X Fd : Gives(o[pf[1]][pf[2]], d)}
Held(d, o) == Holders(d, o) # {}

-----------------------------------------------------------------------------

ScanTypeOK ==
  /\ alive \subseteq Process
  /\ open \in [Process -> [Fd -> Node \cup {Closed}]]
  /\ asked \subseteq Device /\ todo \subseteq asked
  /\ at \in {"device", "list", "read"}
  /\ cursor \in Process \cup {-1}
  /\ pids \subseteq Process
  /\ fds \subseteq Fd
  /\ found \subseteq Process \X Node
  /\ verdict \in {"none", "scanning", "idle", "busy"}
  /\ blind \in 0..MaxBlind /\ gained \in BOOLEAN
  /\ steady \subseteq Process \X Fd

AtNoProcess == at = "device" /\ cursor = -1 /\ pids = {} /\ fds = {}

ScanInit ==
  /\ alive = {}
  /\ open = [p \in Process |-> [f \in Fd |-> Closed]]
  /\ asked = {} /\ todo = {}
  /\ AtNoProcess
  /\ found = {}
  /\ verdict = "none"
  /\ blind = 0 /\ gained = FALSE
  /\ steady = {}

-----------------------------------------------------------------------------
(* The processes of the node.                                              *)

StillHeld(o) ==
  /\ steady' = {pf \in steady : o[pf[1]][pf[2]] # Closed}

Birth(p) ==
  /\ p \notin alive
  /\ alive' = alive \cup {p}
  /\ UNCHANGED <<open, scan, history>>

\* Opened, duplicated, inherited, or received from another process.
Gain(p, f, n) ==
  /\ p \in alive
  /\ open[p][f] = Closed
  /\ Exists(n)
  /\ open' = [open EXCEPT ![p][f] = n]
  /\ gained' = (verdict = "scanning")
  /\ UNCHANGED <<alive, scan, steady>>

Close(p, f) ==
  /\ open[p][f] # Closed
  /\ open' = [open EXCEPT ![p][f] = Closed]
  /\ StillHeld(open')
  /\ UNCHANGED <<alive, scan, gained>>

Exit(p) ==
  /\ p \in alive
  /\ alive' = alive \ {p}
  /\ open' = [open EXCEPT ![p] = [f \in Fd |-> Closed]]
  /\ StillHeld(open')
  /\ UNCHANGED <<scan, gained>>

-----------------------------------------------------------------------------
(* The scan.                                                               *)

Begin(devices) ==
  /\ verdict # "scanning"
  /\ verdict' = "scanning"
  /\ asked' = devices /\ todo' = devices
  /\ found' = {}
  /\ gained' = FALSE
  /\ UNCHANGED <<world, place, blind, steady>>

\* The scan of the first device begins: /proc is opened.
EnterDevice(d) ==
  /\ verdict = "scanning" /\ at = "device"
  /\ First(d, todo)
  /\ VfioNodes(d) # {}
  /\ at' = "list"
  /\ found' = {}
  /\ steady' = Holders(d, open)
  /\ UNCHANGED <<world, asked, todo, cursor, pids, fds, verdict, blind, gained>>

\* holders returns no holder: there is nothing to look for.
NothingToLookFor(d) ==
  /\ verdict = "scanning" /\ at = "device"
  /\ First(d, todo)
  /\ VfioNodes(d) = {}
  /\ todo' = todo \ {d}
  /\ UNCHANGED <<world, asked, place, found, verdict, blind, history>>

\* holders returns no holder: read_dir("/proc") failed.
ProcUnreadable(d) ==
  /\ verdict = "scanning" /\ at = "device"
  /\ First(d, todo)
  /\ VfioNodes(d) # {}
  /\ blind < MaxBlind
  /\ blind' = blind + 1
  /\ todo' = todo \ {d}
  /\ UNCHANGED <<world, asked, place, found, verdict, history>>

Unlisted == {p \in alive : p > cursor}

\* Bug: the listing starts over.
ListTo_FromTheStart(p) ==
  /\ at = "list" /\ pids = {}
  /\ p \in Unlisted
  /\ pids' = {q \in Unlisted : q =< p}
  /\ UNCHANGED <<world, asked, todo, at, cursor, fds, found, verdict, blind, history>>

\* The kernel fills a buffer with the next processes, as many as it takes.
ListTo(p) ==
  /\ at = "list" /\ pids = {}
  /\ p \in Unlisted
  /\ pids' = {q \in Unlisted : q =< p}
  /\ cursor' = p
  /\ UNCHANGED <<world, asked, todo, at, fds, found, verdict, blind, history>>

\* /proc/<pid>/fd is read; a process that has exited is skipped.
Visit(p) ==
  /\ at = "list"
  /\ First(p, pids)
  /\ IF p \in alive
     THEN /\ fds' = {f \in Fd : open[p][f] # Closed}
          /\ at' = "read"
          /\ UNCHANGED pids
     ELSE pids' = pids \ {p} /\ UNCHANGED <<at, fds>>
  /\ UNCHANGED <<world, asked, todo, cursor, found, verdict, blind, history>>

\* It is skipped as well if the read fails for any other reason.
FdsUnreadable(p) ==
  /\ at = "list"
  /\ First(p, pids)
  /\ p \in alive
  /\ blind < MaxBlind
  /\ blind' = blind + 1
  /\ pids' = pids \ {p}
  /\ UNCHANGED <<world, asked, todo, at, cursor, fds, found, verdict, history>>

\* So is a link that cannot be read although its descriptor is still open.
LinkUnreadable(p, f) ==
  /\ at = "read"
  /\ First(p, pids) /\ First(f, fds)
  /\ open[p][f] # Closed
  /\ blind < MaxBlind
  /\ blind' = blind + 1
  /\ fds' = fds \ {f}
  /\ UNCHANGED <<world, asked, todo, at, cursor, pids, found, verdict, history>>

\* Bug: any node under /dev/vfio is taken for one of the device's.
ReadLink_AnyNode(d, p, f) ==
  /\ at = "read"
  /\ First(d, todo) /\ First(p, pids) /\ First(f, fds)
  /\ fds' = fds \ {f}
  /\ found' = found \cup {<<p, n>> : n \in {open[p][f]} \ {Closed}}
  /\ UNCHANGED <<world, asked, todo, at, cursor, pids, verdict, blind, history>>

\* The link of one descriptor is read, whatever it has become since.
ReadLink(d, p, f) ==
  /\ at = "read"
  /\ First(d, todo) /\ First(p, pids) /\ First(f, fds)
  /\ fds' = fds \ {f}
  /\ found' = found \cup {<<p, n>> : n \in {open[p][f]} \cap VfioNodes(d)}
  /\ UNCHANGED <<world, asked, todo, at, cursor, pids, verdict, blind, history>>

LeaveProcess(p) ==
  /\ at = "read" /\ fds = {}
  /\ First(p, pids)
  /\ pids' = pids \ {p}
  /\ at' = "list"
  /\ UNCHANGED <<world, asked, todo, cursor, fds, found, verdict, blind, history>>

\* Bug: only the last device's answer counts.
LeaveDevice_LastCounts(d) ==
  /\ at = "list" /\ pids = {} /\ Unlisted = {}
  /\ First(d, todo)
  /\ IF found # {} /\ todo = {d} THEN verdict' = "busy" /\ UNCHANGED todo
                                 ELSE todo' = todo \ {d} /\ UNCHANGED verdict
  /\ at' = "device" /\ cursor' = -1
  /\ steady' = {}
  /\ UNCHANGED <<world, asked, pids, fds, found, blind, gained>>

\* The listing has ended: verify_idle refuses, or goes on to the next device.
LeaveDevice(d) ==
  /\ at = "list" /\ pids = {} /\ Unlisted = {}
  /\ First(d, todo)
  /\ IF found # {} THEN verdict' = "busy" /\ UNCHANGED todo
                   ELSE todo' = todo \ {d} /\ UNCHANGED verdict
  /\ at' = "device" /\ cursor' = -1
  /\ steady' = {}
  /\ UNCHANGED <<world, asked, pids, fds, found, blind, gained>>

AllIdle ==
  /\ verdict = "scanning" /\ at = "device" /\ todo = {}
  /\ verdict' = "idle"
  /\ UNCHANGED <<world, asked, todo, place, found, blind, history>>

ScanStep ==
  \/ \E d \in Device : \/ EnterDevice(d) \/ NothingToLookFor(d) \/ LeaveDevice(d)
                       \/ \E p \in Process, f \in Fd : ReadLink(d, p, f)
  \/ \E p \in Process : ListTo(p) \/ Visit(p) \/ LeaveProcess(p)
  \/ AllIdle

ScanFails == \/ \E d \in Device : ProcUnreadable(d)
             \/ \E p \in Process : FdsUnreadable(p) \/ \E f \in Fd : LinkUnreadable(p, f)

ProcessStep ==
  \E p \in Process :
    \/ Birth(p) \/ Exit(p)
    \/ \E f \in Fd : Close(p, f) \/ \E n \in Node : Gain(p, f, n)

ScanNext ==
  \/ \E devices \in SUBSET Device : Begin(devices)
  \/ ScanStep \/ ScanFails \/ ProcessStep

ScanSpec == ScanInit /\ [][ScanNext]_scanVars

\* The process that scans goes on; the others owe nobody a step.
ScanFairSpec == ScanSpec /\ WF_scanVars(ScanStep)

-----------------------------------------------------------------------------
(* Properties.                                                             *)

\* verify_idle passes no device on which some process kept one descriptor, of
\* the group node or of the cdev, open all through the scan of that device,
\* whatever the other processes did meanwhile: those that started, exited or
\* moved between two reads hide nobody else (idle.rs:54).  Unless a read of
\* /proc failed: then the scan takes the node for idle.
SteadyHolderIsFound ==
  [][(verdict = "scanning" /\ verdict' = "scanning" /\ todo' # todo /\ blind' = 0)
       => steady = {}]_scanVars

\* Where no descriptor appears during the scan, the answers hold together: a
\* device passed early is still idle while the later ones are scanned, and
\* when verify_idle returns Ok (ARCHITECTURE.md:54).
PassedStayIdle ==
  (~gained /\ blind = 0 /\ verdict = "scanning") =>
    \A d \in asked \ todo : ~Held(d, open)

\* A scan ends, however many processes come and go.
ScanEnds == verdict = "scanning" ~> verdict # "scanning"

-----------------------------------------------------------------------------
(* The inductive invariant: a steady holder is found or still ahead.       *)

\* The scan of the current device has it in front of it.
Ahead(p, f) ==
  \/ p > cursor
  \/ p \in pids /\ (at = "read" => ~First(p, pids) \/ f \in fds)

ScanShape ==
  /\ \A p \in Process, f \in Fd : open[p][f] # Closed => p \in alive
  /\ at = "device" => AtNoProcess /\ steady = {}
  /\ at # "device" => verdict = "scanning" /\ \E d \in todo : First(d, todo)
  /\ at # "read" => fds = {}
  /\ (at = "device" /\ verdict = "scanning") => found = {}
  /\ \A p \in pids : p =< cursor

SteadyAhead ==
  at # "device" =>
    /\ \A d \in todo : First(d, todo) =>
         /\ steady \subseteq Holders(d, open)
         /\ ~gained => steady = Holders(d, open)
    /\ (blind = 0 /\ found = {}) => \A pf \in steady : Ahead(pf[1], pf[2])

ScanInvariant == ScanTypeOK /\ ScanShape /\ SteadyAhead /\ PassedStayIdle

=============================================================================
