---- MODULE IdleScanProofs ----
(***************************************************************************)
(* Theorems about the scan of /proc, for any devices, groups, processes    *)
(* and descriptors.                                                        *)
(***************************************************************************)
EXTENDS IdleScanKept, TLAPS

USE ScanAssumption DEF ScanAssumption

\* The code looks for exactly the nodes that give a VM the device.
LEMMA NodesAreComplete ==
  ASSUME NEW d \in Device, NEW n \in Node \cup {Closed}
  PROVE  n \in VfioNodes(d) <=> Gives(n, d)
  BY DEF VfioNodes, Gives, Exists, Node, Closed

LEMMA NodesAreNodes == \A d \in Device : VfioNodes(d) \subseteq Node
  BY DEF VfioNodes, Node

LEMMA FirstIsUnique ==
  ASSUME NEW S \in SUBSET Nat, NEW m, NEW n, First(m, S), First(n, S)
  PROVE  m = n
  BY DEF First

LEMMA HoldersAreOpen ==
  ASSUME NEW d \in Device, NEW pf \in Holders(d, open)
  PROVE  pf \in Process \X Fd /\ open[pf[1]][pf[2]] # Closed
  BY DEF Holders, Gives, Closed

LEMMA InitTyped == ScanInit => ScanInvariant
<1> SUFFICES ASSUME ScanInit PROVE ScanInvariant
  OBVIOUS
<1> USE DEF ScanInit, AtNoProcess
<1>1. ScanTypeOK
  <2>1. open \in [Process -> [Fd -> Node \cup {Closed}]]
    OBVIOUS
  <2>2. gained \in BOOLEAN
    BY Zenon
  <2>3. blind \in 0..MaxBlind /\ cursor \in Process \cup {-1}
    BY SMT
  <2> QED BY <2>1, <2>2, <2>3 DEF ScanTypeOK
<1>2. ScanShape
  BY DEF ScanShape
<1>3. SteadyAhead /\ PassedStayIdle
  BY DEF SteadyAhead, PassedStayIdle
<1> QED BY <1>1, <1>2, <1>3 DEF ScanInvariant

LEMMA TypeStep == ScanTypeOK /\ [ScanNext]_scanVars => ScanTypeOK'
<1> SUFFICES ASSUME ScanTypeOK, [ScanNext]_scanVars PROVE ScanTypeOK'
  OBVIOUS
<1> USE DEF ScanTypeOK, world, place, scan, history, AtNoProcess, First
<1>1. ASSUME NEW devices \in SUBSET Device, Begin(devices) PROVE ScanTypeOK'
  BY <1>1 DEF Begin
<1>2. ASSUME NEW d \in Device,
             EnterDevice(d) \/ NothingToLookFor(d) \/ LeaveDevice(d)
      PROVE  ScanTypeOK'
  BY <1>2 DEF EnterDevice, NothingToLookFor, LeaveDevice, Holders
<1>3. ASSUME NEW d \in Device, NEW p \in Process, NEW f \in Fd, ReadLink(d, p, f)
      PROVE  ScanTypeOK'
  <2>1. {<<p, n>> : n \in {open[p][f]} \cap VfioNodes(d)} \subseteq Process \X Node
    BY NodesAreNodes
  <2> QED BY <1>3, <2>1 DEF ReadLink
<1>4. ASSUME NEW p \in Process, ListTo(p) \/ Visit(p) \/ LeaveProcess(p)
      PROVE  ScanTypeOK'
  <2>1. CASE ListTo(p)
    BY <2>1 DEF ListTo, Unlisted
  <2>2. CASE Visit(p)
    BY <2>2 DEF Visit
  <2>3. CASE LeaveProcess(p)
    BY <2>3 DEF LeaveProcess
  <2> QED BY <1>4, <2>1, <2>2, <2>3
<1>5. ASSUME AllIdle PROVE ScanTypeOK'
  BY <1>5 DEF AllIdle
<1>6. ASSUME NEW d \in Device, ProcUnreadable(d) PROVE ScanTypeOK'
  BY <1>6 DEF ProcUnreadable
<1>7. ASSUME NEW p \in Process, FdsUnreadable(p) \/ \E f \in Fd : LinkUnreadable(p, f)
      PROVE  ScanTypeOK'
  <2>1. CASE FdsUnreadable(p)
    BY <2>1 DEF FdsUnreadable
  <2>2. ASSUME NEW f \in Fd, LinkUnreadable(p, f) PROVE ScanTypeOK'
    BY <2>2 DEF LinkUnreadable
  <2> QED BY <1>7, <2>1, <2>2
<1>8. ASSUME NEW p \in Process, Birth(p) \/ Exit(p) PROVE ScanTypeOK'
  <2>1. CASE Birth(p)
    BY <2>1 DEF Birth
  <2>2. CASE Exit(p)
    <3>1. steady' \subseteq steady
      BY <2>2 DEF Exit, StillHeld
    <3>2. open' \in [Process -> [Fd -> Node \cup {Closed}]]
      BY <2>2 DEF Exit
    <3> QED BY <2>2, <3>1, <3>2 DEF Exit
  <2> QED BY <1>8, <2>1, <2>2
<1>9. ASSUME NEW p \in Process, NEW f \in Fd, Close(p, f) PROVE ScanTypeOK'
  BY <1>9 DEF Close, StillHeld
<1>10. ASSUME NEW p \in Process, NEW f \in Fd, NEW n \in Node, Gain(p, f, n)
       PROVE  ScanTypeOK'
  BY <1>10 DEF Gain
<1>11. CASE UNCHANGED scanVars
  BY <1>11 DEF scanVars
<1> QED
  BY <1>1, <1>2, <1>3, <1>4, <1>5, <1>6, <1>7, <1>8, <1>9, <1>10, <1>11
     DEF ScanNext, ScanStep, ScanFails, ProcessStep

\* The bookkeeping of the scan: what it knows of processes and places.
LEMMA ShapeStep ==
  ScanTypeOK /\ ScanShape /\ [ScanNext]_scanVars => ScanShape'
<1> SUFFICES ASSUME ScanTypeOK, ScanShape, [ScanNext]_scanVars PROVE ScanShape'
  OBVIOUS
<1> USE DEF ScanShape, world, place, scan, history, AtNoProcess
<1> USE DEF ScanTypeOK
<1>1. ASSUME NEW devices \in SUBSET Device, Begin(devices) PROVE ScanShape'
  BY <1>1 DEF Begin
<1>2. ASSUME NEW d \in Device,
             EnterDevice(d) \/ NothingToLookFor(d) \/ LeaveDevice(d)
      PROVE  ScanShape'
  <2>1. CASE EnterDevice(d)
    BY <2>1 DEF EnterDevice, First
  <2>2. CASE NothingToLookFor(d)
    BY <2>2 DEF NothingToLookFor
  <2>3. CASE LeaveDevice(d)
    BY <2>3 DEF LeaveDevice
  <2> QED BY <1>2, <2>1, <2>2, <2>3
<1>3. ASSUME NEW d \in Device, NEW p \in Process, NEW f \in Fd, ReadLink(d, p, f)
      PROVE  ScanShape'
  BY <1>3 DEF ReadLink
<1>4. ASSUME NEW p \in Process, ListTo(p) \/ Visit(p) \/ LeaveProcess(p)
      PROVE  ScanShape'
  <2>1. CASE ListTo(p)
    BY <2>1 DEF ListTo, Unlisted
  <2>2. CASE Visit(p)
    BY <2>2 DEF Visit
  <2>3. CASE LeaveProcess(p)
    BY <2>3 DEF LeaveProcess
  <2> QED BY <1>4, <2>1, <2>2, <2>3
<1>5. ASSUME AllIdle PROVE ScanShape'
  BY <1>5 DEF AllIdle
<1>6. ASSUME NEW d \in Device, ProcUnreadable(d) PROVE ScanShape'
  BY <1>6 DEF ProcUnreadable
<1>7. ASSUME NEW p \in Process, FdsUnreadable(p) \/ \E f \in Fd : LinkUnreadable(p, f)
      PROVE  ScanShape'
  BY <1>7 DEF FdsUnreadable, LinkUnreadable
<1>8. ASSUME NEW p \in Process, Birth(p) \/ Exit(p) PROVE ScanShape'
  <2>1. CASE Birth(p)
    BY <2>1 DEF Birth
  <2>2. CASE Exit(p)
    <3>1. steady' \subseteq steady
      BY <2>2 DEF Exit, StillHeld
    <3>2. \A q \in Process, f \in Fd :
            open'[q][f] # Closed => q # p /\ open[q][f] # Closed
      BY <2>2 DEF Exit
    <3> QED BY <2>2, <3>1, <3>2 DEF Exit
  <2> QED BY <1>8, <2>1, <2>2
<1>9. ASSUME NEW p \in Process, NEW f \in Fd, Close(p, f) PROVE ScanShape'
  BY <1>9 DEF Close, StillHeld
<1>10. ASSUME NEW p \in Process, NEW f \in Fd, NEW n \in Node, Gain(p, f, n)
       PROVE  ScanShape'
  BY <1>10 DEF Gain
<1>11. CASE UNCHANGED scanVars
  BY <1>11 DEF scanVars
<1> QED
  BY <1>1, <1>2, <1>3, <1>4, <1>5, <1>6, <1>7, <1>8, <1>9, <1>10, <1>11
     DEF ScanNext, ScanStep, ScanFails, ProcessStep

-----------------------------------------------------------------------------
(* A steady holder is found or still ahead.                                *)

\* Descriptors that only close leave a device the holders that stay open.
LEMMA ClosingHolders ==
  ASSUME NEW d \in Device, NEW o,
         \A p \in Process, f \in Fd : o[p][f] \in {open[p][f], Closed}
  PROVE  Holders(d, o) = {pf \in Holders(d, open) : o[pf[1]][pf[2]] # Closed}
<1>1. ~Gives(Closed, d)
  BY DEF Gives, Closed
<1> QED BY <1>1 DEF Holders

\* A listing that has ended with nothing found met no steady holder.
LEMMA EndMeetsNoSteady ==
  ASSUME ScanTypeOK, ScanShape, SteadyAhead, blind = 0, found = {},
         NEW d \in Device, LeaveDevice(d)
  PROVE  steady = {}
<1>1. \A pf \in steady : Ahead(pf[1], pf[2]) /\ pf \in Holders(d, open)
  BY DEF SteadyAhead, LeaveDevice, First
<1>2. SUFFICES ASSUME NEW pf \in steady PROVE FALSE
  OBVIOUS
<1>3. pf[1] \in Process /\ pf[1] \in alive
  BY <1>1, HoldersAreOpen DEF ScanShape, Holders
<1>4. pf[1] > cursor
  BY <1>1 DEF Ahead, LeaveDevice
<1> QED BY <1>3, <1>4 DEF LeaveDevice, Unlisted

LEMMA SteadyStep ==
  ASSUME ScanTypeOK, ScanShape, SteadyAhead, [ScanNext]_scanVars
  PROVE  SteadyAhead'
<1> USE DEF world, place, scan, history
<1>1. ASSUME at' = "device" PROVE SteadyAhead'
  BY <1>1 DEF SteadyAhead
<1>2. ASSUME NEW devices \in SUBSET Device, Begin(devices) PROVE SteadyAhead'
  BY <1>1, <1>2 DEF Begin, ScanShape
<1>3. ASSUME NEW d \in Device, EnterDevice(d) PROVE SteadyAhead'
  <2>1. \A e \in todo' : First(e, todo') => e = d
    BY <1>3 DEF EnterDevice, First, ScanTypeOK
  <2>2. \A pf \in steady' : Ahead(pf[1], pf[2])'
    <3>1. cursor' = -1
      BY <1>3 DEF EnterDevice, ScanShape, AtNoProcess
    <3>2. \A pf \in steady' : pf[1] \in Nat
      BY <1>3 DEF EnterDevice, Holders
    <3> QED BY <3>1, <3>2 DEF Ahead
  <2> QED BY <1>3, <2>1, <2>2 DEF EnterDevice, SteadyAhead, Holders
<1>4. ASSUME NEW d \in Device,
             NothingToLookFor(d) \/ ProcUnreadable(d) \/ LeaveDevice(d)
      PROVE  SteadyAhead'
  BY <1>1, <1>4 DEF NothingToLookFor, ProcUnreadable, LeaveDevice
<1>12. ASSUME AllIdle PROVE SteadyAhead'
  BY <1>1, <1>12 DEF AllIdle
<1>5. ASSUME NEW d \in Device, NEW p \in Process, NEW f \in Fd, ReadLink(d, p, f)
      PROVE  SteadyAhead'
  <2>1. ASSUME blind = 0, found' = {}, NEW pf \in steady
        PROVE  Ahead(pf[1], pf[2])'
    <3>1. found = {} /\ open[p][f] \notin VfioNodes(d)
      BY <1>5, <2>1 DEF ReadLink
    <3>2. steady \subseteq Holders(d, open) /\ Ahead(pf[1], pf[2])
      BY <1>5, <2>1, <3>1 DEF ReadLink, SteadyAhead, First
    <3>3. ~Gives(open[p][f], d)
      BY <3>1, NodesAreComplete DEF ScanTypeOK
    <3>4. /\ pf[1] \in Process /\ pf[2] \in Fd /\ Gives(open[pf[1]][pf[2]], d)
      BY <2>1, <3>2 DEF Holders
    <3>7. ~(pf[1] = p /\ pf[2] = f)
      BY <3>3, <3>4
    <3>5. CASE First(pf[1], pids)
      <4>1. pf[1] = p
        BY <1>5, <3>4, <3>5, FirstIsUnique DEF ReadLink, ScanTypeOK
      <4> QED BY <1>5, <3>2, <3>4, <3>5, <3>7, <4>1 DEF ReadLink, Ahead
    <3>6. CASE ~First(pf[1], pids)
      BY <1>5, <3>2, <3>6 DEF ReadLink, Ahead
    <3> QED BY <3>5, <3>6
  <2> QED BY <1>5, <2>1 DEF ReadLink, SteadyAhead, Holders
<1>6. ASSUME NEW p \in Process, ListTo(p) \/ Visit(p) \/ LeaveProcess(p)
      PROVE  SteadyAhead'
  <2>1. at # "device" /\ steady' = steady /\ UNCHANGED <<todo, open, blind, found, gained>>
    BY <1>6 DEF ListTo, Visit, LeaveProcess
  <2>2. ASSUME blind = 0, found = {}, NEW pf \in steady
        PROVE  Ahead(pf[1], pf[2])'
    <3>1. Ahead(pf[1], pf[2])
      BY <2>1, <2>2 DEF SteadyAhead
    <3>2. PICK d \in Device : pf \in Holders(d, open)
      BY <2>1, <2>2 DEF ScanShape, SteadyAhead, ScanTypeOK
    <3>3. /\ pf[1] \in Process /\ pf[2] \in Fd /\ pf[1] \in alive
          /\ open[pf[1]][pf[2]] # Closed
      BY <3>2, HoldersAreOpen DEF ScanShape, Holders
    <3>4. CASE ListTo(p)
      <4>1. pf[1] > cursor
        BY <3>1, <3>4 DEF ListTo, Ahead
      <4>2. pf[1] \in Unlisted /\ p \in Nat /\ pf[1] \in Nat
        BY <3>3, <4>1 DEF Unlisted
      <4>3. pf[1] \in pids' \/ pf[1] > cursor'
        BY <3>4, <4>2 DEF ListTo
      <4> QED BY <3>4, <4>3 DEF ListTo, Ahead
    <3>5. CASE Visit(p)
      <4>1. First(pf[1], pids) => pf[1] = p
        BY <3>5, FirstIsUnique DEF Visit, ScanTypeOK
      <4> QED BY <3>1, <3>3, <3>5, <4>1 DEF Visit, Ahead
    <3>6. CASE LeaveProcess(p)
      <4>1. pf[1] # p
        BY <3>1, <3>3, <3>6 DEF LeaveProcess, Ahead, First, ScanShape, ScanTypeOK
      <4> QED BY <3>1, <3>6, <4>1 DEF LeaveProcess, Ahead
    <3> QED BY <1>6, <3>4, <3>5, <3>6
  <2> QED BY <2>1, <2>2 DEF SteadyAhead, Holders
<1>7. ASSUME NEW p \in Process, FdsUnreadable(p) \/ \E f \in Fd : LinkUnreadable(p, f)
      PROVE  SteadyAhead'
  <2>1. CASE FdsUnreadable(p)
    BY <2>1 DEF FdsUnreadable, SteadyAhead, Holders, ScanTypeOK
  <2>2. ASSUME NEW f \in Fd, LinkUnreadable(p, f) PROVE SteadyAhead'
    BY <2>2 DEF LinkUnreadable, SteadyAhead, Holders, ScanTypeOK
  <2> QED BY <1>7, <2>1, <2>2
<1>8. ASSUME NEW p \in Process, Birth(p) PROVE SteadyAhead'
  BY <1>8 DEF Birth, SteadyAhead, Holders, Ahead
<1>9. ASSUME NEW p \in Process, Exit(p) \/ \E f \in Fd : Close(p, f)
      PROVE  SteadyAhead'
  <2>1. \A q \in Process, g \in Fd : open'[q][g] \in {open[q][g], Closed}
    BY <1>9 DEF Exit, Close, ScanTypeOK
  <2>2. /\ steady' = {pf \in steady : open'[pf[1]][pf[2]] # Closed}
        /\ UNCHANGED <<todo, place, found, blind, gained>>
    BY <1>9 DEF Exit, Close, StillHeld
  <2>3. \A d \in Device : Holders(d, open') =
            {pf \in Holders(d, open) : open'[pf[1]][pf[2]] # Closed}
    BY <2>1, ClosingHolders
  <2> QED BY <2>2, <2>3 DEF SteadyAhead, Ahead, ScanTypeOK
<1>10. ASSUME NEW p \in Process, NEW f \in Fd, NEW n \in Node, Gain(p, f, n)
       PROVE  SteadyAhead'
  <2>1. CASE at = "device"
    BY <1>1, <1>10, <2>1 DEF Gain
  <2>2. CASE at # "device"
    <3>1. gained'
      BY <1>10, <2>2 DEF Gain, ScanShape
    <3>2. ASSUME NEW d \in Device, steady \subseteq Holders(d, open)
          PROVE  steady \subseteq Holders(d, open')
      <4>1. \A pf \in steady : open'[pf[1]][pf[2]] = open[pf[1]][pf[2]]
        BY <1>10, <3>2, HoldersAreOpen DEF Gain, ScanTypeOK
      <4> QED BY <3>2, <4>1 DEF Holders
    <3> QED BY <1>10, <3>1, <3>2 DEF Gain, SteadyAhead, Ahead, ScanTypeOK
  <2> QED BY <2>1, <2>2
<1>11. CASE UNCHANGED scanVars
  BY <1>11 DEF scanVars, SteadyAhead, Holders, Ahead
<1> QED
  BY <1>2, <1>3, <1>4, <1>5, <1>6, <1>7, <1>8, <1>9, <1>10, <1>11, <1>12
     DEF ScanNext, ScanStep, ScanFails, ProcessStep

LEMMA PassedStep ==
  ASSUME ScanTypeOK, ScanShape, SteadyAhead, PassedStayIdle, [ScanNext]_scanVars
  PROVE  PassedStayIdle'
<1> SUFFICES ASSUME ~gained', blind' = 0, verdict' = "scanning",
                    NEW x \in asked' \ todo'
             PROVE  ~Held(x, open')
  BY DEF PassedStayIdle
<1> USE DEF world, place, scan, history, ScanTypeOK
<1>0. x \in Device
  BY TypeStep DEF ScanTypeOK
<1>1. ASSUME UNCHANGED <<asked, todo, gained>>, verdict = "scanning", blind = 0,
             \A q \in Process, g \in Fd : open'[q][g] \in {open[q][g], Closed}
      PROVE  ~Held(x, open')
  <2>1. Holders(x, open') \subseteq Holders(x, open)
    BY <1>0, <1>1, ClosingHolders
  <2> QED BY <1>1, <2>1 DEF PassedStayIdle, Held
<1>2. ASSUME NEW devices \in SUBSET Device, Begin(devices) PROVE ~Held(x, open')
  BY <1>2 DEF Begin
<1>3. ASSUME NEW d \in Device, NothingToLookFor(d) PROVE ~Held(x, open')
  <2>1. ~Held(d, open)
    BY <1>3, NodesAreComplete DEF NothingToLookFor, Held, Holders
  <2> QED BY <1>3, <2>1 DEF NothingToLookFor, PassedStayIdle
<1>4. ASSUME NEW d \in Device, LeaveDevice(d) PROVE ~Held(x, open')
  <2>1. blind = 0 /\ verdict = "scanning" /\ open' = open /\ ~gained
    BY <1>4 DEF LeaveDevice, ScanShape
  <2>2. CASE x \in asked \ todo
    BY <2>1, <2>2 DEF PassedStayIdle
  <2>3. CASE x \notin asked \ todo
    <3>1. x = d /\ found = {}
      BY <1>4, <2>3 DEF LeaveDevice
    <3>2. steady = {}
      BY <1>4, <2>1, <3>1, EndMeetsNoSteady
    <3>3. steady = Holders(d, open)
      BY <1>4, <2>1 DEF LeaveDevice, SteadyAhead, First
    <3> QED BY <2>1, <3>1, <3>2, <3>3 DEF Held
  <2> QED BY <2>2, <2>3
<1>5. ASSUME NEW d \in Device, ProcUnreadable(d) PROVE ~Held(x, open')
  BY <1>5 DEF ProcUnreadable
<1>6. ASSUME NEW p \in Process, FdsUnreadable(p) \/ \E f \in Fd : LinkUnreadable(p, f)
      PROVE  ~Held(x, open')
  BY <1>6 DEF FdsUnreadable, LinkUnreadable
<1>7. ASSUME NEW d \in Device,
             EnterDevice(d) \/ \E p \in Process, f \in Fd : ReadLink(d, p, f)
      PROVE  ~Held(x, open')
  BY <1>1, <1>7 DEF EnterDevice, ReadLink, ScanShape
<1>8. ASSUME NEW p \in Process,
             ListTo(p) \/ Visit(p) \/ LeaveProcess(p) \/ Birth(p)
      PROVE  ~Held(x, open')
  BY <1>1, <1>8 DEF ListTo, Visit, LeaveProcess, Birth
<1>9. ASSUME NEW p \in Process, Exit(p) \/ \E f \in Fd : Close(p, f)
      PROVE  ~Held(x, open')
  BY <1>1, <1>9 DEF Exit, Close
<1>10. ASSUME NEW p \in Process, NEW f \in Fd, NEW n \in Node, Gain(p, f, n)
       PROVE  ~Held(x, open')
  BY <1>10 DEF Gain
<1>11. ASSUME AllIdle PROVE ~Held(x, open')
  BY <1>11 DEF AllIdle
<1>12. CASE UNCHANGED scanVars
  BY <1>1, <1>12 DEF scanVars
<1> QED
  BY <1>2, <1>3, <1>4, <1>5, <1>6, <1>7, <1>8, <1>9, <1>10, <1>11, <1>12
     DEF ScanNext, ScanStep, ScanFails, ProcessStep

\* The bookkeeping of the scan holds at every moment, for any processes.
THEOREM ScanInvariantHolds == ScanSpec => []ScanInvariant
<1>1. ScanInvariant /\ [ScanNext]_scanVars => ScanInvariant'
  BY TypeStep, ShapeStep, SteadyStep, PassedStep DEF ScanInvariant
<1> QED BY InitTyped, <1>1, PTL DEF ScanSpec

\* Every variable of the scan stays in its range.
THEOREM ScanTypeHolds == ScanSpec => []ScanTypeOK
<1>1. ScanInvariant => ScanTypeOK
  BY DEF ScanInvariant
<1> QED BY ScanInvariantHolds, <1>1, PTL

\* Where no descriptor appears, what has been passed stays idle (main.rs:474).
THEOREM PassedStayIdleHolds == ScanSpec => []PassedStayIdle
<1>1. ScanInvariant => PassedStayIdle
  BY DEF ScanInvariant
<1> QED BY ScanInvariantHolds, <1>1, PTL

\* No device is passed that a process kept open through its scan, whatever all
\* the others did (idle.rs:54).
THEOREM SteadyHolderFound == ScanSpec => SteadyHolderIsFound
<1>1. ScanInvariant /\ [ScanNext]_scanVars =>
        [(verdict = "scanning" /\ verdict' = "scanning" /\ todo' # todo /\ blind' = 0)
           => steady = {}]_scanVars
  <2> SUFFICES ASSUME ScanInvariant, ScanNext, verdict = "scanning",
                      verdict' = "scanning", todo' # todo, blind' = 0
               PROVE  steady = {}
    OBVIOUS
  <2> USE DEF world, place, scan, history, ScanInvariant
  <2>1. CASE \E d \in Device : LeaveDevice(d)
    <3> PICK d \in Device : LeaveDevice(d)
      BY <2>1
    <3>1. blind = 0 /\ found = {}
      BY DEF LeaveDevice
    <3> QED BY <3>1, EndMeetsNoSteady
  <2>2. CASE at = "device"
    BY <2>2 DEF ScanShape
  <2> QED
    BY <2>1, <2>2 DEF ScanNext, ScanStep, ScanFails, ProcessStep, Begin,
       EnterDevice, NothingToLookFor, ReadLink, ListTo, Visit, LeaveProcess,
       AllIdle, ProcUnreadable, FdsUnreadable, LinkUnreadable, Birth, Exit, Close, Gain
<1> QED BY ScanInvariantHolds, <1>1, PTL DEF ScanSpec, SteadyHolderIsFound

-----------------------------------------------------------------------------
(* The refinement.                                                         *)

LEMMA InitIsCheckInit == ScanInit => Check!CheckInit
<1> SUFFICES ASSUME ScanInit PROVE Check!CheckInit
  OBVIOUS
<1>1. \A d \in Device : ~Held(d, open)
  BY DEF ScanInit, Held, Holders, Gives, Closed
<1> QED BY <1>1 DEF ScanInit, Check!CheckInit, HeldDevices, Answered

\* Every step of the scan is a step of the one-step check or none.
LEMMA StepIsCheckStep ==
  ASSUME ~gained', blind' = 0, ScanInvariant, [ScanNext]_scanVars
  PROVE  [Check!CheckNext]_(Check!checkVars)
<1> USE DEF world, place, scan, history, ScanInvariant, Check!checkVars
<1>0. ScanTypeOK' /\ (blind' = blind \/ blind' = blind + 1)
  BY TypeStep DEF scanVars, ScanNext, ScanStep, ScanFails, ProcessStep, Begin,
     EnterDevice, NothingToLookFor, LeaveDevice, ReadLink, ListTo, Visit,
     LeaveProcess, AllIdle, ProcUnreadable, FdsUnreadable, LinkUnreadable, Birth, Exit,
     Close, Gain
<1>14. blind = 0
  BY <1>0 DEF ScanTypeOK
<1>1. ASSUME UNCHANGED <<open, todo, verdict, found>>
      PROVE  UNCHANGED Check!checkVars
  BY <1>1 DEF HeldDevices, Held, Holders, Answered
<1>2. ASSUME NEW devices \in SUBSET Device, Begin(devices)
      PROVE  Check!CheckNext
  <2>1. Check!Ask(devices)
    BY <1>2 DEF Begin, Check!Ask, Answered, HeldDevices, Held, Holders
  <2> QED BY <2>1 DEF Check!CheckNext
<1>3. ASSUME NEW d \in Device, EnterDevice(d) PROVE UNCHANGED Check!checkVars
  BY <1>1, <1>3 DEF EnterDevice, ScanShape
<1>4. ASSUME NEW d \in Device, NothingToLookFor(d) PROVE Check!CheckNext
  <2>1. ~Held(d, open)
    BY <1>4, NodesAreComplete DEF NothingToLookFor, Held, Holders, ScanTypeOK
  <2>2. Check!Look(d)
    BY <1>4, <2>1 DEF NothingToLookFor, Check!Look, Answered, HeldDevices,
       ScanShape, First, Held, Holders
  <2> QED BY <2>2 DEF Check!CheckNext
<1>5. ASSUME NEW d \in Device, LeaveDevice(d)
      PROVE  Check!CheckNext \/ UNCHANGED Check!checkVars
  <2>1. CASE found # {}
    BY <1>5, <2>1 DEF LeaveDevice, HeldDevices, Held, Holders, Answered, ScanShape
  <2>2. CASE found = {}
    <3>1. steady = {}
      BY <1>14, <1>5, <2>2, EndMeetsNoSteady
    <3>2. ~Held(d, open)
      BY <1>5, <3>1 DEF LeaveDevice, SteadyAhead, First, Held
    <3>3. Check!Look(d)
      BY <1>5, <2>2, <3>2 DEF LeaveDevice, Check!Look, Answered, HeldDevices,
         ScanShape, First, Held, Holders
    <3> QED BY <3>3 DEF Check!CheckNext
  <2> QED BY <2>1, <2>2
<1>6. ASSUME NEW d \in Device, NEW p \in Process, NEW f \in Fd, ReadLink(d, p, f)
      PROVE  Check!CheckNext \/ UNCHANGED Check!checkVars
  <2>1. CASE found # {} \/ found' = {}
    BY <1>6, <2>1 DEF ReadLink, HeldDevices, Held, Holders, Answered
  <2>2. CASE found = {} /\ found' # {}
    <3>1. open[p][f] \in VfioNodes(d)
      BY <1>6, <2>2 DEF ReadLink
    <3>2. <<p, f>> \in Holders(d, open)
      BY <3>1, NodesAreComplete DEF Holders, ScanTypeOK
    <3>3. Check!Look(d)
      BY <1>6, <2>2, <3>2 DEF ReadLink, Check!Look, Answered, HeldDevices,
         ScanShape, First, Held, Holders
    <3> QED BY <3>3 DEF Check!CheckNext
  <2> QED BY <2>1, <2>2
<1>7. ASSUME NEW p \in Process,
             ListTo(p) \/ Visit(p) \/ LeaveProcess(p) \/ Birth(p)
      PROVE  UNCHANGED Check!checkVars
  BY <1>1, <1>7 DEF ListTo, Visit, LeaveProcess, Birth
<1>8. ASSUME AllIdle PROVE Check!CheckNext
  <2>1. Check!Answer
    BY <1>8 DEF AllIdle, Check!Answer, Answered, HeldDevices, Held, Holders, ScanShape
  <2> QED BY <2>1 DEF Check!CheckNext
<1>9. ASSUME UNCHANGED <<todo, verdict, found>>,
             Answered = "scanning" => HeldDevices' \subseteq HeldDevices
      PROVE  Check!CheckNext
  <2>1. Check!Use(HeldDevices')
    BY <1>9 DEF Check!Use, Answered
  <2>2. HeldDevices' \in SUBSET Device
    BY DEF HeldDevices
  <2> QED BY <2>1, <2>2 DEF Check!CheckNext
<1>10. ASSUME NEW p \in Process, Exit(p) \/ \E f \in Fd : Close(p, f)
       PROVE  Check!CheckNext
  <2>1. \A q \in Process, g \in Fd : open'[q][g] \in {open[q][g], Closed}
    BY <1>10 DEF Exit, Close, ScanTypeOK
  <2>2. HeldDevices' \subseteq HeldDevices
    BY <2>1, ClosingHolders DEF HeldDevices, Held
  <2> QED BY <1>9, <1>10, <2>2 DEF Exit, Close
<1>11. ASSUME NEW p \in Process, NEW f \in Fd, NEW n \in Node, Gain(p, f, n)
       PROVE  Check!CheckNext
  BY <1>9, <1>11 DEF Gain, Answered
<1>12. ASSUME ScanFails
       PROVE  FALSE
  BY <1>14, <1>12 DEF ScanFails, ProcUnreadable, FdsUnreadable, LinkUnreadable
<1>13. CASE UNCHANGED scanVars
  BY <1>1, <1>13 DEF scanVars
<1> QED
  BY <1>2, <1>3, <1>4, <1>5, <1>6, <1>7, <1>8, <1>10, <1>11, <1>12, <1>13
     DEF ScanNext, ScanStep, ProcessStep

\* verify_idle is the one-step check that Provisioner takes it for, as long as
\* no descriptor appears during the scan and /proc can be read (main.rs:474).
THEOREM ScanImplementsCheck == ScanSpec => ScanIsCheck
<1>1. ScanInvariant /\ [ScanNext]_scanVars =>
        [~gained' /\ blind' = 0 => Check!CheckNext]_(Check!checkVars)
  BY StepIsCheckStep
<1> QED
  BY ScanInvariantHolds, InitIsCheckInit, <1>1, PTL DEF ScanSpec, ScanIsCheck

=============================================================================
