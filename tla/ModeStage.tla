---- MODULE ModeStage ----
(***************************************************************************)
(* nvidia::apply, the stage that moves a whole board to one node mode:     *)
(* open every device, read every device and plan its writes, write every   *)
(* knob, reset what was written, verify every device.  The five loops run  *)
(* in PCI address order; a device is a Nat and its value is its address.   *)
(*                                                                         *)
(* A knob lives in the device's EEPROM, the mode a device behaves in       *)
(* (active) changes at a reset.  What a query returns between the two is   *)
(* the device's own business and the source says two things about it, so   *)
(* both are admitted: reports = "knob" (nvidia.rs:223, "the device reports *)
(* the new mode and behaves like the old") and reports = "active"          *)
(* (nvidia.rs:182, a device "reports it active" only later).               *)
(*                                                                         *)
(* Runs are cut short by Fail (any call of the stage returns an error, or  *)
(* the Job is killed) and by Reboot.  WriteLost is a write that returns    *)
(* success and does not take, which is what verify is there for.           *)
(***************************************************************************)
EXTENDS Firmware, Integers

CONSTANTS Device,      \* PCI addresses
          Boards,      \* the boards to consider: functions Device -> Kind
          Readings,    \* the readings of `reports` to consider
          MaxFaults,   \* how many runs may be cut short by Fail
          MaxLost      \* how many writes may be silently lost

ASSUME DeviceAssumption == Device \subseteq Nat
ASSUME BoardsAssumption == Boards \subseteq [Device -> Kind]
ASSUME ReadingsAssumption == Readings \subseteq {"knob", "active"}
ASSUME BoundsAssumption == MaxFaults \in Nat /\ MaxLost \in Nat

VARIABLES kind,      \* what each device is; never changes
          reports,   \* which of the two readings this hardware obeys
          knob,      \* EEPROM
          active,    \* the mode the device behaves in
          mode,      \* the mode of the current or last run of the stage
          stage,     \* which loop of nvidia::apply is running
          left,      \* the devices that loop has still to visit
          plan,      \* the writes a device still has to take
          pending,   \* the devices whose plan was not empty
          faults,    \* how many runs were cut short by Fail
          lost       \* how many writes were lost

hardware == <<kind, reports, knob, active>>
run == <<mode, stage, left, plan, pending>>
modeVars == <<kind, reports, knob, active, mode, stage, left, plan, pending,
              faults, lost>>

Loops == {"open", "read", "write", "reset", "verify"}
Running == stage \in Loops

Handles == {d \in Device : HasHandle(kind[d])}

\* Bugs: the stage trusts that its writes took; it forgets the resets; it
\* resets before it writes.
After_NoVerify(s) ==
  CASE s = "open"  -> "read"
    [] s = "read"  -> "write"
    [] s = "write" -> "reset"
    [] OTHER       -> "ok"
After_NoReset(s) ==
  CASE s = "open"  -> "read"
    [] s = "read"  -> "write"
    [] s = "write" -> "verify"
    [] OTHER       -> "ok"
After_ResetFirst(s) ==
  CASE s = "open"  -> "read"
    [] s = "read"  -> "reset"
    [] s = "reset" -> "write"
    [] s = "write" -> "verify"
    [] OTHER       -> "ok"

\* The loop that follows loop s.
After(s) ==
  CASE s = "open"  -> "read"
    [] s = "read"  -> "write"
    [] s = "write" -> "reset"
    [] s = "reset" -> "verify"
    [] OTHER       -> "ok"

\* Bug: the stage opens devices that have no mode.
Visits_EveryDevice(s) ==
  IF s \in {"write", "reset"} THEN pending
  ELSE IF s \in {"open", "read", "verify"} THEN Device
  ELSE {}

\* The devices loop s is for: only what needs a write is written and reset.
Visits(s) ==
  IF s \in {"write", "reset"} THEN pending
  ELSE IF s \in {"open", "read", "verify"} THEN Handles
  ELSE {}

\* Handle::current
Shown(d) == IF reports = "knob" THEN knob[d] ELSE active[d]

\* The loops visit their devices in address order.
First(d, devices) == d \in devices /\ \A e \in devices : d =< e

-----------------------------------------------------------------------------

TypeOK ==
  /\ kind \in [Device -> Kind]
  /\ reports \in {"knob", "active"}
  /\ knob \in [Device -> Knobs]
  /\ active \in [Device -> Knobs]
  /\ mode \in Mode
  /\ stage \in Loops \cup {"idle", "ok", "failed"}
  /\ left \subseteq Handles
  /\ plan \in [Device -> Plan]
  /\ pending \subseteq Handles
  /\ faults \in 0..MaxFaults
  /\ lost \in 0..MaxLost

\* A node as it booted: what is active is what is in the EEPROM.
Init ==
  /\ kind \in Boards
  /\ reports \in Readings
  /\ knob \in [Device -> Knobs]
  /\ \A d \in Device : Fits(knob[d], kind[d]) /\ Exclusive(knob[d])
  /\ active = knob
  /\ mode = "off"
  /\ stage = "idle"
  /\ left = {}
  /\ plan = [d \in Device |-> <<>>]
  /\ pending = {}
  /\ faults = 0
  /\ lost = 0

-----------------------------------------------------------------------------

\* The locals of nvidia::apply, as a run finds them and as it leaves them when
\* it is cut short.
NoLocals ==
  /\ plan' = [d \in Device |-> <<>>]
  /\ pending' = {}

\* main::apply reaches nvidia::apply only past verify_capable.
Start(m) ==
  /\ ~Running
  /\ VerifyCapable({kind[d] : d \in Device}, m)
  /\ mode' = m
  /\ stage' = "open"
  /\ left' = Visits("open")
  /\ NoLocals
  /\ UNCHANGED <<hardware, faults, lost>>

Open(d) ==
  /\ stage = "open"
  /\ First(d, left)
  /\ left' = left \ {d}
  /\ UNCHANGED <<hardware, mode, stage, plan, pending, faults, lost>>

\* Handle::current and writes_for: all plans exist before the first write.
Read(d) ==
  /\ stage = "read"
  /\ First(d, left)
  /\ plan' = [plan EXCEPT ![d] = WritesFor(Shown(d), mode)]
  /\ pending' = IF plan'[d] # <<>> THEN pending \cup {d} ELSE pending
  /\ left' = left \ {d}
  /\ UNCHANGED <<hardware, mode, stage, faults, lost>>

\* The next write of d's plan is behind it, taken or not.
Written(d) ==
  /\ stage = "write"
  /\ First(d, left)
  /\ plan' = [plan EXCEPT ![d] = Tail(@)]
  /\ left' = IF plan'[d] = <<>> THEN left \ {d} ELSE left

WriteKnob(d) ==
  /\ Written(d)
  /\ knob' = [knob EXCEPT ![d] = Put(@, Head(plan[d]))]
  /\ UNCHANGED <<kind, reports, active, mode, stage, pending, faults, lost>>

WriteLost(d) ==
  /\ Written(d)
  /\ lost < MaxLost
  /\ lost' = lost + 1
  /\ UNCHANGED <<hardware, mode, stage, pending, faults>>

Reset(d) ==
  /\ stage = "reset"
  /\ First(d, left)
  /\ active' = [active EXCEPT ![d] = knob[d]]
  /\ left' = left \ {d}
  /\ UNCHANGED <<kind, reports, knob, mode, stage, plan, pending, faults, lost>>

Verify(d) ==
  /\ stage = "verify"
  /\ First(d, left)
  /\ Meets(Shown(d), mode)
  /\ left' = left \ {d}
  /\ UNCHANGED <<hardware, mode, stage, plan, pending, faults, lost>>

Mismatch(d) ==
  /\ stage = "verify"
  /\ First(d, left)
  /\ ~Meets(Shown(d), mode)
  /\ stage' = "failed"
  /\ left' = {}
  /\ NoLocals
  /\ UNCHANGED <<hardware, mode, faults, lost>>

\* A loop has visited every device: the next one starts, or the stage returns.
NextLoop ==
  /\ Running
  /\ left = {}
  /\ stage' = After(stage)
  /\ left' = Visits(After(stage))
  /\ UNCHANGED <<hardware, mode, plan, pending, faults, lost>>

\* A call returns Err, or the process dies where it is.
Fail ==
  /\ Running
  /\ faults < MaxFaults
  /\ faults' = faults + 1
  /\ stage' = "failed"
  /\ left' = {}
  /\ NoLocals
  /\ UNCHANGED <<hardware, mode, lost>>

\* Every device is reset on the way up; the process and its outcome are gone.
Reboot ==
  /\ active' = knob
  /\ stage' = "idle"
  /\ left' = {}
  /\ NoLocals
  /\ UNCHANGED <<kind, reports, knob, mode, faults, lost>>

\* What a run does when nothing goes wrong.
Step ==
  \/ \E d \in Device : \/ Open(d)
                       \/ Read(d)
                       \/ WriteKnob(d)
                       \/ Reset(d)
                       \/ Verify(d)
                       \/ Mismatch(d)
  \/ NextLoop

Next ==
  \/ \E m \in Mode : Start(m)
  \/ Step
  \/ \E d \in Device : WriteLost(d)
  \/ Fail
  \/ Reboot

Spec == Init /\ [][Next]_modeVars

-----------------------------------------------------------------------------
(* Properties.                                                             *)

\* A stage that returns Ok left every device with a mode reporting the one
\* asked for, whichever of its writes were silently lost (nvidia.rs:230).
SuccessIsReported ==
  stage = "ok" => \A d \in Handles : Meets(Shown(d), mode)

\* No device is reset until the knobs of the whole board are in place, the
\* ones this run did not write included: "nothing is reset for a mode the
\* rest of the board is not getting" (nvidia.rs:184).  Only a lost write, or
\* a plan made from an active mode the EEPROM disagreed with, breaks it.
KnobsBeforeResets ==
  (stage = "reset" /\ lost = 0 /\ (reports = "knob" \/ faults = 0))
    => \A d \in Handles : Meets(knob[d], mode)

\* Unless a run was cut short, no device is left outside a run behaving in
\* another mode than its EEPROM holds, also when the stage reports failure.
TornOnlyByFault ==
  (faults = 0 /\ stage \notin {"write", "reset"}) => active = knob

\* Unless some run was cut short, success means that every device behaves in
\* the mode asked for, not just that it reports it, and comes back in it after
\* a reboot.
SuccessIsActive ==
  (stage = "ok" /\ faults = 0) =>
    \A d \in Handles : Meets(active[d], mode) /\ Meets(knob[d], mode)

\* A device already behaving in the mode asked for is not reset: "doing so to
\* a device that needs nothing is a free outage" (nvidia.rs:177).
ResetIsNeeded ==
  (stage = "reset" /\ faults = 0) => \A d \in left : ~Meets(active[d], mode)

\* The writes of a plan, in its order, never leave a device in per-GPU CC and
\* PPCIE at once ("All four are mutually exclusive", mode.rs:9), nor with a
\* knob its kind does not have.
KnobsAreSound ==
  \A d \in Device : /\ Exclusive(knob[d]) /\ Exclusive(active[d])
                    /\ Fits(knob[d], kind[d]) /\ Fits(active[d], kind[d])

\* Verification rejects a board only for a lost write, or for a plan made from
\* an active mode the EEPROM disagreed with: every other run, a retry after a
\* crash included, converges ("the whole run converges", README.md:27).
NoFalseAlarm ==
  (stage = "verify" /\ lost = 0 /\ (reports = "knob" \/ faults = 0))
    => \A d \in Handles : Meets(Shown(d), mode)

-----------------------------------------------------------------------------
(* The inductive invariant: what the five loops know of each other.        *)

\* A device is pending when it has a plan, and the write loop still has to
\* visit exactly the devices whose plan is not used up.
Planned ==
  /\ stage = "read" => \A d \in Handles \ left : d \in pending <=> plan[d] # <<>>
  /\ stage = "read" => left \cap pending = {}
  /\ stage = "write" => \A d \in Handles : d \in left <=> plan[d] # <<>>
  /\ stage \in {"write", "reset"} => left \subseteq pending
  /\ stage = "open" => pending = {}

\* Unless a run was cut short, a device behaves in another mode than its
\* EEPROM holds only while it waits for its reset.
Synced ==
  faults = 0 => \A d \in Device : knob[d] # active[d] =>
    \/ stage = "write" /\ d \in pending
    \/ stage = "reset" /\ d \in left

\* What is left of its plan takes the EEPROM of every device to the mode.
OnCourse ==
  (lost = 0 /\ (reports = "knob" \/ faults = 0)) =>
    /\ stage = "read" =>
         \A d \in Handles \ left : Meets(AfterWrites(knob[d], plan[d]), mode)
    /\ stage = "write" =>
         \A d \in Handles : Meets(AfterWrites(knob[d], plan[d]), mode)
    /\ stage \in {"reset", "verify"} =>
         \A d \in Handles : Meets(knob[d], mode)

\* What verify has been past reports the mode.
Verified ==
  /\ stage = "verify" => \A d \in Handles \ left : Meets(Shown(d), mode)
  /\ SuccessIsReported

\* What waits for a reset does not behave in the mode yet.
Needed ==
  faults = 0 =>
    /\ stage \in {"read", "write"} => \A d \in pending : ~Meets(active[d], mode)
    /\ ResetIsNeeded

\* A plan has writes only for knobs the device has.
PlansFit == \A d \in Device : plan[d] \in PlansOver(WriteOf(kind[d]))

Bookkeeping == TypeOK /\ KnobsAreSound /\ PlansFit /\ Planned

InductiveInvariant ==
  Bookkeeping /\ Synced /\ OnCourse /\ Verified /\ Needed

=============================================================================
