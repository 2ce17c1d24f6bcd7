---- MODULE Overlap ----
(***************************************************************************)
(* Several runs on one node at a time: applies of two releases whose node  *)
(* selections overlap, or an uninstall while a run that Helm has given up  *)
(* on still goes on.  Nothing on the node keeps them apart, so their steps *)
(* interleave on the firmware, on the bindings and on the three files of   *)
(* the boot configuration.  What a run knows is its own.                   *)
(*                                                                         *)
(* A run here is past its checks: its board has the mode, its vfio modules *)
(* are loaded and no VM has a device open.  Any call of it may fail, be it *)
(* because another run is resetting the device, and a Job may be killed in *)
(* any.  A device is on its vfio driver or unbound; to bind it or to       *)
(* release it is one step.  A boot file is the set of devices it was       *)
(* written for.                                                            *)
(***************************************************************************)
EXTENDS Firmware, Integers

CONSTANTS Run,       \* the processes
          Device,    \* PCI addresses
          Boards,    \* the boards to consider
          Readings,  \* "knob", "active": what a query returns (see ModeStage)
          Requests   \* what the runs may be asked for, functions of the run

Uninstall == "uninstall"

ASSUME OverlapAssumption ==
  /\ Device \subseteq Nat
  /\ Boards \subseteq [Device -> Kind]
  /\ Readings \subseteq {"knob", "active"}
  /\ Requests \subseteq [Run -> Mode \cup {Uninstall}]

VARIABLES kind, reports, knob, active,  \* the hardware, as in ModeStage
          bound,    \* the devices on their vfio driver
          boot,     \* what each boot file was written for
          torn,     \* the boot files whose last writer died in writing
          request,  \* what each run was asked for
          at,       \* where each run is
          left,     \* the devices its loop has still to visit
          plan,     \* the writes it still has to make
          pending,  \* the devices it has to reset
          resetting \* the runs in the middle of a reset

node == <<kind, reports, knob, active, bound, boot, torn>>
locals == <<at, left, plan, pending, resetting>>
overlapVars == <<node, request, locals>>

File == {"modules", "ids", "rules"}
Loops == {"read", "write", "reset", "check", "bind", "release", "verify"}
Ends == {"ok", "refused", "erred"}
Running(r) == at[r] \notin {"idle"} \cup Ends

Handles == {d \in Device : HasHandle(kind[d])}
Passthrough(m) == {d \in Device : InPassthrough(kind[d], m)}
Released(m) == {d \in Device : InScope(kind[d])} \ Passthrough(m)
Shown(d) == IF reports = "knob" THEN knob[d] ELSE active[d]
First(d, devices) == d \in devices /\ \A e \in devices : d =< e

\* Bug: nothing is reset.
After_NoReset(stage) ==
  CASE stage = "read" -> "write"     [] stage = "write" -> "check"
    [] stage = "reset" -> "check"    [] stage = "check" -> "modules"
    [] stage = "modules" -> "ids"    [] stage = "ids" -> "rules"
    [] stage = "rules" -> "bind"     [] stage = "bind" -> "release"
    [] stage = "release" -> "verify" [] stage = "verify" -> "ok"
    [] stage = "rmModules" -> "rmIds" [] stage = "rmIds" -> "rmRules"
    [] OTHER -> "ok"

\* The stage that follows a stage.
After(stage) ==
  CASE stage = "read" -> "write"     [] stage = "write" -> "reset"
    [] stage = "reset" -> "check"    [] stage = "check" -> "modules"
    [] stage = "modules" -> "ids"    [] stage = "ids" -> "rules"
    [] stage = "rules" -> "bind"     [] stage = "bind" -> "release"
    [] stage = "release" -> "verify" [] stage = "verify" -> "ok"
    [] stage = "rmModules" -> "rmIds" [] stage = "rmIds" -> "rmRules"
    [] OTHER -> "ok"

\* The devices a stage of run r visits.
Visits(r, stage) ==
  CASE stage \in {"read", "check"} -> Handles
    [] stage \in {"write", "reset"} -> pending[r]
    [] stage \in {"bind", "verify"} -> Passthrough(request[r])
    [] stage = "release" -> Released(request[r])
    [] OTHER -> {}

-----------------------------------------------------------------------------

\* Types; a run only ever visits devices in scope, and only resets devices
\* that have a mode.
OverlapTypeOK ==
  /\ kind \in [Device -> Kind]
  /\ reports \in {"knob", "active"}
  /\ knob \in [Device -> Knobs] /\ active \in [Device -> Knobs]
  /\ bound \subseteq Device
  /\ boot \in [File -> SUBSET Device] /\ torn \subseteq File
  /\ request \in [Run -> Mode \cup {Uninstall}]
  /\ at \in [Run -> Loops \cup File \cup Ends \cup {"rmModules", "rmIds", "rmRules", "idle"}]
  /\ left \in [Run -> SUBSET {d \in Device : InScope(kind[d])}]
  /\ plan \in [Run -> [Device -> Plan]]
  /\ pending \in [Run -> SUBSET Handles]
  /\ \A r \in resetting : r \in Run /\ at[r] = "reset" /\ left[r] # {}

Capable == \A r \in Run : request[r] \in Mode =>
  VerifyCapable({kind[d] : d \in Device}, request[r])

OverlapInit ==
  /\ kind \in Boards
  /\ reports \in Readings
  /\ knob \in [Device -> Knobs]
  /\ \A d \in Device : Fits(knob[d], kind[d]) /\ Exclusive(knob[d])
  /\ active = knob
  /\ bound \in SUBSET {d \in Device : InScope(kind[d])}
  /\ boot \in [File -> {{}, bound}] /\ torn = {}
  /\ request \in Requests
  /\ Capable
  /\ at = [r \in Run |-> "idle"]
  /\ left = [r \in Run |-> {}]
  /\ plan = [r \in Run |-> [d \in Device |-> <<>>]]
  /\ pending = [r \in Run |-> {}]
  /\ resetting = {}

-----------------------------------------------------------------------------
(* The steps of one run.                                                   *)

Begin(r) ==
  /\ at[r] = "idle"
  /\ LET stage == IF request[r] = Uninstall THEN "rmModules" ELSE "read"
     IN  /\ at' = [at EXCEPT ![r] = stage]
         /\ left' = [left EXCEPT ![r] = Visits(r, stage)]
  /\ UNCHANGED <<node, request, plan, pending, resetting>>

\* Run r is at device d of a stage; and the stage is behind that device.
Reaches(r, stage, d) == at[r] = stage /\ First(d, left[r])
Leaves(r, d) == left' = [left EXCEPT ![r] = @ \ {d}]

Read(r, d) ==
  /\ Reaches(r, "read", d)
  /\ LET writes == WritesFor(Shown(d), request[r])
     IN  /\ plan' = [plan EXCEPT ![r][d] = writes]
         /\ pending' = [pending EXCEPT ![r] = IF writes = <<>> THEN @ ELSE @ \cup {d}]
  /\ Leaves(r, d)
  /\ UNCHANGED <<node, request, at, resetting>>

WriteKnob(r, d) ==
  /\ Reaches(r, "write", d)
  /\ knob' = [knob EXCEPT ![d] = Put(@, Head(plan[r][d]))]
  /\ plan' = [plan EXCEPT ![r][d] = Tail(@)]
  /\ IF Tail(plan[r][d]) = <<>> THEN Leaves(r, d) ELSE UNCHANGED left
  /\ UNCHANGED <<kind, reports, active, bound, boot, torn, request, at, pending, resetting>>

BeginReset(r, d) ==
  /\ Reaches(r, "reset", d) /\ r \notin resetting
  /\ resetting' = resetting \cup {r}
  /\ UNCHANGED <<node, request, at, left, plan, pending>>

\* The device has taken over what its EEPROM holds by now.
EndReset(r, d) ==
  /\ Reaches(r, "reset", d) /\ r \in resetting
  /\ resetting' = resetting \ {r}
  /\ active' = [active EXCEPT ![d] = knob[d]]
  /\ Leaves(r, d)
  /\ UNCHANGED <<kind, reports, knob, bound, boot, torn, request, at, plan, pending>>

Bind(r, d) ==
  /\ Reaches(r, "bind", d)
  /\ bound' = bound \cup {d}
  /\ Leaves(r, d)
  /\ UNCHANGED <<kind, reports, knob, active, boot, torn, request, at, plan, pending,
                 resetting>>

Release(r, d) ==
  /\ Reaches(r, "release", d)
  /\ bound' = bound \ {d}
  /\ Leaves(r, d)
  /\ UNCHANGED <<kind, reports, knob, active, boot, torn, request, at, plan, pending,
                 resetting>>

\* nvidia::apply verifies the modes, main::verify the bindings as well.
Verified(r, d) ==
  /\ HasHandle(kind[d]) => Meets(Shown(d), request[r])
  /\ at[r] = "verify" => d \in bound

Verify(r, d) ==
  /\ Reaches(r, "check", d) \/ Reaches(r, "verify", d)
  /\ IF Verified(r, d) THEN Leaves(r, d) /\ UNCHANGED at
     ELSE /\ at' = [at EXCEPT ![r] = "refused"]
          /\ left' = [left EXCEPT ![r] = {}]
  /\ UNCHANGED <<node, request, plan, pending, resetting>>

\* persist and unpersist go through the files one after the other.
FileOf(stage) ==
  CASE stage \in {"modules", "rmModules"} -> {"modules"}
    [] stage \in {"ids", "rmIds"} -> {"ids"}
    [] stage \in {"rules", "rmRules"} -> {"rules"}
    [] OTHER -> {}

\* Bug: a file is written for what another run has bound.
FileContent_Bound(r, stage) == IF stage \in File THEN bound ELSE {}

FileContent(r, stage) == IF stage \in File THEN Passthrough(request[r]) ELSE {}

\* The stage is done with its devices, or writes its file, and the next one
\* begins.
NextStage(r) ==
  /\ Running(r)
  /\ left[r] = {}
  /\ boot' = [f \in File |-> IF f \in FileOf(at[r]) THEN FileContent(r, at[r]) ELSE boot[f]]
  /\ torn' = torn \ FileOf(at[r])
  /\ at' = [at EXCEPT ![r] = After(at[r])]
  /\ left' = [left EXCEPT ![r] = Visits(r, After(at[r]))]
  /\ UNCHANGED <<kind, reports, knob, active, bound, request, plan, pending, resetting>>

\* What run r may have written and has not reset.
Owing(r) ==
  CASE at[r] = "write" -> {d \in pending[r] : \A e \in left[r] : d =< e}
    [] at[r] = "reset" -> left[r]
    [] OTHER -> {}

\* A call fails, or the process is killed in it.
Fail(r) ==
  /\ Running(r)
  /\ at' = [at EXCEPT ![r] = "erred"]
  /\ left' = [left EXCEPT ![r] = {}]
  /\ pending' = [pending EXCEPT ![r] = Owing(r)]
  /\ resetting' = resetting \ {r}
  /\ \/ UNCHANGED active
     \/ /\ r \in resetting
        /\ \E d \in Device : First(d, left[r]) /\ active' = [active EXCEPT ![d] = knob[d]]
  /\ torn' \in {torn, torn \cup ({at[r]} \cap File)}
  /\ UNCHANGED <<kind, reports, knob, bound, boot, request, plan>>

RunStep(r) ==
  \/ Begin(r) \/ NextStage(r) \/ Fail(r)
  \/ \E d \in Device : \/ Read(r, d) \/ WriteKnob(r, d)
                       \/ BeginReset(r, d) \/ EndReset(r, d)
                       \/ Bind(r, d) \/ Release(r, d) \/ Verify(r, d)

OverlapNext == \E r \in Run : RunStep(r)

OverlapSpec == OverlapInit /\ [][OverlapNext]_overlapVars

-----------------------------------------------------------------------------
(* Properties.                                                             *)

\* All applies ask for one mode, and nobody uninstalls.
Agreed == \A r, s \in Run : request[r] = request[s] /\ request[r] # Uninstall

\* When every run has come to its end, whatever each was asked for and however
\* their writes and resets interleaved, a device behaves in another mode than its
\* EEPROM holds (nvidia.rs:223) only if a run that wrote it failed, or was killed,
\* before it had reset it.
NoResetOwed ==
  (\A r \in Run : ~Running(r)) =>
    \A d \in Device : knob[d] # active[d] => \E r \in Run : at[r] = "erred" /\ d \in pending[r]

\* Runs that ask for the same mode do not undo one another ("idempotent",
\* dispatcher-job.yaml:6), whichever of them fail or die half way: none finds
\* another mode than its own at its verifications, and an Ok stays true while the
\* slower ones write, reset, bind, persist and fail behind it, up to a file that
\* one of them dies in writing.
AgreedRunsStand ==
  Agreed => \A r \in Run :
    /\ at[r] # "refused"
    /\ at[r] = "ok" =>
         /\ \A d \in Handles : Meets(Shown(d), request[r])
         /\ Passthrough(request[r]) \subseteq bound
         /\ bound \cap Released(request[r]) = {}
         /\ \A file \in File \ torn : boot[file] = Passthrough(request[r])

\* "A board part-way between the two modes is not a state the node can be left
\* in" (ARCHITECTURE.md:392): once every run has ended, at least one of them
\* with Ok and none by a call that failed, the board is in one mode a run was
\* asked for.
EndsInOneMode ==
  ((\A r \in Run : at[r] \in {"ok", "refused"}) /\ \E r \in Run : at[r] = "ok")
    => \E r \in Run : request[r] # Uninstall /\ \A d \in Handles : Meets(knob[d], request[r])

-----------------------------------------------------------------------------
(* The inductive invariant of NoResetOwed.                                 *)

\* A device that a run has written it will reset, or has failed to.
WillReset(r, d) ==
  \/ at[r] \in {"write", "reset"} /\ d \in Owing(r)
  \/ at[r] = "erred" /\ d \in pending[r]

ResetsAhead ==
  /\ \A r \in Run : at[r] \in {"write", "reset"} => left[r] \subseteq pending[r]
  /\ \A d \in Device : knob[d] # active[d] => \E r \in Run : WillReset(r, d)

\* A device a run has yet to write has a write in its plan.
PlansAhead ==
  \A r \in Run :
    /\ at[r] = "idle" => pending[r] = {}
    /\ at[r] = "read" => /\ left[r] \subseteq Handles \ pending[r]
                         /\ \A d \in pending[r] : plan[r][d] # <<>>
    /\ at[r] = "write" => \A d \in left[r] : plan[r][d] # <<>>

\* Only an apply goes through the stages of one.
AppliesOnly == \A r \in Run : at[r] \in Loops \cup File => request[r] \in Mode

ResetInvariant == OverlapTypeOK /\ AppliesOnly /\ PlansAhead /\ ResetsAhead

-----------------------------------------------------------------------------
(* The inductive invariant of AgreedRunsStand.                             *)

AfterFiles == {"bind", "release", "verify", "ok"}

\* Knobs `kn` have each mode where m wants it that knobs `an` have there.
Ahead(kn, an, m) ==
  /\ an.cc = CcTarget(m) => kn.cc = CcTarget(m)
  /\ an.ppcie = PpcieTarget(m) => kn.ppcie = PpcieTarget(m)

Toward(k, m) == WriteOf(k) \cap {SetCc(CcTarget(m)), SetPpcie(PpcieTarget(m))}

\* Whichever run writes, it writes towards the mode, and resets follow writes.
OneWay ==
  \A r \in Run, d \in Device :
    /\ Fits(knob[d], kind[d]) /\ Fits(active[d], kind[d])
    /\ Ahead(knob[d], active[d], request[r])
    /\ plan[r][d] \in PlansOver(Toward(kind[d], request[r]))

\* What is left of a run's plan takes the device to the mode, and what the run
\* has no write for, or is past resetting, reports it and goes on doing so.
ModesAhead ==
  \A r \in Run, d \in Handles :
    /\ (at[r] = "read" /\ d \notin left[r]) \/ at[r] = "write" =>
         IF d \in pending[r] THEN Meets(AfterWrites(knob[d], plan[r][d]), request[r])
                             ELSE Meets(Shown(d), request[r])
    /\ at[r] = "write" /\ d \notin left[r] /\ d \in pending[r] => plan[r][d] = <<>>
    /\ at[r] = "reset" => Meets(knob[d], request[r])
    /\ (at[r] = "reset" /\ d \notin left[r])
         \/ at[r] \in {"check"} \cup File \cup AfterFiles =>
           Meets(Shown(d), request[r])

\* What a run is past binding stays bound, what it is past releasing stays off.
BindingsAhead ==
  \A r \in Run :
    /\ at[r] \in {"bind", "verify"} => left[r] \subseteq Passthrough(request[r])
    /\ at[r] = "bind" => Passthrough(request[r]) \ left[r] \subseteq bound
    /\ at[r] \in {"release", "verify", "ok"} => Passthrough(request[r]) \subseteq bound
    /\ at[r] = "release" => /\ left[r] \subseteq Released(request[r])
                            /\ bound \cap Released(request[r]) \subseteq left[r]
    /\ at[r] \in {"verify", "ok"} => bound \cap Released(request[r]) = {}

\* The files a run is past are the ones it would write.
FilesAhead ==
  \A r \in Run :
    /\ at[r] \in {"ids", "rules"} \cup AfterFiles => boot["modules"] = Passthrough(request[r])
    /\ at[r] \in {"rules"} \cup AfterFiles => boot["ids"] = Passthrough(request[r])
    /\ at[r] \in AfterFiles => boot["rules"] = Passthrough(request[r])

AgreedInvariant ==
  Agreed => /\ \A r \in Run : at[r] \notin {"refused", "rmModules", "rmIds", "rmRules"}
            /\ OneWay /\ ModesAhead /\ BindingsAhead /\ FilesAhead

OverlapInvariant == ResetInvariant /\ AgreedInvariant

=============================================================================
