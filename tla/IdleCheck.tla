---- MODULE IdleCheck ----
(***************************************************************************)
(* What verify_idle promises, and what Provisioner takes it for: each      *)
(* device is looked at in one step, and is passed if nobody has it open at *)
(* that moment, or ends the run if somebody has.                           *)
(***************************************************************************)
EXTENDS Integers

CONSTANT Device

VARIABLES held,    \* the devices somebody has open
          todo,    \* the devices not yet looked at
          verdict  \* "none", "scanning", "idle", "busy"

checkVars == <<held, todo, verdict>>

CheckInit == held = {} /\ todo = {} /\ verdict = "none"

Ask(devices) ==
  /\ verdict # "scanning"
  /\ verdict' = "scanning"
  /\ todo' = devices
  /\ UNCHANGED held

Look(d) ==
  /\ verdict = "scanning"
  /\ d \in todo /\ \A e \in todo : d =< e
  /\ IF d \in held THEN verdict' = "busy" /\ UNCHANGED todo
                   ELSE todo' = todo \ {d} /\ UNCHANGED verdict
  /\ UNCHANGED held

Answer ==
  /\ verdict = "scanning" /\ todo = {}
  /\ verdict' = "idle"
  /\ UNCHANGED <<held, todo>>

\* Devices may be opened between two checks, and closed at any time.
Use(devices) ==
  /\ verdict = "scanning" => devices \subseteq held
  /\ held' = devices
  /\ UNCHANGED <<todo, verdict>>

CheckNext ==
  \/ \E devices \in SUBSET Device : Ask(devices) \/ Use(devices)
  \/ \E d \in Device : Look(d)
  \/ Answer

CheckSpec == CheckInit /\ [][CheckNext]_checkVars

=============================================================================
