---- MODULE StatusReport ----
(***************************************************************************)
(* What `status` prints of the node, at any moment of its life: the        *)
(* columns and the labels it would give each device.  It changes nothing,  *)
(* so it is an operator on Provisioner's states and not an action.         *)
(***************************************************************************)
EXTENDS Provisioner

Listed(all) == {d \in Device : all \/ InScope(kind[d])}

\* host::check_probeable: registers are not read under a driver that uses
\* them.  Without --probe nothing is refused.
StatusAnswers(probe, all) ==
  probe /\ Listed(all) # {} => \A d \in Device : driver[d] \notin ConflictingDrivers

\* What probe_modes fills in; a device that could not be read has neither mode.
Probed(d, unread) ==
  IF d \in Handles \ unread THEN Shown(d) ELSE [cc |-> "none", ppcie |-> "none"]

Column(known, has, probe) ==
  IF known # "none" THEN known
  ELSE IF ~has THEN "n/a" ELSE IF probe THEN "unreadable" ELSE "capable"

\* Bug: one column for the mode, as long as the device has a chip.
Columns_ByChip(d, probe, unread) ==
  LET seen == IF probe THEN Probed(d, unread) ELSE [cc |-> "none", ppcie |-> "none"]
  IN  [cc |-> Column(seen.cc, HasChip(kind[d]), probe),
       ppcie |-> Column(seen.ppcie, HasChip(kind[d]), probe)]

Columns(d, probe, unread) ==
  LET seen == IF probe THEN Probed(d, unread) ELSE [cc |-> "none", ppcie |-> "none"]
  IN  [cc |-> Column(seen.cc, HasChip(kind[d]), probe),
       ppcie |-> Column(seen.ppcie, CarriesPpcie(kind[d]), probe)]

WouldLabel(d, probe, unread) ==
  CcLabelValues(kind[d], IF probe THEN Probed(d, unread)
                                  ELSE [cc |-> "none", ppcie |-> "none"])

\* After a run that returned Ok, until the node is touched again, status
\* --probe answers and its columns are the mode the run was asked for: a device
\* shows no more and no less than its share of it, and a device that cannot be
\* read now says so and claims no label while the others keep theirs.
StatusAgreesWithRun ==
  result = "applied" =>
    /\ StatusAnswers(TRUE, FALSE)
    /\ \A unread \in SUBSET Handles : \A d \in Listed(FALSE) :
         LET c == Columns(d, TRUE, unread)
             v == WouldLabel(d, TRUE, unread)
         IN  /\ c.cc \in {CcTarget(asked), "n/a"}
                  \/ (c.cc = "unreadable" /\ d \in unread)
             /\ c.ppcie \in {PpcieTarget(asked), "n/a"}
                  \/ (c.ppcie = "unreadable" /\ d \in unread)
             /\ d \in Handles \ unread /\ CcCapable(kind[d]) =>
                  v = [mode |-> asked, ready |-> CcReady(asked)]
             /\ d \in unread => v.mode = "none" /\ ~v.ready
=============================================================================
