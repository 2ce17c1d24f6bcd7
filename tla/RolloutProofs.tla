---- MODULE RolloutProofs ----
(***************************************************************************)
(* Rollout's safety properties, for any fleet, any releases and any number *)
(* of rollouts, failures, dispatchers given up on and label changes.       *)
(***************************************************************************)
EXTENDS Rollout, TLAPS

\* Names of runs, modes and removals are not mistaken for one another.
LEMMA Names ==
  ASSUME NEW values \in Releases
  PROVE  /\ RunsOf(values) \subseteq Mode \cup {"default"}
         /\ values.mode \in Mode /\ values.overrides \subseteq Mode
         /\ values.overrides = RunsOf(values) \ {"default"}
         /\ values.sweeps \in BOOLEAN
         /\ Mode \cap {"default", "cleanup", "none", "mixed", "uninstall"} = {}
BY RolloutAssumption DEF RunsOf, Mode

\* The order of the hooks is one of distinct numbers.
LEMMA Ordered ==
  ASSUME NEW q \in Mode \cup {"default"}, NEW r \in Mode \cup {"default"}
  PROVE  /\ HookOrder[q] \in Nat /\ (HookOrder[q] = HookOrder[r] => q = r)
         /\ HookOrder[q] =< HookOrder[r] \/ HookOrder[r] =< HookOrder[q]
BY DEF HookOrder, Mode

LEMMA InitHolds == RolloutInit => RolloutInvariant
BY RolloutAssumption DEF RolloutInit, RolloutInvariant, RolloutTypeOK, RunsInTurn,
   EveryNodeHasItsTurn, TurnsAreOver, LooseIsKnown, LabelsLeadToConf,
   DeployedMeansProvisioned, Busy, Mode

\* Where no rollout is on and none is deployed, only the labels matter.
LEMMA AtRest ==
  ASSUME RolloutTypeOK', RunsInTurn', LabelsLeadToConf', TurnsAreOver', LooseIsKnown',
         helm' \notin {"upgrading", "deployed", "gone"}
  PROVE  RolloutInvariant'
BY DEF RolloutInvariant, EveryNodeHasItsTurn, DeployedMeansProvisioned

-----------------------------------------------------------------------------
(* Helm.                                                                   *)

LEMMA UpgradeKeeps ==
  ASSUME RolloutInvariant, NEW values \in Releases, Upgrade(values)
  PROVE  RolloutInvariant'
<1> USE DEF Upgrade, Begun, nodes, dispatcher
<1>0. dispatch = "none" /\ failed = "no" /\ todo \cup leavers \cup applying \cup removing = {}
  BY DEF RolloutInvariant, RunsInTurn, Busy
<1>1. RolloutTypeOK'
  BY Names DEF RolloutInvariant, RolloutTypeOK
<1>2. RunsInTurn'
  <2>1. RunsOf(values) # {} /\ "none" \notin RunsOf(values)
    BY Names DEF RunsOf
  <2> QED
    BY <1>0, <2>1 DEF RunsInTurn, Busy
<1>3. LabelsLeadToConf' /\ TurnsAreOver' /\ LooseIsKnown'
  BY <1>0 DEF RolloutInvariant, LabelsLeadToConf, TurnsAreOver, LooseIsKnown
<1>4. EveryNodeHasItsTurn'
  BY DEF EveryNodeHasItsTurn, Turn, RunsOf
<1> QED
  BY <1>1, <1>2, <1>3, <1>4 DEF RolloutInvariant, DeployedMeansProvisioned

LEMMA UninstallKeeps ==
  ASSUME RolloutInvariant, Uninstall
  PROVE  RolloutInvariant'
<1> USE DEF Uninstall, Begun, nodes, dispatcher
<1>0. dispatch = "none" /\ failed = "no" /\ todo \cup leavers \cup applying \cup removing = {}
  BY DEF RolloutInvariant, RunsInTurn, Busy
<1>1. RolloutTypeOK'
  BY DEF RolloutInvariant, RolloutTypeOK, bounds
<1>2. RunsInTurn'
  BY <1>0 DEF RunsInTurn, Busy
<1>3. LabelsLeadToConf' /\ TurnsAreOver' /\ LooseIsKnown'
  BY <1>0 DEF RolloutInvariant, LabelsLeadToConf, TurnsAreOver, LooseIsKnown
<1> QED
  BY <1>1, <1>2, <1>3, AtRest

\* However a hook fails, nothing of its run is under way for Helm.
LEMMA HookFailsKeeps ==
  ASSUME RolloutInvariant, HookFails, loose' \subseteq Loose, UNCHANGED <<nodes, release>>,
         (todo \cup leavers \cup applying \cup removing)' = {}
  PROVE  RolloutInvariant'
<1> USE DEF HookFails, Begun, nodes
<1>1. RolloutTypeOK'
  BY DEF RolloutInvariant, RolloutTypeOK
<1>2. RunsInTurn'
  BY DEF RunsInTurn, Busy
<1>3. LabelsLeadToConf' /\ TurnsAreOver' /\ LooseIsKnown'
  BY DEF RolloutInvariant, LabelsLeadToConf, TurnsAreOver, LooseIsKnown
<1> QED
  BY <1>1, <1>2, <1>3, AtRest

-----------------------------------------------------------------------------
(* The dispatcher.                                                         *)

\* What StartRun selects, it selects in turn.
LEMMA SelectedInTurn ==
  ASSUME RolloutTypeOK, NEW n \in Node, NEW r \in RunsOf(release)
  PROVE  n \in Selected(r) <=> n \in eligible /\ Turn(n) = r
BY RolloutAssumption DEF RolloutTypeOK, RunsOf, Selected, Turn, Mode

LEMMA TurnIsARun ==
  ASSUME NEW n \in Node
  PROVE  Turn(n) \in RunsOf(release)
BY DEF Turn, RunsOf

LEMMA StartCleanupKeeps ==
  ASSUME RolloutInvariant, StartRun("cleanup"), "cleanup" \in queue
  PROVE  RolloutInvariant'
<1> USE DEF StartRun, nodes, bounds
<1>0. helm = "uninstalling" /\ failed = "no" /\ todo \cup leavers \cup applying \cup removing = {}
  BY Names DEF RolloutInvariant, RunsInTurn, Busy, RolloutTypeOK
<1>1. RolloutTypeOK'
  BY <1>0 DEF RolloutInvariant, RolloutTypeOK, Selected
<1>2. RunsInTurn'
  BY <1>0 DEF RolloutInvariant, RunsInTurn, Busy
<1>3. LabelsLeadToConf' /\ LooseIsKnown'
  BY <1>0 DEF RolloutInvariant, LabelsLeadToConf, LooseIsKnown, LooseNodes, Selected
<1>4. TurnsAreOver'
  BY <1>0 DEF RolloutInvariant, TurnsAreOver, Turn
<1> QED
  BY <1>0, <1>1, <1>2, <1>3, <1>4, AtRest

LEMMA StartRunKeeps ==
  ASSUME RolloutInvariant, NEW r \in queue, StartRun(r), r # "cleanup"
  PROVE  RolloutInvariant'
<1> USE DEF StartRun, nodes, bounds
<1>0. /\ helm = "upgrading" /\ dispatch = "none" /\ failed = "no"
      /\ todo \cup leavers \cup applying \cup removing = {}
  BY DEF RolloutInvariant, RunsInTurn, Busy
<1>a. /\ r \in RunsOf(release) /\ r # "none" /\ queue \subseteq RunsOf(release)
      /\ release \in Releases /\ r \in Mode \cup {"default"}
      /\ RunsOf(release) \subseteq Mode \cup {"default"}
  BY <1>0, Names DEF RolloutInvariant, RunsInTurn, RolloutTypeOK
<1>b. todo' = Selected(r) /\ todo' \subseteq Node /\ leavers' \subseteq owner \ todo'
  BY <1>a DEF RolloutInvariant, RolloutTypeOK, Leavers, Selected
<1>c. \A n \in Node : Turn(n)' = Turn(n) /\ (n \in todo' <=> n \in eligible /\ Turn(n) = r)
  BY <1>a, <1>b, SelectedInTurn DEF RolloutInvariant, Turn
<1>1. RolloutTypeOK'
  BY <1>0, <1>a, <1>b DEF RolloutInvariant, RolloutTypeOK
<1>2. RunsInTurn'
  <2>1. \A p \in RunsOf(release) \ queue' : HookOrder[p] =< HookOrder[r]
    BY <1>0, <1>a, Ordered DEF RolloutInvariant, RunsInTurn
  <2>2. \A p \in RunsOf(release) \ queue', q \in queue' : HookOrder[p] < HookOrder[q]
    <3>1. \A q \in queue' : HookOrder[r] < HookOrder[q]
      BY <1>a, Ordered DEF NextRun
    <3> QED
      BY <1>0, <3>1 DEF RolloutInvariant, RunsInTurn
  <2>3. \A n \in (todo' \cup applying') \ moved : n \in eligible /\ r = Turn(n)
    BY <1>0, <1>b, <1>c
  <2> QED
    BY <1>0, <1>a, <1>c, <2>1, <2>2, <2>3 DEF RolloutInvariant, RunsInTurn, Busy, RolloutTypeOK
<1>3. LabelsLeadToConf' /\ LooseIsKnown'
  BY <1>0 DEF RolloutInvariant, LabelsLeadToConf, LooseIsKnown, LooseNodes
<1>4. TurnsAreOver'
  BY <1>0, <1>c DEF RolloutInvariant, TurnsAreOver, RolloutTypeOK
<1>5. EveryNodeHasItsTurn'
  <2> SUFFICES ASSUME NEW n \in eligible \ (moved \cup crossed), n \in Node,
                      Turn(n) \notin queue', n \notin todo'
               PROVE  Behind(n)'
    BY <1>c DEF EveryNodeHasItsTurn, RolloutInvariant, RolloutTypeOK
  <2>1. Turn(n) \notin queue /\ Turn(n) # r /\ Behind(n)
    BY <1>0, <1>b, <1>c DEF RolloutInvariant, EveryNodeHasItsTurn
  <2>2. Overtaken(n)'
    <3>1. Turn(n) \in RunsOf(release) \ queue
      BY <2>1, TurnIsARun
    <3>2. HookOrder[r] > HookOrder[Turn(n)]
      BY <1>0, <1>a, <3>1, Ordered DEF RolloutInvariant, RunsInTurn
    <3> QED
      BY <1>a, <1>c, <3>2 DEF Overtaken
  <2>3. CASE release.sweeps
    <3>1. Bare(n) \/ n \in owner
      BY <1>0, <2>1, <2>3 DEF Behind
    <3>2. n \in owner => n \in leavers'
      BY <1>0, <1>b, <2>3 DEF Leavers
    <3> QED
      BY <2>1, <2>2, <2>3, <3>1, <3>2 DEF Behind, Bare
  <2>4. CASE ~release.sweeps
    BY <1>0, <2>1, <2>4 DEF Behind, Provisioned, Wanted
  <2> QED
    BY <2>3, <2>4
<1> QED
  BY <1>0, <1>1, <1>2, <1>3, <1>4, <1>5 DEF RolloutInvariant, DeployedMeansProvisioned

LEMMA EndRunKeeps ==
  ASSUME RolloutInvariant, EndRun
  PROVE  RolloutInvariant'
<1>1. CASE failed # "no"
  BY <1>1, HookFailsKeeps DEF EndRun, RunOver, RolloutInvariant, RolloutTypeOK
<1>2. CASE failed = "no"
  <2> USE <1>2 DEF EndRun, HookDone, RunOver, nodes, bounds, history
  <2>0. helm \in {"upgrading", "uninstalling"} /\ "none" \notin queue
    BY Names DEF RolloutInvariant, RunsInTurn, Busy, RolloutTypeOK
  <2>1. RolloutTypeOK'
    BY <2>0 DEF RolloutInvariant, RolloutTypeOK
  <2>2. RunsInTurn'
    BY <2>0 DEF RolloutInvariant, RunsInTurn, Busy
  <2>3. LabelsLeadToConf'
    BY DEF RolloutInvariant, LabelsLeadToConf, RunsInTurn, Busy
  <2>4. LooseIsKnown'
    BY <2>0 DEF RolloutInvariant, LooseIsKnown, LooseNodes, RunsInTurn
  <2>5. TurnsAreOver'
    BY DEF RolloutInvariant, TurnsAreOver, Turn
  <2>6. \A n \in Node : /\ Turn(n)' = Turn(n) /\ Overtaken(n)' = Overtaken(n)
                        /\ Provisioned(n)' = Provisioned(n) /\ Bare(n)' = Bare(n)
    BY DEF Turn, Overtaken, Provisioned, Bare, Wanted
  <2>7. EveryNodeHasItsTurn'
    BY <2>0, <2>6 DEF RolloutInvariant, EveryNodeHasItsTurn, Behind, RolloutTypeOK
  <2>8. helm' = "deployed" => \A n \in eligible \ (moved \cup crossed) : Behind(n)
    BY <2>0 DEF RolloutInvariant, EveryNodeHasItsTurn
  <2>9. helm' = "gone" => \A n \in Node \ crossed : label[n] = "none"
    BY <2>0 DEF RolloutInvariant, LabelsLeadToConf
  <2> QED
    BY <2>1, <2>2, <2>3, <2>4, <2>5, <2>6, <2>7, <2>8, <2>9
    DEF RolloutInvariant, DeployedMeansProvisioned, Behind, RolloutTypeOK
<1> QED
  BY <1>1, <1>2

LEMMA ProvisionKeeps ==
  ASSUME RolloutInvariant, NEW n \in Node, Provision(n)
  PROVE  RolloutInvariant'
<1> USE DEF Provision, bounds
<1>0. helm = "upgrading" /\ dispatch # "none"
  BY DEF RolloutInvariant, RunsInTurn, Busy
<1>1. RolloutTypeOK'
  BY DEF RolloutInvariant, RolloutTypeOK
<1>2. RunsInTurn'
  BY DEF RolloutInvariant, RunsInTurn, Busy, Turn
<1>3. LabelsLeadToConf' /\ LooseIsKnown'
  BY <1>0 DEF RolloutInvariant, LabelsLeadToConf, LooseIsKnown, LooseNodes
<1>4. TurnsAreOver'
  <2>1. n \notin moved => Turn(n) \notin queue
    BY <1>0 DEF RolloutInvariant, RunsInTurn
  <2> QED
    BY <2>1 DEF RolloutInvariant, TurnsAreOver, Turn
<1>5. EveryNodeHasItsTurn'
  <2>1. \A k \in Node : /\ Turn(k)' = Turn(k) /\ (Behind(k) => Behind(k)')
    BY DEF Turn, Behind, Overtaken, Provisioned, Bare, Wanted
  <2> QED
    BY <2>1 DEF RolloutInvariant, EveryNodeHasItsTurn, RolloutTypeOK
<1> QED
  BY <1>0, <1>1, <1>2, <1>3, <1>4, <1>5 DEF RolloutInvariant, DeployedMeansProvisioned

LEMMA UnprovisionKeeps ==
  ASSUME RolloutInvariant, NEW n \in Node, Unprovision(n)
  PROVE  RolloutInvariant'
<1> USE DEF Unprovision, nodes, bounds, history
<1>0. helm \in {"upgrading", "uninstalling"} /\ dispatch # "none"
  BY DEF RolloutInvariant, RunsInTurn, Busy
<1>1. RolloutTypeOK'
  BY DEF RolloutInvariant, RolloutTypeOK
<1>2. RunsInTurn'
  BY DEF RolloutInvariant, RunsInTurn, Busy, Turn
<1>3. LabelsLeadToConf' /\ LooseIsKnown'
  BY <1>0 DEF RolloutInvariant, LabelsLeadToConf, LooseIsKnown, LooseNodes
<1>4. TurnsAreOver'
  BY DEF RolloutInvariant, TurnsAreOver, Turn
<1>5. EveryNodeHasItsTurn'
  <2>1. \A k \in Node : /\ Turn(k)' = Turn(k) /\ (Behind(k) => Behind(k)')
    BY DEF Turn, Behind, Overtaken, Provisioned, Bare, Wanted
  <2> QED
    BY <2>1 DEF RolloutInvariant, EveryNodeHasItsTurn, RolloutTypeOK
<1> QED
  BY <1>0, <1>1, <1>2, <1>3, <1>4, <1>5 DEF RolloutInvariant, DeployedMeansProvisioned

-----------------------------------------------------------------------------
(* The Jobs of the run.                                                    *)

\* What applies, or is to apply, is of a rollout, and its mode is a mode.
LEMMA AppliesInRollout ==
  ASSUME RolloutInvariant, NEW n \in todo \cup applying
  PROVE  /\ helm = "upgrading" /\ RunMode(dispatch) \in Mode
         /\ n \notin moved => /\ n \in eligible /\ RunMode(dispatch) = Wanted(n)
                              /\ ~Overtaken(n)
<1>1. helm = "upgrading" /\ dispatch \in RunsOf(release) /\ dispatch # "none"
  BY DEF RolloutInvariant, RunsInTurn, Busy
<1>2. release \in Releases
  BY DEF RolloutInvariant, RolloutTypeOK
<1>3. RunMode(dispatch) \in Mode
  BY <1>1, <1>2, Names DEF RunMode
<1>4. ASSUME n \notin moved PROVE n \in eligible /\ dispatch = Turn(n)
  BY <1>1, <1>4 DEF RolloutInvariant, RunsInTurn
<1>5. ASSUME n \notin moved PROVE RunMode(dispatch) = Wanted(n)
  BY <1>1, <1>2, <1>4, <1>5, Names DEF RunMode, Turn, Wanted
<1>6. ASSUME n \notin moved PROVE ~Overtaken(n)
  <2>1. \A r \in RunsOf(release) \ queue : HookOrder[r] =< HookOrder[dispatch]
    BY <1>1 DEF RolloutInvariant, RunsInTurn
  <2>2. RunsOf(release) \subseteq Mode \cup {"default"}
    BY <1>2, Names
  <2> QED
    BY <1>1, <1>4, <1>6, <2>1, <2>2, Ordered DEF Overtaken
<1> QED
  BY <1>1, <1>3, <1>4, <1>5, <1>6

\* A Job of the run that ends on n leaves the other nodes as they are.
LEMMA OthersStay ==
  ASSUME RolloutInvariant, NEW n \in Node, NEW k \in Node \ {n},
         UNCHANGED <<eligible, asks, release, queue, served, todo, leavers>>,
         label'[k] = label[k], shows'[k] = shows[k], k \in conf' <=> k \in conf,
         k \in owner => k \in owner', k \in removing' <=> k \in removing
  PROVE  Behind(k) => Behind(k)'
BY DEF Behind, Turn, Overtaken, Provisioned, Bare, Wanted

LEMMA AppliedKeeps ==
  ASSUME RolloutInvariant, NEW n \in Node, Applied(n)
  PROVE  RolloutInvariant'
<1> USE DEF Applied, ApplyDone, Labelled, RunGoesOn, bounds
<1>0. /\ helm = "upgrading" /\ dispatch # "none"
      /\ RunMode(dispatch) \in Mode /\ RunMode(dispatch) # "none"
  BY AppliesInRollout DEF RolloutInvariant, RunsInTurn, Mode
<1>1. RolloutTypeOK'
  BY <1>0 DEF RolloutInvariant, RolloutTypeOK
<1>2. RunsInTurn'
  BY <1>0 DEF RolloutInvariant, RunsInTurn, Busy, Turn
<1>3. LabelsLeadToConf'
  BY <1>0 DEF RolloutInvariant, LabelsLeadToConf, RolloutTypeOK
<1>4. TurnsAreOver' /\ LooseIsKnown'
  BY <1>0 DEF RolloutInvariant, TurnsAreOver, LooseIsKnown, LooseNodes, Turn
<1>5. EveryNodeHasItsTurn'
  <2>1. n \notin moved \cup crossed => Behind(n)'
    <3>1. ASSUME n \notin moved \cup crossed
          PROVE  /\ RunMode(dispatch) = Wanted(n) /\ ~Overtaken(n)
                 /\ n \in served /\ n \in owner /\ n \notin leavers \cup removing
      BY <3>1, AppliesInRollout DEF RolloutInvariant, TurnsAreOver, RolloutTypeOK
    <3>2. label'[n] = RunMode(dispatch) /\ shows'[n] = RunMode(dispatch) /\ n \in conf'
      BY DEF RolloutInvariant, RolloutTypeOK
    <3>3. Wanted(n)' = Wanted(n) /\ Overtaken(n)' = Overtaken(n)
      BY DEF Wanted, Overtaken, Turn
    <3> QED
      BY <3>1, <3>2, <3>3 DEF Behind, Provisioned
  <2>2. \A k \in Node \ {n} : Behind(k) => Behind(k)'
    BY OthersStay DEF RolloutInvariant, RolloutTypeOK
  <2> QED
    BY <2>1, <2>2 DEF RolloutInvariant, EveryNodeHasItsTurn, Turn, RolloutTypeOK
<1> QED
  BY <1>0, <1>1, <1>2, <1>3, <1>4, <1>5 DEF RolloutInvariant, DeployedMeansProvisioned

LEMMA RemovedKeeps ==
  ASSUME RolloutInvariant, NEW n \in Node, Removed(n)
  PROVE  RolloutInvariant'
<1> USE DEF Removed, RemoveDone, Labelled, RunGoesOn, bounds
<1>0. /\ helm \in {"upgrading", "uninstalling"} /\ dispatch # "none"
      /\ n \notin todo \cup applying
  BY DEF RolloutInvariant, RunsInTurn, Busy, RolloutTypeOK
<1>1. RolloutTypeOK'
  BY DEF RolloutInvariant, RolloutTypeOK
<1>2. RunsInTurn'
  BY <1>0 DEF RolloutInvariant, RunsInTurn, Busy, Turn
<1>3. LabelsLeadToConf'
  BY <1>0 DEF RolloutInvariant, LabelsLeadToConf, RolloutTypeOK
<1>4. TurnsAreOver' /\ LooseIsKnown'
  BY <1>0 DEF RolloutInvariant, TurnsAreOver, LooseIsKnown, LooseNodes, Turn
<1>5. EveryNodeHasItsTurn'
  <2>1. Behind(n) => Behind(n)'
    <3>1. Bare(n)' /\ Overtaken(n)' = Overtaken(n)
      BY DEF Bare, Overtaken, Turn, RolloutInvariant, RolloutTypeOK
    <3> QED
      BY <3>1 DEF Behind
  <2>2. \A k \in Node \ {n} : Behind(k) => Behind(k)'
    BY OthersStay DEF RolloutInvariant, RolloutTypeOK
  <2> QED
    BY <2>1, <2>2 DEF RolloutInvariant, EveryNodeHasItsTurn, Turn, RolloutTypeOK
<1> QED
  BY <1>0, <1>1, <1>2, <1>3, <1>4, <1>5 DEF RolloutInvariant, DeployedMeansProvisioned

\* apply cut short leaves types and labels as they should be.
LEMMA CutApplies ==
  ASSUME RolloutInvariant, NEW n \in Node, NEW m \in Mode, ApplyCut(n, m), Unseen(n)
  PROVE  /\ label' = label /\ conf' \subseteq Node
         /\ shows' \in [Node -> Mode \cup {"mixed"}]
         /\ \A k \in Node \ {n} : shows'[k] = shows[k] /\ (k \in conf' <=> k \in conf)
         /\ \A k \in conf' : label[k] # "none" \/ k \in strays'
BY DEF ApplyCut, ApplyDone, Unseen, RolloutInvariant, RolloutTypeOK, LabelsLeadToConf

LEMMA CutRemoves ==
  ASSUME RolloutInvariant, NEW n \in Node, RemoveCut(n), Unseen(n)
  PROVE  /\ label' = label /\ conf' \subseteq conf /\ shows' = shows
         /\ \A k \in Node \ {n} : k \in conf' <=> k \in conf
         /\ \A k \in conf' : label[k] # "none" \/ k \in strays'
BY DEF RemoveCut, Unseen, RolloutInvariant, RolloutTypeOK, LabelsLeadToConf

LEMMA JobFailsKeeps ==
  ASSUME RolloutInvariant, NEW n \in Node, ApplyFails(n) \/ RemoveFails(n)
  PROVE  RolloutInvariant'
<1> USE DEF ApplyFails, RemoveFails, RunGoesOn, bounds
<1>0. /\ helm \in {"upgrading", "uninstalling"} /\ dispatch # "none" /\ failed' = "node"
      /\ n \in applying => RunMode(dispatch) \in Mode
  BY AppliesInRollout DEF RolloutInvariant, RunsInTurn, Busy
<1>a. /\ label' = label /\ conf' \subseteq Node
      /\ shows' \in [Node -> Mode \cup {"mixed"}]
      /\ \A k \in conf' : label[k] # "none" \/ k \in strays'
  BY <1>0, CutApplies, CutRemoves DEF RolloutInvariant, RolloutTypeOK
<1>1. RolloutTypeOK'
  BY <1>a, <1>0 DEF RolloutInvariant, RolloutTypeOK
<1>2. RunsInTurn'
  BY <1>0 DEF RolloutInvariant, RunsInTurn, Busy, Turn
<1>3. LabelsLeadToConf'
  BY <1>a, <1>0 DEF LabelsLeadToConf
<1>4. TurnsAreOver' /\ LooseIsKnown'
  BY <1>0 DEF RolloutInvariant, TurnsAreOver, LooseIsKnown, LooseNodes, Turn
<1> QED
  BY <1>0, <1>1, <1>2, <1>3, <1>4
  DEF RolloutInvariant, EveryNodeHasItsTurn, DeployedMeansProvisioned

-----------------------------------------------------------------------------
(* What is loose.                                                          *)

LEMMA GivenUpKeeps ==
  ASSUME RolloutInvariant, DispatcherDies \/ HelmTimesOut
  PROVE  RolloutInvariant'
<1>1. /\ dispatch # "none"
      /\ \A n \in todo \cup applying : RunMode(dispatch) \in Mode
      /\ todo \cup leavers \cup applying \cup removing \subseteq Node
  BY AppliesInRollout DEF DispatcherDies, HelmTimesOut, GivenUp, RolloutInvariant, RolloutTypeOK
<1>2. ASSUME NEW apply, NEW remove, NEW watch \in {"dispatcher", "nobody"},
             apply \subseteq todo \cup applying, remove \subseteq leavers \cup removing
      PROVE  LooseJobs(apply, remove, watch) \subseteq Loose
  BY <1>1, <1>2 DEF LooseJobs, Loose
<1>3. loose' \subseteq Loose
  BY <1>2 DEF DispatcherDies, HelmTimesOut, RolloutInvariant, RolloutTypeOK
<1> QED
  BY <1>3, HookFailsKeeps DEF DispatcherDies, HelmTimesOut, GivenUp

\* What a loose Job does to its node, nobody speaks of: the run has not come to
\* the node, or knows that it met something loose.
LEMMA LooseKeeps ==
  ASSUME RolloutInvariant, NEW o \in loose, loose' = loose \ {o}, BehindTheRun,
         label' \in [Node -> Mode \cup {"none"}], conf' \subseteq Node,
         shows' \in [Node -> Mode \cup {"mixed"}], owner' \subseteq Node,
         \A k \in Node \ {o.node} :
           /\ label'[k] = label[k] /\ shows'[k] = shows[k]
           /\ (k \in conf' <=> k \in conf) /\ (k \in owner' <=> k \in owner),
         \A k \in conf' : label'[k] # "none" \/ k \in strays'
  PROVE  RolloutInvariant'
<1> USE DEF BehindTheRun, dispatcher, bounds
<1>0. o.node \in Node /\ o.node \in LooseNodes /\ LooseNodes' \subseteq LooseNodes
  BY DEF RolloutInvariant, RolloutTypeOK, Loose, LooseNodes
<1>1. RolloutTypeOK'
  BY DEF RolloutInvariant, RolloutTypeOK
<1>2. RunsInTurn'
  BY DEF RolloutInvariant, RunsInTurn, Busy, Turn
<1>3. LabelsLeadToConf'
  BY <1>0 DEF RolloutInvariant, LabelsLeadToConf, LooseIsKnown
<1>4. LooseIsKnown'
  BY <1>0 DEF RolloutInvariant, LooseIsKnown
<1>5. helm \in {"upgrading", "deployed"} /\ o.node \in served => o.node \in crossed
  BY <1>0 DEF RolloutInvariant, LooseIsKnown
<1>6. TurnsAreOver'
  <2>1. applying # {} => helm = "upgrading"
    BY DEF RolloutInvariant, RunsInTurn, Busy
  <2> QED
    BY <1>5, <2>1 DEF RolloutInvariant, TurnsAreOver, Turn, RolloutTypeOK
<1>7. \A k \in Node \ {o.node} : /\ Turn(k)' = Turn(k) /\ Overtaken(k)' = Overtaken(k)
                                 /\ Provisioned(k)' = Provisioned(k) /\ Bare(k)' = Bare(k)
                                 /\ Behind(k)' = Behind(k)
  BY DEF Turn, Overtaken, Provisioned, Bare, Wanted, Behind
<1>8. EveryNodeHasItsTurn'
  <2>1. Turn(o.node)' = Turn(o.node) /\ (Behind(o.node) => o.node \in served)
    BY DEF Turn, Behind
  <2> QED
    BY <1>5, <1>7, <2>1 DEF RolloutInvariant, EveryNodeHasItsTurn, RolloutTypeOK
<1>9. DeployedMeansProvisioned'
  BY <1>5, <1>7 DEF RolloutInvariant, DeployedMeansProvisioned, RolloutTypeOK
<1>10. helm = "gone" => \A k \in Node \ crossed : label'[k] = "none"
  BY <1>0 DEF RolloutInvariant, LooseIsKnown
<1> QED
  BY <1>1, <1>2, <1>3, <1>4, <1>6, <1>8, <1>9, <1>10 DEF RolloutInvariant

LEMMA LooseEndsKeeps ==
  ASSUME RolloutInvariant, NEW o \in loose, LooseApplied(o) \/ LooseRemoved(o) \/ LooseLost(o)
  PROVE  RolloutInvariant'
<1>0. o.node \in Node
  BY DEF RolloutInvariant, RolloutTypeOK, Loose
<1>1. CASE LooseApplied(o)
  BY <1>0, <1>1, LooseKeeps DEF LooseApplied, ApplyDone, Labelled, Mode,
     RolloutInvariant, RolloutTypeOK, LabelsLeadToConf
<1>2. CASE LooseRemoved(o)
  BY <1>0, <1>2, LooseKeeps DEF LooseRemoved, RemoveDone, Labelled,
     RolloutInvariant, RolloutTypeOK, LabelsLeadToConf
<1>3. CASE LooseLost(o)
  <2>1. /\ label' = label /\ conf' \subseteq Node
        /\ shows' \in [Node -> Mode \cup {"mixed"}]
        /\ \A k \in Node \ {o.node} : shows'[k] = shows[k] /\ (k \in conf' <=> k \in conf)
        /\ \A k \in conf' : label[k] # "none" \/ k \in strays'
    BY <1>0, <1>3, CutApplies, CutRemoves DEF LooseLost, RolloutInvariant, RolloutTypeOK
  <2>2. owner' \in {owner, owner \cup {o.node}}
    BY <1>3 DEF LooseLost
  <2>3. loose' = loose \ {o} /\ BehindTheRun
    BY <1>3 DEF LooseLost
  <2> QED
    BY <1>0, <2>1, <2>2, <2>3, LooseKeeps DEF RolloutInvariant, RolloutTypeOK
<1> QED
  BY <1>1, <1>2, <1>3

-----------------------------------------------------------------------------
(* The labels.                                                             *)

LEMMA LabelsKeep ==
  ASSUME RolloutInvariant, Labels
  PROVE  RolloutInvariant'
<1>1. PICK n \in Node : Discovered(n) \/ \E m \in Asks \cup {"none"} : Relabel(n, m)
  BY DEF Labels
<1>2. /\ UNCHANGED <<label, owner, shows, conf, release, helm, queue, dispatch, todo,
                     leavers, applying, removing, failed, loose, served, crossed, strays>>
      /\ moved' = moved \cup {n}
      /\ eligible' \subseteq Node /\ asks' \in [Node -> Mode \cup {"none"}]
      /\ \A k \in Node \ {n} : (k \in eligible' <=> k \in eligible) /\ asks'[k] = asks[k]
  BY <1>1, RolloutAssumption
  DEF Discovered, Relabel, Moves, dispatcher, RolloutInvariant, RolloutTypeOK
<1>3. RolloutTypeOK'
  BY <1>2 DEF RolloutInvariant, RolloutTypeOK
<1>4. \A k \in Node \ {n} : /\ Turn(k)' = Turn(k) /\ Overtaken(k)' = Overtaken(k)
                            /\ Provisioned(k)' = Provisioned(k) /\ Bare(k)' = Bare(k)
                            /\ Behind(k)' = Behind(k)
  BY <1>2 DEF Turn, Overtaken, Wanted, Provisioned, Bare, Behind
<1>5. RunsInTurn'
  BY <1>2, <1>4 DEF RolloutInvariant, RunsInTurn, Busy, RolloutTypeOK
<1>6. LabelsLeadToConf' /\ LooseIsKnown'
  BY <1>2 DEF RolloutInvariant, LabelsLeadToConf, LooseIsKnown, LooseNodes
<1>7. TurnsAreOver'
  BY <1>2, <1>4 DEF RolloutInvariant, TurnsAreOver, RolloutTypeOK
<1>8. EveryNodeHasItsTurn'
  BY <1>2, <1>3, <1>4 DEF RolloutInvariant, EveryNodeHasItsTurn, RolloutTypeOK
<1>9. DeployedMeansProvisioned'
  BY <1>2, <1>3, <1>4 DEF RolloutInvariant, DeployedMeansProvisioned, RolloutTypeOK
<1>10. helm = "deployed" => \A k \in eligible' \ (moved' \cup crossed') : k \in served
  BY <1>2, <1>3 DEF RolloutInvariant, RolloutTypeOK
<1> QED
  BY <1>2, <1>3, <1>5, <1>6, <1>7, <1>8, <1>9, <1>10 DEF RolloutInvariant

-----------------------------------------------------------------------------

\* The inductive invariant holds of every fleet, whatever its releases, their
\* number, what fails and what is given up on.
THEOREM RolloutInvariantHolds == RolloutSpec => []RolloutInvariant
<1>1. RolloutInvariant /\ [RolloutNext]_rolloutVars => RolloutInvariant'
  <2> SUFFICES ASSUME RolloutInvariant, [RolloutNext]_rolloutVars PROVE RolloutInvariant'
    OBVIOUS
  <2>1. CASE HelmStep
    BY <2>1, UpgradeKeeps, UninstallKeeps DEF HelmStep
  <2>2. CASE EndRun
    BY <2>2, EndRunKeeps
  <2>3. ASSUME NEW r \in queue, StartRun(r) PROVE RolloutInvariant'
    BY <2>3, StartRunKeeps, StartCleanupKeeps
  <2>4. ASSUME NEW r \in queue, GiveUp(r) PROVE RolloutInvariant'
    <3>1. (todo \cup leavers \cup applying \cup removing)' = {} /\ loose' \subseteq Loose
      BY <2>4 DEF GiveUp, RolloutInvariant, RunsInTurn, RolloutTypeOK
    <3> QED
      BY <2>4, <3>1, HookFailsKeeps DEF GiveUp
  <2>5. ASSUME NEW n \in Node, Provision(n) \/ Unprovision(n) PROVE RolloutInvariant'
    BY <2>5, ProvisionKeeps, UnprovisionKeeps
  <2>6. CASE JobStep
    BY <2>6, AppliedKeeps, RemovedKeeps, JobFailsKeeps DEF JobStep
  <2>7. CASE LooseStep
    BY <2>7, GivenUpKeeps, LooseEndsKeeps DEF LooseStep
  <2>8. CASE Labels
    BY <2>8, LabelsKeep
  <2>9. CASE UNCHANGED rolloutVars
    <3>1. UNCHANGED <<eligible, asks, label, owner, shows, conf, release, helm, queue,
                      dispatch, todo, leavers, applying, removing, failed, loose, moved,
                      served, crossed, strays>>
      BY <2>9 DEF rolloutVars, nodes, dispatcher, history
    <3> QED
      BY <3>1 DEF RolloutInvariant, RolloutTypeOK, RunsInTurn, EveryNodeHasItsTurn,
         TurnsAreOver, LooseIsKnown, LooseNodes, LabelsLeadToConf, DeployedMeansProvisioned,
         Busy, Turn, Overtaken, Wanted, Provisioned, Bare, Behind
  <2> QED
    BY <2>1, <2>2, <2>3, <2>4, <2>5, <2>6, <2>7, <2>8, <2>9 DEF RolloutNext, DispatchStep
<1> QED
  BY <1>1, InitHolds, PTL DEF RolloutSpec

\* Type correctness of the rollout: a node is at one point of a run at a time.
THEOREM RolloutTypeOKHolds == RolloutSpec => []RolloutTypeOK
<1>1. RolloutInvariant => RolloutTypeOK
  BY DEF RolloutInvariant
<1> QED
  BY <1>1, RolloutInvariantHolds, PTL

\* A rollout that Helm calls deployed left every selected node that was not
\* relabelled, and met nothing loose, in the mode the release has for it, or
\* bare where the release's dispatcher sweeps and a later run took it back.
THEOREM DeployedMeansProvisionedHolds == RolloutSpec => []DeployedMeansProvisioned
<1>1. RolloutInvariant => DeployedMeansProvisioned
  BY DEF RolloutInvariant
<1> QED
  BY <1>1, RolloutInvariantHolds, PTL

\* No node is provisioned twice by one rollout.
THEOREM SteadyNodeRunsOnceHolds == RolloutSpec => []SteadyNodeRunsOnce
<1>1. RolloutInvariant => SteadyNodeRunsOnce
  BY DEF RolloutInvariant, TurnsAreOver, SteadyNodeRunsOnce
<1> QED
  BY <1>1, RolloutInvariantHolds, PTL

\* An uninstall that Helm calls done has removed every label and all boot
\* configuration, except on unlabelled nodes the last Job failed on or ended
\* unseen, and on nodes where a Job of a rollout given up on was still under way.
THEOREM UninstallLeavesOnlyStraysHolds == RolloutSpec => []UninstallLeavesOnlyStrays
<1>1. RolloutInvariant => UninstallLeavesOnlyStrays
  BY DEF RolloutInvariant, RolloutTypeOK, LabelsLeadToConf, UninstallLeavesOnlyStrays
<1> QED
  BY <1>1, RolloutInvariantHolds, PTL

=============================================================================
