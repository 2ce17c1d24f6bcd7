---- MODULE Rollout ----
(***************************************************************************)
(* A profile of the chart over a fleet.  Each `helm upgrade` runs one      *)
(* dispatcher per mode, one after the other: the default run selects the   *)
(* nodes that carry no override, each override run the nodes labelled with *)
(* its mode.  A dispatcher puts a Job on each node and labels the nodes    *)
(* whose Job succeeded.  `helm uninstall` runs one more that removes what  *)
(* it finds labelled.                                                      *)
(*                                                                         *)
(* Helm may give up on a dispatcher, whose pod is lost or takes longer     *)
(* than Helm waits.  What it had under way goes on by itself, beside the   *)
(* next rollout or the uninstall: it is loose.                             *)
(*                                                                         *)
(* The dispatcher and Helm are not in the repository: they do here what    *)
(* the chart's flags and comments say of them.  The Job is main::apply or  *)
(* main::uninstall, of which only the outcome matters here; ModeStage and  *)
(* Overlap say which outcomes there are.                                   *)
(***************************************************************************)
EXTENDS DeviceTable, Naturals, FiniteSets

CONSTANTS Node,
          Fleets,         \* sets of nodes nodeSelector may match at first
          Releases,       \* values a release may be given
          Parallelism,    \* job.parallelism
          Asks,           \* values a node's ccModeLabel may be given
          MaxUpgrades,    \* bound: rollouts
          MaxGivenUp,     \* bound: runs that Helm gives up on
          MaxMoves        \* bound: changes of the nodes' own labels

\* mode is ccMode, overrides ccModeOverrides, wait says that
\* job.waitForNodesSeconds is not 0, and sweeps that a run of
\* job.dispatcherImage unprovisions the nodes that its instance owns and it does
\* not select.
ASSUME RolloutAssumption ==
  /\ Releases \subseteq [mode : Mode, overrides : SUBSET Mode,
                          wait : BOOLEAN, sweeps : BOOLEAN]
  /\ Parallelism \in Nat \ {0}
  /\ Fleets \subseteq SUBSET Node /\ Asks \subseteq Mode
  /\ MaxUpgrades \in Nat /\ MaxGivenUp \in Nat /\ MaxMoves \in Nat

VARIABLES eligible,  \* the nodes nodeSelector matches
          asks,      \* ccModeLabel of each node
          label,     \* ccModeStateLabel of each node
          owner,     \* the nodes that carry the profile's instance marker
          shows,     \* the mode that queries of each node's devices return,
                     \* or "mixed"; what they behave in is ModeStage's
          conf,      \* the nodes with boot configuration of ours
          release,   \* the values of the release
          helm,      \* what Helm is doing, or how it ended
          queue,     \* the dispatcher runs Helm has still to start
          dispatch,  \* the run that is on
          todo,      \* the nodes it has selected and not come to
          leavers,   \* the nodes it has to unprovision
          applying,  \* the nodes where a Job of it runs apply
          removing,  \* the nodes where a Job of it runs uninstall
          failed,    \* "no", "node" once a Job failed
          loose,     \* what dispatchers that were given up on have under way
          upgrades, givenUp, moves,  \* counters of the bounds
          moved,     \* nodes relabelled since the rollout began
          served,    \* nodes a Job of this rollout was created for
          crossed,   \* nodes where it met something loose
          strays     \* unlabelled nodes a Job failed on, or ended unseen; these
                     \* four are read by the properties only

nodes == <<eligible, asks, label, owner, shows, conf>>
dispatcher == <<dispatch, todo, leavers, applying, removing, failed>>
bounds == <<upgrades, givenUp, moves>>
history == <<moved, served, crossed, strays>>
rolloutVars ==
  <<nodes, release, helm, queue, dispatcher, loose, bounds, history>>

-----------------------------------------------------------------------------
(* The runs of a rollout and the nodes each selects.                       *)

\* Helm runs hooks of one weight in the order of their names, and the default
\* run has no mode in its name.
HookOrder ==
  [devtools |-> 1, default |-> 2, off |-> 3, on |-> 4, ppcie |-> 5, cleanup |-> 6]

RunsOf(values) == {"default"} \cup values.overrides

NextRun(r) == r \in queue /\ \A q \in queue : HookOrder[r] =< HookOrder[q]

RunMode(r) == IF r = "default" THEN release.mode ELSE r

\* Bugs: the default run selects every node; the cleanup selects like a run.
Selected_DefaultTakesAll(r) ==
  CASE r = "default" -> eligible
    [] r = "cleanup" -> {n \in Node : label[n] # "none"}
    [] OTHER -> {n \in eligible : asks[n] = r}
Selected_CleanupAsProvisioned(r) ==
  CASE r = "default" -> {n \in eligible : asks[n] \notin release.overrides}
    [] r = "cleanup" -> eligible
    [] OTHER -> {n \in eligible : asks[n] = r}

\* The cleanup goes by the presence of the result label, whatever its value.
Selected(r) ==
  CASE r = "default" -> {n \in eligible : asks[n] \notin release.overrides}
    [] r = "cleanup" -> {n \in Node : label[n] # "none"}
    [] OTHER -> {n \in eligible : asks[n] = r}

\* The mode the release has for a node.
Wanted(n) == IF asks[n] \in release.overrides THEN asks[n] ELSE release.mode

Busy == helm \in {"upgrading", "uninstalling"}

\* A loose Job of a node, apply to a mode or uninstall, to come or begun; its
\* dispatcher still watches it, and labels the node, or nobody does.
Loose == [node : Node, does : Mode \cup {"uninstall"},
          watch : {"dispatcher", "nobody"}]
LooseNodes == {o.node : o \in loose}

-----------------------------------------------------------------------------

\* Types; a node is at one point of a run at a time.
RolloutTypeOK ==
  /\ eligible \subseteq Node
  /\ asks \in [Node -> Mode \cup {"none"}]
  /\ label \in [Node -> Mode \cup {"none"}]
  /\ owner \subseteq Node /\ conf \subseteq Node
  /\ shows \in [Node -> Mode \cup {"mixed"}]
  /\ release \in Releases
  /\ helm \in {"none", "upgrading", "deployed", "failed", "uninstalling", "gone"}
  /\ queue \subseteq Mode \cup {"default", "cleanup"}
  /\ dispatch \in Mode \cup {"default", "cleanup", "none"}
  /\ todo \subseteq Node /\ applying \subseteq Node \ todo
  /\ leavers \subseteq Node \ (todo \cup applying)
  /\ removing \subseteq Node \ (todo \cup applying \cup leavers)
  /\ failed \in {"no", "node"}
  /\ loose \subseteq Loose
  /\ served \subseteq Node

RolloutInit ==
  /\ eligible \in Fleets
  /\ asks = [n \in Node |-> "none"]
  /\ label = [n \in Node |-> "none"]
  /\ owner = {} /\ conf = {}
  /\ shows = [n \in Node |-> "off"]
  /\ release \in Releases
  /\ helm = "none"
  /\ queue = {}
  /\ dispatch = "none" /\ todo = {} /\ leavers = {}
  /\ applying = {} /\ removing = {} /\ failed = "no" /\ loose = {}
  /\ upgrades = 0 /\ givenUp = 0 /\ moves = 0
  /\ moved = {} /\ served = {} /\ crossed = {} /\ strays = {}

-----------------------------------------------------------------------------
(* Helm.                                                                   *)

\* What is told of a rollout or an uninstall is told from here on.
Begun == moved' = {} /\ served' = {} /\ crossed' = {}

Upgrade(values) ==
  /\ helm \in {"none", "deployed", "failed"}
  /\ upgrades < MaxUpgrades
  /\ upgrades' = upgrades + 1
  /\ release' = values
  /\ helm' = "upgrading"
  /\ queue' = RunsOf(values)
  /\ Begun
  /\ UNCHANGED <<nodes, dispatcher, loose, givenUp, moves, strays>>

Uninstall ==
  /\ helm \in {"deployed", "failed"}
  /\ helm' = "uninstalling"
  /\ queue' = {"cleanup"}
  /\ Begun
  /\ UNCHANGED <<nodes, release, dispatcher, loose, bounds, strays>>

\* A hook that fails ends the release's operation: the hooks behind it are not
\* run.
HookFails ==
  /\ helm' = "failed"
  /\ queue' = {}
  /\ dispatch' = "none"
  /\ failed' = "no"
  /\ Begun /\ UNCHANGED strays

HookDone ==
  /\ helm' = IF queue # {} THEN helm
             ELSE IF helm = "upgrading" THEN "deployed" ELSE "gone"
  /\ dispatch' = "none"
  /\ UNCHANGED <<queue, failed, history>>

-----------------------------------------------------------------------------
(* The dispatcher.                                                         *)

\* Bug: a run sweeps what it selects, too.
Leavers_Own(r) == owner

\* What run r takes back on its way, its instance's nodes that it does not
\* select.
Leavers(r) == owner \ Selected(r)

\* The nodes are listed live as the run starts.
StartRun(r) ==
  /\ Busy /\ dispatch = "none" /\ NextRun(r)
  /\ dispatch' = r
  /\ queue' = queue \ {r}
  /\ IF r = "cleanup"
     THEN todo' = {} /\ leavers' = Selected(r) /\ crossed' = LooseNodes
     ELSE /\ Selected(r) # {} \/ ~release.wait
          /\ todo' = Selected(r)
          /\ leavers' = IF release.sweeps THEN Leavers(r) ELSE {}
          /\ UNCHANGED crossed
  /\ UNCHANGED <<nodes, release, helm, applying, removing, failed, loose, bounds,
                 moved, served, strays>>

\* waitForNodesSeconds have passed and there is still no node.
GiveUp(r) ==
  /\ Busy /\ dispatch = "none" /\ NextRun(r)
  /\ r # "cleanup" /\ release.wait /\ Selected(r) = {}
  /\ HookFails
  /\ UNCHANGED <<nodes, release, todo, leavers, applying, removing, loose, bounds>>

\* Of the run's own Jobs.
Free == Cardinality(applying \cup removing) < Parallelism

\* A node is claimed and its Job created.
Provision(n) ==
  /\ n \in todo /\ Free
  /\ todo' = todo \ {n}
  /\ applying' = applying \cup {n}
  /\ owner' = owner \cup {n}
  /\ served' = served \cup {n}
  /\ crossed' = crossed \cup ({n} \cap LooseNodes)
  /\ UNCHANGED <<eligible, asks, label, shows, conf, release, helm, queue, dispatch,
                 leavers, removing, failed, loose, bounds, moved, strays>>

Unprovision(n) ==
  /\ n \in leavers /\ Free
  /\ leavers' = leavers \ {n}
  /\ removing' = removing \cup {n}
  /\ UNCHANGED <<nodes, release, helm, queue, dispatch, todo, applying, failed, loose,
                 bounds, history>>

-----------------------------------------------------------------------------
(* What a Job does to its node.                                            *)

\* Bug: apply returns Ok though its mode stage may have failed.
ApplyDone_Unread(n, m) ==
  /\ \E s \in {shows[n], m, "mixed"} : shows' = [shows EXCEPT ![n] = s]
  /\ conf' = conf \cup {n}

\* Queries return the mode, behind a mode stage that came to its end.
ApplyDone(n, m) ==
  /\ shows' = [shows EXCEPT ![n] = m]
  /\ conf' = conf \cup {n}

\* apply ends before its mode stage, in it or behind it, with and without the
\* boot files written.
ApplyCut(n, m) ==
  \/ /\ \E s \in {shows[n], m, "mixed"} : shows' = [shows EXCEPT ![n] = s]
     /\ UNCHANGED conf
  \/ ApplyDone(n, m)

RemoveDone(n) == conf' = conf \ {n} /\ UNCHANGED shows
RemoveCut(n) == conf' \in {conf, conf \ {n}} /\ UNCHANGED shows

\* The dispatcher saw the Job succeed and its node Ready.
Labelled(n, m) == label' = [label EXCEPT ![n] = m] /\ strays' = strays \ {n}

\* The Job failed, was over its deadline, its node did not come back Ready, or
\* nobody was left to see how it ended.
Unseen(n) ==
  /\ strays' = IF label[n] = "none" THEN strays \cup {n} ELSE strays
  /\ UNCHANGED label

-----------------------------------------------------------------------------
(* How the Jobs of the run end.                                            *)

RunGoesOn ==
  UNCHANGED <<eligible, asks, release, helm, queue, dispatch, todo, leavers, loose,
              bounds, moved, served, crossed>>

Applied(n) ==
  /\ n \in applying
  /\ applying' = applying \ {n}
  /\ ApplyDone(n, RunMode(dispatch))
  /\ Labelled(n, RunMode(dispatch))
  /\ RunGoesOn /\ UNCHANGED <<owner, removing, failed>>

ApplyFails(n) ==
  /\ n \in applying
  /\ applying' = applying \ {n}
  /\ ApplyCut(n, RunMode(dispatch))
  /\ Unseen(n) /\ failed' = "node"
  /\ RunGoesOn /\ UNCHANGED <<owner, removing>>

Removed(n) ==
  /\ n \in removing
  /\ removing' = removing \ {n}
  /\ owner' = owner \ {n}
  /\ RemoveDone(n)
  /\ Labelled(n, "none")
  /\ RunGoesOn /\ UNCHANGED <<applying, failed>>

RemoveFails(n) ==
  /\ n \in removing
  /\ removing' = removing \ {n}
  /\ RemoveCut(n)
  /\ Unseen(n) /\ failed' = "node"
  /\ RunGoesOn /\ UNCHANGED <<owner, applying>>

\* Bugs: a run ends once all its Jobs are created; it waits for the label of
\* every node it made a Job for.
RunOver_AllCreated == dispatch # "none" /\ todo \cup leavers = {}
RunOver_AllLabelled ==
  /\ dispatch # "none" /\ todo \cup leavers \cup applying \cup removing = {}
  /\ \A n \in served : label[n] # "none"

RunOver == dispatch # "none" /\ todo \cup leavers \cup applying \cup removing = {}

EndRun ==
  /\ RunOver
  /\ IF failed = "no" THEN HookDone ELSE HookFails
  /\ UNCHANGED <<nodes, release, todo, leavers, applying, removing, loose, bounds>>

-----------------------------------------------------------------------------
(* Runs that Helm gives up on.                                             *)

\* Jobs of the run as loose ones, for these nodes.
LooseJobs(apply, remove, watch) ==
  {[node |-> n, does |-> RunMode(dispatch), watch |-> watch] : n \in apply}
    \cup {[node |-> n, does |-> "uninstall", watch |-> watch] : n \in remove}

GivenUp ==
  /\ dispatch # "none"
  /\ givenUp < MaxGivenUp
  /\ givenUp' = givenUp + 1
  /\ HookFails
  /\ todo' = {} /\ leavers' = {} /\ applying' = {} /\ removing' = {}
  /\ UNCHANGED <<nodes, release, upgrades, moves>>

\* The dispatcher's pod is evicted or killed.  backoffLimit is 0: the hook has
\* failed, and the Jobs it created go on.
DispatcherDies ==
  /\ GivenUp
  /\ loose' = loose \cup LooseJobs(applying, removing, "nobody")

\* Helm has waited long enough; the dispatcher goes on with all it has to do.
HelmTimesOut ==
  /\ GivenUp
  /\ loose' = loose \cup LooseJobs(todo \cup applying, leavers \cup removing, "dispatcher")

\* Helm, and the run it waits for, hear nothing of what follows.
BehindTheRun ==
  UNCHANGED <<eligible, asks, release, helm, queue, dispatcher, bounds, moved, served,
              crossed>>

LooseApplied(o) ==
  /\ o.does \in Mode /\ o.watch = "dispatcher"
  /\ loose' = loose \ {o}
  /\ owner' = owner \cup {o.node}
  /\ ApplyDone(o.node, o.does)
  /\ Labelled(o.node, o.does)
  /\ BehindTheRun

LooseRemoved(o) ==
  /\ o.does = "uninstall" /\ o.watch = "dispatcher"
  /\ loose' = loose \ {o}
  /\ owner' = owner \ {o.node}
  /\ RemoveDone(o.node)
  /\ Labelled(o.node, "none")
  /\ BehindTheRun

\* It fails, or is deleted with its dispatcher, or there is nobody to see it
\* succeed, or it was never begun.
LooseLost(o) ==
  /\ loose' = loose \ {o}
  /\ \/ /\ o.does \in Mode /\ ApplyCut(o.node, o.does)
        /\ owner' \in {owner, owner \cup {o.node}}
     \/ o.does = "uninstall" /\ RemoveCut(o.node) /\ UNCHANGED owner
  /\ Unseen(o.node)
  /\ BehindTheRun

-----------------------------------------------------------------------------
(* The nodes' own labels, which nothing watches.                           *)

Moves(n) ==
  /\ moves < MaxMoves
  /\ moves' = moves + 1
  /\ moved' = moved \cup {n}
  /\ UNCHANGED <<label, owner, shows, conf, release, helm, queue, dispatcher,
                 loose, upgrades, givenUp, served, crossed, strays>>

Relabel(n, m) ==
  /\ asks[n] # m
  /\ asks' = [asks EXCEPT ![n] = m]
  /\ Moves(n) /\ UNCHANGED eligible

Discovered(n) ==
  /\ eligible' = IF n \in eligible THEN eligible \ {n} ELSE eligible \cup {n}
  /\ Moves(n) /\ UNCHANGED asks

-----------------------------------------------------------------------------

HelmStep == Uninstall \/ \E values \in Releases : Upgrade(values)

JobStep ==
  \E n \in Node : Applied(n) \/ Removed(n) \/ ApplyFails(n) \/ RemoveFails(n)

DispatchStep ==
  \/ EndRun
  \/ \E r \in queue : StartRun(r) \/ GiveUp(r)
  \/ \E n \in Node : Provision(n) \/ Unprovision(n)

Labels ==
  \E n \in Node : Discovered(n) \/ \E m \in Asks \cup {"none"} : Relabel(n, m)

LooseStep ==
  \/ DispatcherDies \/ HelmTimesOut
  \/ \E o \in loose : LooseApplied(o) \/ LooseRemoved(o) \/ LooseLost(o)

RolloutNext == HelmStep \/ DispatchStep \/ JobStep \/ LooseStep \/ Labels

RolloutSpec == RolloutInit /\ [][RolloutNext]_rolloutVars

\* The dispatcher that Helm waits for keeps working, and a Job is over at its
\* activeDeadlineSeconds.  Nothing is asked of what is loose.
FairRollout == RolloutSpec /\ WF_rolloutVars(DispatchStep) /\ WF_rolloutVars(JobStep)

-----------------------------------------------------------------------------
(* Properties.                                                             *)

\* The run of a rollout a node is due in, and whether a later one has begun.
Turn(n) == IF asks[n] \in release.overrides THEN asks[n] ELSE "default"
Overtaken(n) == \E r \in RunsOf(release) \ queue : HookOrder[r] > HookOrder[Turn(n)]

\* The node is labelled with the mode the release has for it, its devices report
\* that mode, and it is bound at every boot.
Provisioned(n) == label[n] = Wanted(n) /\ shows[n] = Wanted(n) /\ n \in conf
Bare(n) == label[n] = "none" /\ n \notin conf

\* A rollout that Helm calls deployed left every node it selects provisioned,
\* whatever failed in the rollouts before it; except that where runs sweep, each
\* has unprovisioned the nodes of the ones before it, and only the nodes of the
\* last run are (_helpers.tpl:378-383).  Nodes relabelled since it began, and
\* nodes where a Job of a rollout given up on was still under way, are not
\* spoken of.
DeployedMeansProvisioned ==
  helm = "deployed" =>
    \A n \in eligible \ (moved \cup crossed) :
      IF release.sweeps /\ Overtaken(n) THEN Bare(n) ELSE Provisioned(n)

\* No node is provisioned twice by one rollout, once for the fleet's mode and
\* once for its own, unless it was relabelled meanwhile.
SteadyNodeRunsOnce == todo \cap served \subseteq moved

\* After an uninstall that Helm calls done, boot configuration and labels are
\* left only on nodes that carried no label because the last Job on them failed
\* or ended unseen, and on nodes where a Job of a rollout given up on was still
\* under way as the cleanup listed its nodes (cleanup-dispatcher-job.yaml:75).
UninstallLeavesOnlyStrays ==
  helm = "gone" => /\ \A n \in Node \ crossed : label[n] = "none"
                   /\ conf \subseteq strays \cup crossed

\* A rollout, and an uninstall, ends.
RolloutEnds == Busy ~> ~Busy

\* ARCHITECTURE.md says a node reaches the mode or is excluded, NOTES.txt that
\* a node is provisioned when it carries the label: a label names the mode the
\* node's devices report.
LabelIsTrue == \A n \in Node : label[n] \in {"none", shows[n]}

\* "Uninstall has to reach every node the install ever touched" (_helpers.tpl:284)
\* and removes the boot configuration there.
UninstallReachesAll == helm = "gone" => conf = {}

-----------------------------------------------------------------------------
(* The inductive invariant of the three safety properties.                 *)

\* What may be on when; a run has the nodes whose turn it is, comes after those
\* before it in the order of the hooks, and its failure is told once.
RunsInTurn ==
  /\ ~Busy => queue = {} /\ dispatch = "none"
  /\ Busy => dispatch # "none" \/ queue # {}
  /\ dispatch = "none" => /\ todo \cup leavers \cup applying \cup removing = {}
                          /\ failed = "no"
  /\ dispatch \notin queue
  /\ helm = "upgrading" =>
       /\ queue \subseteq RunsOf(release)
       /\ dispatch \in RunsOf(release) \cup {"none"}
       /\ \A r \in RunsOf(release) \ queue, q \in queue : HookOrder[r] < HookOrder[q]
       /\ dispatch # "none" =>
            \A r \in RunsOf(release) \ queue : HookOrder[r] =< HookOrder[dispatch]
  /\ helm = "uninstalling" => /\ queue \subseteq {"cleanup"}
                              /\ dispatch \in {"cleanup", "none"}
                              /\ todo \cup applying = {}
  /\ helm = "upgrading" =>
       \A n \in (todo \cup applying) \ moved : n \in eligible /\ dispatch = Turn(n)

\* What a node whose run is behind it has come to.
Behind(n) ==
  /\ n \in served
  /\ IF release.sweeps /\ Overtaken(n)
     THEN n \in leavers \cup removing \/ Bare(n)
     ELSE Provisioned(n) /\ n \in owner /\ n \notin leavers \cup removing

\* Every selected node is ahead of the rollout, in it, or behind it.
EveryNodeHasItsTurn ==
  helm = "upgrading" /\ failed = "no" =>
    \A n \in eligible \ (moved \cup crossed) :
      Turn(n) \in queue \/ n \in todo \cup applying \/ Behind(n)

\* A node that a run has come to is not come to again, and carries its marker.
TurnsAreOver ==
  /\ \A n \in served \ moved : Turn(n) \notin queue /\ n \notin todo
  /\ \A n \in applying \ crossed : n \in served /\ n \in owner

\* What is loose is loose since before the run, and goes unnoticed only on nodes
\* the run has not come to.
LooseIsKnown ==
  /\ helm \in {"upgrading", "deployed"} => served \cap LooseNodes \subseteq crossed
  /\ helm = "gone" \/ (helm = "uninstalling" /\ "cleanup" \notin queue)
       => LooseNodes \subseteq crossed

\* Boot files are on labelled nodes or on strays; a cleanup has what is
\* labelled ahead.
LabelsLeadToConf ==
  /\ \A n \in conf : label[n] # "none" \/ n \in strays
  /\ helm = "uninstalling" =>
       \/ "cleanup" \in queue
       \/ failed # "no"
       \/ \A n \in Node \ crossed : label[n] # "none" => n \in leavers \cup removing

RolloutInvariant ==
  /\ RolloutTypeOK /\ RunsInTurn /\ LabelsLeadToConf /\ LooseIsKnown
  /\ helm = "gone" => \A n \in Node \ crossed : label[n] = "none"
  /\ TurnsAreOver /\ EveryNodeHasItsTurn
  /\ helm = "deployed" => \A n \in eligible \ (moved \cup crossed) : n \in served
  /\ DeployedMeansProvisioned

=============================================================================
