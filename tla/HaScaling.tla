----------------------------- MODULE HaScaling ------------------------------
(***************************************************************************)
(* The HA loop of the active worker: it lists the nodes, releases database *)
(* instances whose node was deleted, and sizes the HA releases, and the    *)
(* setting that remembers their size, by the nodes that can be used.       *)
(*                                                                         *)
(* Durations are only compared with READY_DEBOUNCE and WITHHELD_GRACE, so  *)
(* the model keeps whether they have passed. A node is healthy or not: the *)
(* taints Kubernetes adds to an unhealthy one come and go with that.       *)
(***************************************************************************)
EXTENDS Naturals, FiniteSets, FiniteSetsExt

CONSTANTS
  Nodes,
  Releases,    \* HA_RELEASES
  OwnRelease,  \* the worker's own
  Instances,   \* instances of the database cluster, each with a claim
  NoNode,      \* the claim is not bound, or does not exist
  MaxChanges,  \* bound: nodes and releases that come, go or change
  MaxFaults    \* bound: failed calls, workers that are replaced

NodesAssumption == IsFiniteSet(Nodes)
InstancesAssumption == Instances # {}
OwnReleaseAssumption == OwnRelease \in Releases
NoNodeAssumption == NoNode \notin Nodes
BoundsAssumption == MaxChanges \in Nat /\ MaxFaults \in Nat

VARIABLES
  \* the cluster
  node,     \* the nodes: there, being deleted or not; Ready since when; withheld
  rel,      \* the releases: deployed, failed (or pending), or absent; kubarr.ha.nodeCount
            \* of their last deployed revision, whose values an upgrade reuses
  claim,    \* the claims: the node of the volume, and whether it holds the data
  \* the database
  applied,  \* ha_node_count
  \* the worker
  since,    \* WithheldTracker: not in it, in it, in it for WITHHELD_GRACE
  pc,       \* where reconcile_ha is
  list,     \* the nodes it listed
  lost,     \* the claims it has still to delete
  desired,  \* the size it decided on
  todo,     \* the releases it has still to rescale
  failed,   \* one of them failed
  \* history and bounds
  lossy,    \* a node was lost since the list was taken
  firm,     \* releases sized by a list since which no node was lost
  settled,  \* so is the setting
  changes, faults

outside == <<node, rel, claim>>
worker == <<since, pc, list, lost, desired, todo, failed>>
history == <<lossy, firm, settled>>
vars == <<outside, applied, worker, history, changes, faults>>

NoRecord == [phase |-> "absent", ready |-> "no", held |-> FALSE]
NodeRecords == [phase : {"absent", "present", "deleting"}, ready : {"no", "new", "long"},
                held : BOOLEAN]
NotInstalled == [status |-> "absent", count |-> 0]
NoList == [n \in Nodes |-> NoRecord]

Change == changes < MaxChanges /\ changes' = changes + 1
Fault == faults < MaxFaults /\ faults' = faults + 1

\* Some nodes in use, releases sized for them, and full copies of the database.
Init ==
  \E used \in SUBSET Nodes :
    /\ used # {}
    /\ node = [n \in Nodes |-> IF n \in used
                               THEN [phase |-> "present", ready |-> "long", held |-> FALSE]
                               ELSE NoRecord]
    /\ applied = Cardinality(used)
    /\ rel = [r \in Releases |-> [status |-> "deployed", count |-> applied]]
    /\ claim \in [Instances -> [on : used, full : {TRUE}]]
    /\ \A i, j \in Instances : claim[i].on = claim[j].on => i = j
    /\ since = [n \in Nodes |-> "no"]
    /\ pc = "idle"
    /\ list = NoList
    /\ lost = {}
    /\ desired = 1
    /\ todo = {}
    /\ failed = FALSE
    /\ lossy = FALSE
    /\ firm = Releases
    /\ settled = TRUE
    /\ changes = 0
    /\ faults = 0

-----------------------------------------------------------------------------
(* Counting nodes.                                                         *)

\* Ready for READY_DEBOUNCE, and neither withheld nor being deleted.
Schedulable(l) == {n \in Nodes : l[n].phase = "present" /\ l[n].ready = "long" /\ ~l[n].held}

\* Mutant of Retained: a node that is not Ready is not in the pool.
RetainedIfReady(l, removed) ==
  {n \in Nodes : l[n].phase = "present" /\ l[n].ready # "no" /\ ~(l[n].held /\ n \in removed)}

\* Whatever their health, unless withheld and in removed.
Retained(l, removed) == {n \in Nodes : l[n].phase = "present" /\ ~(l[n].held /\ n \in removed)}

Held(l) == {n \in Nodes : l[n].phase # "absent" /\ l[n].held}

\* WithheldTracker::observe: enter the withheld nodes, forget the others.
Tracked(l) ==
  [n \in Nodes |-> IF n \notin Held(l) THEN "no" ELSE IF since[n] = "no" THEN "new" ELSE since[n]]

\* Mutant of DesiredNodeCount: no node, no replica.
DesiredAsCounted(size, schedulable, retained) ==
  IF schedulable > size THEN schedulable ELSE IF retained < size THEN retained ELSE size

\* desired_node_count
DesiredNodeCount(size, schedulable, retained) ==
  Max({1, IF schedulable > size THEN schedulable ELSE IF retained < size THEN retained ELSE size})

-----------------------------------------------------------------------------
(* A pass of reconcile_ha.                                                 *)

ListNodes ==
  /\ pc = "idle"
  /\ pc' = "claims"
  /\ list' = node
  /\ lossy' = FALSE
  /\ UNCHANGED <<outside, applied, since, lost, desired, todo, failed, firm, settled, changes, faults>>

Bound == {i \in Instances : claim[i].on # NoNode}

\* Mutant of LostInstances: it does not matter whether one survives.
LostWithoutSurvivor(l) == {i \in Bound : l[claim[i].on].phase = "absent"}

\* lost_database_instances: those on nodes that are not listed, if another survives
\* and a node is listed at all.
LostInstances(l) ==
  LET gone == {i \in Bound : l[claim[i].on].phase = "absent"}
  IN IF gone = Bound \/ l = NoList THEN {} ELSE gone

ListClaims ==
  /\ pc = "claims"
  /\ pc' = "release"
  /\ lost' = LostInstances(list)
  /\ UNCHANGED <<outside, applied, since, list, desired, todo, failed, history, changes, faults>>

\* Mutant of ReleaseInstance: only the pod is deleted.
ReleasePodOnly(i) ==
  /\ pc = "release" /\ i \in lost
  /\ lost' = lost \ {i}
  /\ UNCHANGED <<outside, applied, since, pc, list, desired, todo, failed, history, changes, faults>>

\* Delete the pods of an instance and its claim; an absent one is no error.
ReleaseInstance(i) ==
  /\ pc = "release" /\ i \in lost
  /\ lost' = lost \ {i}
  /\ claim' = [claim EXCEPT ![i] = [on |-> NoNode, full |-> FALSE]]
  /\ UNCHANGED <<node, rel, applied, since, pc, list, desired, todo, failed, history, changes, faults>>

\* A failed call ends the release of instances, and only that.
ReleaseFails ==
  /\ pc \in {"claims", "release"}
  /\ Fault
  /\ pc' = "release"
  /\ lost' = {}
  /\ UNCHANGED <<outside, applied, since, list, desired, todo, failed, history, changes>>

\* Record the nodes in the tracker.
Observe ==
  /\ pc = "release" /\ lost = {}
  /\ since' = Tracked(list)
  /\ list' = NoList

\* ... count them, and decide on a size.
Count ==
  /\ Observe
  /\ LET removed == {n \in Nodes : since'[n] = "long"}
     IN desired' = DesiredNodeCount(applied, Cardinality(Schedulable(list)),
                                    Cardinality(Retained(list, removed)))
  /\ todo' = Releases
  /\ failed' = FALSE
  /\ pc' = "rescale"
  /\ UNCHANGED <<outside, applied, lost, history, changes, faults>>

\* The worker's own release goes last.
Due(r) == pc = "rescale" /\ r \in todo /\ (r = OwnRelease => todo = {r})

Resized(r) ==
  /\ rel' = [rel EXCEPT ![r].count = desired]
  /\ firm' = IF lossy THEN firm ELSE firm \cup {r}

\* Mutant of RescaleRelease: what is installed is taken to have the size remembered.
RescaleIfChanged(r) ==
  /\ Due(r)
  /\ IF rel[r].status = "deployed" /\ desired # applied THEN Resized(r) ELSE UNCHANGED <<rel, firm>>
  /\ todo' = todo \ {r}
  /\ UNCHANGED <<node, claim, applied, since, pc, list, lost, desired, failed, lossy, settled,
                 changes, faults>>

\* rescale_release: only a deployed release counts as installed, and is upgraded if it
\* has another size.
RescaleRelease(r) ==
  /\ Due(r)
  /\ IF rel[r].status = "deployed" THEN Resized(r) ELSE UNCHANGED <<rel, firm>>
  /\ todo' = todo \ {r}
  /\ UNCHANGED <<node, claim, applied, since, pc, list, lost, desired, failed, lossy, settled,
                 changes, faults>>

\* An upgrade that is not seen to succeed: without effect, left behind, or done.
Interrupted(r) ==
  \/ UNCHANGED rel
  \/ rel[r].count # desired /\ rel' = [rel EXCEPT ![r].status = "failed"]
  \/ rel[r].count # desired /\ rel' = [rel EXCEPT ![r].count = desired]

\* Its metadata cannot be read, which counts as not installed; or Helm fails.
RescaleFails(r) ==
  /\ Due(r) /\ rel[r].status = "deployed"
  /\ Fault
  /\ \/ UNCHANGED <<rel, failed>>
     \/ failed' = TRUE /\ Interrupted(r)
  /\ todo' = todo \ {r}
  /\ UNCHANGED <<node, claim, applied, since, pc, list, lost, desired, history, changes>>

\* Remember the size if no release failed.
Finish ==
  /\ pc = "rescale" /\ todo = {}
  /\ pc' = "idle"
  /\ applied' = IF failed THEN applied ELSE desired
  /\ settled' = (settled \/ ~(failed \/ lossy))
  /\ desired' = 1
  /\ failed' = FALSE
  /\ UNCHANGED <<outside, since, list, lost, todo, lossy, firm, changes, faults>>

\* The setting cannot be read, or not be written: the pass ends.
SettingFails ==
  /\ Fault
  /\ pc' = "idle"
  /\ \/ Observe /\ UNCHANGED <<desired, failed>>
     \/ /\ pc = "rescale" /\ todo = {}
        /\ desired' = 1
        /\ failed' = FALSE
        /\ UNCHANGED <<since, list>>
  /\ UNCHANGED <<outside, applied, lost, todo, history, changes>>

\* The worker is shut down or dies, perhaps within an upgrade, and another begins with
\* an empty tracker.
ReplaceWorker ==
  /\ Fault
  /\ \/ UNCHANGED rel
     \/ \E r \in Releases : Due(r) /\ rel[r].status = "deployed" /\ Interrupted(r)
  /\ pc' = "idle"
  /\ since' = [n \in Nodes |-> "no"]
  /\ list' = NoList
  /\ lost' = {}
  /\ desired' = 1
  /\ todo' = {}
  /\ failed' = FALSE
  /\ UNCHANGED <<node, claim, applied, history, changes>>

-----------------------------------------------------------------------------
(* Nodes, time, queued operations, and CloudNativePG.                      *)

\* What was sized before may be too large now.
Lose ==
  /\ lossy' = TRUE
  /\ firm' = {}
  /\ settled' = FALSE

SetNode(n, record) ==
  /\ node' = [node EXCEPT ![n] = record]
  /\ UNCHANGED <<rel, claim, applied, worker, faults>>

Join(n) ==
  /\ Change
  /\ node[n].phase = "absent"
  /\ SetNode(n, [phase |-> "present", ready |-> "new", held |-> FALSE])
  /\ UNCHANGED history

\* A node is deleted, at once or when its finalizers are done.
Leave(n) ==
  /\ Change
  /\ node[n].phase = "present"
  /\ SetNode(n, NoRecord) \/ SetNode(n, [node[n] EXCEPT !.phase = "deleting"])
  /\ Lose

Vanish(n) ==
  /\ node[n].phase = "deleting"
  /\ SetNode(n, NoRecord)
  /\ UNCHANGED <<history, changes>>

ChangeHealth(n) ==
  /\ Change
  /\ node[n].phase = "present"
  /\ SetNode(n, [node[n] EXCEPT !.ready = IF @ = "no" THEN "new" ELSE "no"])
  /\ UNCHANGED history

\* Cordon or taint a node, or undo it.
Withhold(n) ==
  /\ Change
  /\ node[n].phase = "present"
  /\ SetNode(n, [node[n] EXCEPT !.held = ~@])
  /\ UNCHANGED history

\* READY_DEBOUNCE passes.
Debounce(n) ==
  /\ node[n].ready = "new"
  /\ SetNode(n, [node[n] EXCEPT !.ready = "long"])
  /\ UNCHANGED <<history, changes>>

\* WITHHELD_GRACE passes after a node was entered in the tracker: it is given up.
Grace(n) ==
  /\ since[n] = "new"
  /\ since' = [since EXCEPT ![n] = "long"]
  /\ Lose
  /\ UNCHANGED <<outside, applied, pc, list, lost, desired, todo, failed, changes, faults>>

\* An operation installs, updates or deletes a release; an install knows no size.
Operate(r) ==
  /\ Change
  /\ \/ rel[r].status = "absent" /\ rel' = [rel EXCEPT ![r] = [status |-> "deployed", count |-> 1]]
     \/ rel[r].status = "failed" /\ rel' = [rel EXCEPT ![r].status = "deployed"]
     \/ rel[r].status = "deployed" /\ r # OwnRelease /\ rel' = [rel EXCEPT ![r] = NotInstalled]
  /\ UNCHANGED <<node, claim, applied, worker, history, faults>>

Usable(n) == n \in Nodes /\ node[n].phase = "present" /\ node[n].ready # "no"

\* An instance that has the data and runs.
Source == \E i \in Instances : claim[i].full /\ Usable(claim[i].on)

\* CloudNativePG creates a missing instance on a node that has none. Its claim is bound
\* before it holds the data.
Recreate(i, n) ==
  /\ claim[i].on = NoNode /\ Source /\ Usable(n) /\ ~node[n].held
  /\ \A j \in Instances : claim[j].on # n
  /\ claim' = [claim EXCEPT ![i] = [on |-> n, full |-> FALSE]]
  /\ UNCHANGED <<node, rel, applied, worker, history, changes, faults>>

Clone(i) ==
  /\ claim[i].on # NoNode /\ ~claim[i].full /\ Source /\ Usable(claim[i].on)
  /\ claim' = [claim EXCEPT ![i].full = TRUE]
  /\ UNCHANGED <<node, rel, applied, worker, history, changes, faults>>

-----------------------------------------------------------------------------

Pass ==
  \/ ListNodes \/ ListClaims \/ Count \/ Finish
  \/ \E i \in Instances : ReleaseInstance(i)
  \/ \E r \in Releases : RescaleRelease(r)

Fail == ReleaseFails \/ SettingFails \/ ReplaceWorker \/ \E r \in Releases : RescaleFails(r)

Environment ==
  \/ \E n \in Nodes :
       \/ Join(n) \/ Leave(n) \/ Vanish(n) \/ ChangeHealth(n) \/ Withhold(n)
       \/ Debounce(n) \/ Grace(n)
       \/ \E i \in Instances : Recreate(i, n)
  \/ \E i \in Instances : Clone(i)
  \/ \E r \in Releases : Operate(r)

Next == Pass \/ Fail \/ Environment

Spec == Init /\ [][Next]_vars

\* The loop runs on a timer, and each of its calls has a deadline.
FairSpec == Spec /\ WF_vars(Pass)

-----------------------------------------------------------------------------
(* Correctness.                                                            *)

Sizes == 1..Cardinality(Nodes)

\* Types of the variables.
TypeOK ==
  /\ node \in [Nodes -> NodeRecords]
  /\ rel \in [Releases -> [status : {"deployed", "failed"}, count : Sizes] \cup {NotInstalled}]
  /\ claim \in [Instances -> [on : Nodes \cup {NoNode}, full : BOOLEAN]]
  /\ applied \in Sizes
  /\ since \in [Nodes -> {"no", "new", "long"}]
  /\ pc \in {"idle", "claims", "release", "rescale"}
  /\ list \in [Nodes -> NodeRecords]
  /\ lost \subseteq Instances
  /\ desired \in Sizes
  /\ todo \subseteq Releases
  /\ failed \in BOOLEAN
  /\ lossy \in BOOLEAN /\ firm \subseteq Releases /\ settled \in BOOLEAN
  /\ changes \in Nat /\ faults \in Nat

\* The remembered size shrinks only if a node was deleted, or withheld for
\* WITHHELD_GRACE, since the list of nodes it was last agreed with ("never merely because
\* it went NotReady or is being drained for maintenance", ha.rs).
SizeShrinksOnlyForLoss == settled => applied' >= applied
SizeShrinksForLoss == [][SizeShrinksOnlyForLoss]_vars

\* So does the size of an installed release.
ReleasesShrinkForLoss ==
  [][\A r \in firm : rel'[r].status # "absent" => rel'[r].count >= rel[r].count]_vars

\* Once nodes and releases stay as they are, the remembered size is right for the nodes
\* and every deployed release has it.
SizesRight ==
  LET removed == {n \in Nodes : since[n] = "long"}
  IN /\ applied >= Cardinality(Schedulable(node))
     /\ applied <= Max({1, Cardinality(Retained(node, removed))})
     /\ \A r \in Releases : rel[r].status = "deployed" => rel[r].count = applied

\* The claims of instances whose node is gone are deleted, too: an instance "left alone"
\* there "stays Pending forever" (ha.rs).
Settled == SizesRight /\ LostInstances(node) = {}

PassesSettle == <>[]Settled

\* Some instance always keeps its claim.
InstanceKept == Bound # {}

\* The last claim that holds the data is never deleted: nothing is released when "there is
\* no replica to re-clone from and the claims hold the only copies of the data" (ha.rs).
CopyKept == \E i \in Instances : claim[i].full

\* Every step keeps it: of the instances that have a claim, one is not to be released.
SurvivorInv ==
  /\ claim \in [Instances -> [on : Nodes \cup {NoNode}, full : BOOLEAN]]
  /\ Bound \ lost # {}

\* The nodes a size may count on: neither deleted nor given up, and listed by the pass
\* that is about to count. They become fewer only by a loss.
Kept ==
  {n \in Nodes : /\ node[n].phase = "present" /\ since[n] # "long"
                 /\ pc \in {"claims", "release"} => list[n].phase = "present"}
Fits(size) == size <= 1 \/ size <= Cardinality(Kept)

\* Every step keeps it: what was listed is still there, and so are the nodes for the size
\* that was decided on, and for the one that is remembered, unless one was lost since.
SizeInv ==
  /\ node \in [Nodes -> NodeRecords] /\ list \in [Nodes -> NodeRecords]
  /\ since \in [Nodes -> {"no", "new", "long"}]
  /\ applied \in Nat /\ desired \in Nat
  /\ lossy => ~settled
  /\ pc \in {"claims", "release"} /\ ~lossy =>
       \A n \in Nodes : list[n].phase = "present" => node[n].phase = "present"
  /\ pc = "rescale" /\ ~lossy => Fits(desired)
  /\ settled => Fits(applied)
  /\ settled /\ pc = "rescale" => applied <= desired

HaInv == SurvivorInv /\ SizeInv
=============================================================================
