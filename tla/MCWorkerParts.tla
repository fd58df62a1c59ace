---------------------------- MODULE MCWorkerParts ----------------------------
(***************************************************************************)
(* The components of the worker that share no state, in one run: a         *)
(* behaviour is one of the component that is chosen first.  For the locks  *)
(* that is the name of the task that is watched.                           *)
(***************************************************************************)
EXTENDS Integers, Sequences, FiniteSets

CONSTANTS Namespaces, Pods, Unknown, MaxChanges, MaxBreaks, MaxFailures, MaxRestarts,
  Tasks, Reconciling, Nodes, Releases, OwnRelease, Instances, NoNode, MaxFaults, Helpers,
  Room, OutputLimit, MaxOutput

VARIABLES
  part,  \* the component
  v1, v2, v3, v4, v5, v6, v7, v8, v9, v10, v11, v12, v13, v14, v15, v16  \* its variables, in its order

Pod == INSTANCE PodWatch WITH cluster <- v1, connected <- v2, stream <- v3,
  observed <- v4, relisting <- v5, at <- v6, dirty <- v7, synced <- v8, healthy <- v9,
  row <- v10, beat <- v11, used <- v12, missed <- v13
Lock == INSTANCE WorkerLocks WITH ahead <- v1, line <- v2, reads <- v3, owner <- v4
Ha == INSTANCE HaScalingProofs WITH node <- v1, rel <- v2, claim <- v3, applied <- v4,
  since <- v5, pc <- v6, list <- v7, lost <- v8, desired <- v9, todo <- v10,
  failed <- v11, lossy <- v12, firm <- v13, settled <- v14, changes <- v15, faults <- v16
Helm == INSTANCE HelmProcess WITH step <- v1, status <- v2, verdict <- v3, alive <- v4,
  killed <- v5, unborn <- v6, exit <- v7, release <- v8, left <- v9, pipe <- v10,
  output <- v11, wrote <- v12, stop <- v13, late <- v14

\* The variables a component has no use for.
Off == "off"
Off16 == v16 = Off
Off15 == v15 = Off /\ Off16
Off14 == v14 = Off /\ Off15
Off5 == v5 = Off /\ v6 = Off /\ v7 = Off /\ v8 = Off /\ v9 = Off /\ v10 = Off
  /\ v11 = Off /\ v12 = Off /\ v13 = Off /\ Off14

Init ==
  \/ part = "pod" /\ Pod!Init /\ Off14
  \/ part \in Tasks /\ Lock!Init /\ Off5
  \/ part = "scaling" /\ Ha!Init
  \/ part = "helm" /\ Helm!Init /\ Off15

Next ==
  \/ part = "pod" /\ Pod!Next /\ UNCHANGED <<part, v14, v15, v16>>
  \/ part \in Tasks /\ Lock!Next /\ UNCHANGED <<part, v5, v6, v7, v8, v9, v10, v11, v12,
       v13, v14, v15, v16>>
  \/ part = "scaling" /\ Ha!Next /\ UNCHANGED part
  \/ part = "helm" /\ Helm!Next /\ UNCHANGED <<part, v15, v16>>

vars == <<part, v1, v2, v3, v4, v5, v6, v7, v8, v9, v10, v11, v12, v13, v14, v15, v16>>

Spec == Init /\ [][Next]_vars

\* What the components assume of their constants.
ASSUME PodUnknownAssumption == Pod!UnknownAssumption
ASSUME PodSizesAssumption == Pod!SizesAssumption
ASSUME PodBoundsAssumption == Pod!BoundsAssumption
ASSUME LockTasksAssumption == Lock!TasksAssumption
ASSUME HaNodesAssumption == Ha!NodesAssumption
ASSUME HaInstancesAssumption == Ha!InstancesAssumption
ASSUME HaOwnReleaseAssumption == Ha!OwnReleaseAssumption
ASSUME HaNoNodeAssumption == Ha!NoNodeAssumption
ASSUME HaBoundsAssumption == Ha!BoundsAssumption
ASSUME HelmHelmBoundsAssumption == Helm!HelmBoundsAssumption

\* The types of the variables of the chosen component.
TypeOK ==
  /\ part = "pod" => Pod!TypeOK
  /\ part \in Tasks => Lock!TypeOK
  /\ part = "scaling" => Ha!TypeOK
  /\ part = "helm" => Helm!TypeOK

\* The variables of each.
PodVars == <<v1, v2, v3, v4, v5, v6, v7, v8, v9, v10, v11, v12, v13>>
LockVars == <<v1, v2, v3, v4>>
HaVars == <<v1, v2, v3, v4, v5, v6, v7, v8, v9, v10, v11, v12, v13, v14, v15, v16>>
HelmVars == <<v1, v2, v3, v4, v5, v6, v7, v8, v9, v10, v11, v12, v13, v14>>
\* The fairness of each, for the chosen one.
FairSpec ==
  /\ Spec
  /\ WF_PodVars(part = "pod" /\ Pod!List)
  /\ WF_PodVars(/\ part = "pod"
                /\ Pod!Receive \/ Pod!Report \/ \E n \in Namespaces : Pod!StoreNamespace(n))
  /\ \A t \in Tasks : WF_LockVars(part \in Tasks /\ (Lock!Request(t) \/ Lock!Release(t)))
  /\ \A l \in Lock!Locks : WF_LockVars(part \in Tasks /\ Lock!Grant(l))
  /\ WF_HaVars(part = "scaling" /\ Ha!Pass)
  /\ WF_HelmVars(part = "helm" /\ Helm!Caller) /\ WF_HelmVars(part = "helm" /\ Helm!Deadline)
  /\ \A c \in Helm!Pipes : WF_HelmVars(part = "helm" /\ Helm!Drain(c))
  /\ \A p \in Helm!Processes : WF_HelmVars(part = "helm" /\ Helm!Die(p))

\* PodWatch: what a viewer is shown of the namespaces a watch knows matches the
\* cluster, once the watch has caught up, and no event is lost or applied twice.
WatchIsFaithful == part = "pod" => Pod!KnownAnswersMatch /\ Pod!NothingLost

\* HaScaling: a database instance is released only once its node is gone for good.
InstanceKept == part = "scaling" => Ha!InstanceKept

\* HelmProcess: a run leaves no process behind, and its answer is what Helm did.
HelmEndsClean == part = "helm" => Helm!HelmEndsClean

\* PodWatch: a watch that resyncs is vouched for again, unless it breaks once more.
\* WorkerLocks: whatever a task has begun it finishes.
\* HelmProcess: every run is answered, even if Helm hangs.
WorkFinishes ==
  \/ part = "pod" /\ Pod!ResyncPending
  \/ part \in Tasks /\ ~Lock!Finished(part)
  \/ part = "helm" /\ Helm!Asked
  ~> \/ part = "pod" /\ (Pod!Vouched \/ Pod!ErrorPending)
     \/ part \in Tasks /\ Lock!Finished(part)
     \/ part = "helm" /\ Helm!Answered

\* HaScaling: the remembered size shrinks only for nodes that were lost.
SizeShrinksForLoss == [][part = "scaling" => Ha!SizeShrinksOnlyForLoss]_vars

\* HaScaling: sizes become right for the nodes, and no instance is left waiting for one
\* that is gone.
PassesSettle == <>[](part = "scaling" => Ha!Settled)
=============================================================================
