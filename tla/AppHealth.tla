------------------------------- MODULE AppHealth -------------------------------
(***************************************************************************)
(* Whether an app is installed and healthy: a check asks Kubernetes and    *)
(* Helm one thing after the other, while Helm installs, upgrades and       *)
(* removes the app and its pods come and go.  Checks write nothing, so one *)
(* at a time is enough.                                                    *)
(***************************************************************************)
EXTENDS Naturals

CONSTANTS
  Deployments,   \* workloads the chart can have
  DaemonSets,
  Targets,       \* what is looked at: a workload, or "namespace" for all
  NoWorkload,    \* no such workload
  MaxEvents      \* bound: what happens in the cluster

WorkloadsAssumption ==
  /\ Deployments \cap DaemonSets = {} /\ "namespace" \in Targets
  /\ Targets \subseteq Deployments \cup DaemonSets \cup {"namespace"}

VARIABLES
  namespace,   \* whether the app's namespace is there
  release,     \* the status of Helm's release, "none" without one
  workloads,   \* of each workload: pods wanted and pods up, or NoWorkload
  events,      \* cluster events so far
  check,       \* the check under way, or the last one's answer
  unsettled,   \* ghost: since it began the release was there and not deployed
  down,        \* ghost: workloads there and lacking pods since it began
  held         \* ghost: since it began the namespace was there

healthVars == <<namespace, release, workloads, events, check, unsettled, down, held>>
cluster == <<namespace, release, workloads, events>>
ghosts == <<unsettled, down, held>>

Workloads == Deployments \cup DaemonSets
Statuses == {"none", "pending", "deployed", "failed"}
Sizes == {[desired |-> d, up |-> u] : d \in 0..1, u \in 0..1}
Present(w) == workloads[w] # NoWorkload

\* is_deployed, or no release to judge by.
Deployed(status) == status \in {"none", "deployed"}

\* One workload is ready when all its pods are up, and there are some.
WorkloadReady(size) == size.up >= size.desired /\ size.desired > 0

\* In a namespace a Deployment that is scaled to nothing counts, too; a DaemonSet without
\* pods is one nobody has scheduled yet.
HealthyIn(w, size) == IF w \in Deployments THEN size.up >= size.desired ELSE WorkloadReady(size)

\* A workload has fewer pods up than it wants, a DaemonSet none.
Lacking(w, size) == size.up < size.desired \/ (w \in DaemonSets /\ size.up = 0)

-----------------------------------------------------------------------------

At(step) == check.step = step
Answer(status) == check' = [check EXCEPT !.step = "answered", !.status = status]
Fails == check' = [check EXCEPT !.step = "answered", !.status = "error", !.failed = TRUE]

Observe ==
  /\ unsettled' = ~Deployed(release) /\ held' = namespace
  /\ down' = {w \in Workloads : Present(w) /\ Lacking(w, workloads[w])}

\* A caller asks for the health of an app, or for what state it is in: that looks whether the
\* app is there at all, with a check of its own, before the one that counts.
Begin ==
  /\ At("answered")
  /\ \E target \in Targets, two \in BOOLEAN :
       check' = [step |-> "namespace", target |-> target, again |-> two, failed |-> FALSE,
                 status |-> "none", metadata |-> "none", ready |-> TRUE, any |-> FALSE]
  /\ Observe
  /\ UNCHANGED cluster

\* check_app_deployed: anything but an error or "not_found" is an app that is there.
GetAppStatus ==
  /\ At("answered") /\ check.again
  /\ check' = IF check.status \in {"error", "not_found"}
              THEN [check EXCEPT !.again = FALSE, !.status = "idle"]
              ELSE [check EXCEPT !.step = "namespace", !.again = FALSE, !.status = "none"]
  /\ IF check.status \in {"error", "not_found"} THEN UNCHANGED ghosts ELSE Observe
  /\ UNCHANGED cluster

\* Any error is an absent namespace.
CheckNamespaceExists(step, next) ==
  /\ At(step)
  /\ \/ namespace /\ check' = [check EXCEPT !.step = next]
     \/ \E failed \in BOOLEAN :
          /\ failed \/ ~namespace
          /\ check' = [check EXCEPT !.step = "answered", !.status = "not_found", !.failed = failed]
  /\ UNCHANGED <<cluster, ghosts>>

\* helm get metadata: the release's status, none without a release, or an error.
ReleaseMetadata ==
  /\ At("metadata")
  /\ \/ check' = [check EXCEPT !.metadata = release,
                               !.step = IF check.target = "namespace" THEN "again" ELSE "workload"]
     \/ Fails
  /\ UNCHANGED <<cluster, ghosts>>

WorkloadHealth(ready) == IF ready THEN "healthy" ELSE "unhealthy"

\* Mutant of WithReleaseStatus: workloads that are ready are enough.
WorkloadsAlone(status) == status

\* A release that is not deployed is unhealthy, whatever its workloads are.
WithReleaseStatus(status) == IF Deployed(check.metadata) THEN status ELSE "unhealthy"

\* check_deployment_ready, check_daemonset_ready, check_cnpg_cluster_ready: a workload that
\* is not there is an error.
CheckWorkload ==
  /\ At("workload")
  /\ \/ /\ Present(check.target)
        /\ Answer(WithReleaseStatus(WorkloadHealth(WorkloadReady(workloads[check.target]))))
     \/ Fails
  /\ UNCHANGED <<cluster, ghosts>>

\* check_namespace_health: one list, then the other.
ListWorkloads(step, listed, next) ==
  /\ At(step)
  /\ \/ check' = [check EXCEPT !.step = next,
                    !.any = @ \/ \E w \in listed : Present(w),
                    !.ready = @ /\ \A w \in listed : Present(w) => HealthyIn(w, workloads[w])]
     \/ Fails
  /\ UNCHANGED <<cluster, ghosts>>

CheckNamespaceHealth ==
  /\ At("listed")
  /\ Answer(WithReleaseStatus(
       IF check.any THEN WorkloadHealth(check.ready) ELSE "no_workloads"))
  /\ UNCHANGED <<cluster, ghosts>>

-----------------------------------------------------------------------------

Happens == events < MaxEvents /\ events' = events + 1

Since ==
  /\ unsettled' = (unsettled /\ ~Deployed(release'))
  /\ down' = {w \in down : IF workloads'[w] = NoWorkload THEN FALSE ELSE Lacking(w, workloads'[w])}
  /\ held' = (held /\ namespace')
  /\ UNCHANGED check

\* Helm begins, ends, fails or removes a release.
ChangeRelease ==
  /\ Happens
  /\ \/ release # "pending" /\ namespace /\ release' = "pending"
     \/ release = "pending" /\ release' \in {"deployed", "failed", "none"}
  /\ UNCHANGED <<namespace, workloads>>
  /\ Since

\* A workload is created, removed or scaled, or a pod of it comes up or goes.
ChangeWorkload ==
  /\ Happens /\ namespace
  /\ \E w \in Workloads, size \in Sizes \cup {NoWorkload} :
       size # workloads[w] /\ workloads' = [workloads EXCEPT ![w] = size]
  /\ UNCHANGED <<namespace, release>>
  /\ Since

\* What is in a namespace goes with it.
ChangeNamespace ==
  /\ Happens
  /\ namespace' = ~namespace
  /\ IF namespace THEN workloads' = [w \in Workloads |-> NoWorkload] /\ release' = "none"
     ELSE UNCHANGED <<workloads, release>>
  /\ Since

Init ==
  /\ namespace \in BOOLEAN
  /\ release \in IF namespace THEN {"none", "deployed", "failed"} ELSE {"none"}
  /\ workloads \in [Workloads -> IF namespace THEN Sizes \cup {NoWorkload} ELSE {NoWorkload}]
  /\ events = 0
  /\ check = [step |-> "answered", target |-> "namespace", again |-> FALSE, failed |-> TRUE,
              status |-> "none", metadata |-> "none", ready |-> TRUE, any |-> FALSE]
  /\ unsettled = FALSE /\ down = {} /\ held = FALSE

Next ==
  \/ Begin \/ GetAppStatus
  \/ CheckNamespaceExists("namespace", "metadata") \/ ReleaseMetadata
  \/ CheckWorkload \/ CheckNamespaceExists("again", "deployments")
  \/ ListWorkloads("deployments", Deployments, "daemonsets")
  \/ ListWorkloads("daemonsets", DaemonSets, "listed") \/ CheckNamespaceHealth
  \/ ChangeRelease \/ ChangeWorkload \/ ChangeNamespace

Spec == Init /\ [][Next]_healthVars

-----------------------------------------------------------------------------

Answers == {"none", "error", "not_found", "no_workloads", "unhealthy", "healthy", "idle"}

TypeOK ==
  /\ namespace \in BOOLEAN /\ release \in Statuses
  /\ workloads \in [Workloads -> Sizes \cup {NoWorkload}]
  /\ events \in 0..MaxEvents
  /\ check.target \in Targets /\ check.status \in Answers /\ check.metadata \in Statuses
  /\ unsettled \in BOOLEAN /\ held \in BOOLEAN /\ down \subseteq Workloads

Judged == IF check.target = "namespace" THEN Workloads ELSE {check.target}

\* What is called healthy is no release that was never deployed while the check ran, and has
\* no workload that lacked pods all the time; what is called absent or idle was gone at some
\* time in the check, unless a call failed.
HealthIsHonest ==
  At("answered") =>
    /\ check.status = "healthy" => ~unsettled /\ down \cap Judged = {}
    /\ check.status \in {"not_found", "idle"} => ~held \/ check.failed

Listing == {"again", "deployments", "daemonsets", "listed"}
Steps == {"answered", "namespace", "metadata", "workload"} \cup Listing
Checks ==
  [step : Steps, target : Targets, again : BOOLEAN, failed : BOOLEAN, status : Answers,
   metadata : Statuses, ready : BOOLEAN, any : BOOLEAN]

\* What was read agrees with what has been true since the check began.
HealthInv ==
  /\ workloads \in [Workloads -> Sizes \cup {NoWorkload}]
  /\ release \in Statuses /\ check \in Checks
  /\ unsettled => ~Deployed(release)
  /\ \A w \in down : w \in Workloads /\ Present(w) /\ Lacking(w, workloads[w])
  /\ held => namespace
  /\ ~At("answered") => check.status = "none"
  /\ check.status = "error" => check.failed
  /\ At("workload") => check.target # "namespace"
  /\ check.step \in Listing => check.target = "namespace"
  /\ check.step \in Listing \cup {"workload"} /\ unsettled => ~Deployed(check.metadata)
  /\ check.step \in {"daemonsets", "listed"} /\ check.ready => down \cap Deployments = {}
  /\ At("listed") /\ check.ready => down \cap DaemonSets = {}
  /\ HealthIsHonest
================================================================================
