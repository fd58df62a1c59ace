# Kubarr in TLA+

Kubarr installs and runs media applications on a Kubernetes cluster. One Rust program
(`src/code/api`) has two roles: an **API** of several replicas that answers the web
frontend, and a **worker** of which one replica is active. They share a PostgreSQL
database and the cluster; neither calls the other. What an administrator asks of the API
becomes a row, and a worker, perhaps another one than a minute ago, acts on the row. A
second program, the flow exporter (`src/code/worker`), counts traffic on every node. This
directory models the parts in which that can go wrong.

* `*.tla` without prefix or suffix: one module per component.
* `MC*.tla` and `*.cfg`: instances for TLC, e.g. `tlc -config LeaderLease.cfg MCLeaderLease`. Three
  configurations need no module of their own: `PodWatchReplaced.cfg`, `WorkerLocksReconcile.cfg`
  and `NetworkFeed.cfg` are of `PodWatch`, `WorkerLocks` and `NetworkMetrics`.
* `*Proofs.tla`, `*Refinement.tla`: theorems, e.g. `tlapm LeaderLeaseProofs.tla`.
* `PROJECT.json`: components, runs, the source lines of every definition (`map`), hazards,
  findings, mutants, theorems.

A definition commented `Mutant of X` is a plausible wrong version of `X`, kept next to it:
with `X` replaced by it, TLC finds a property violated. Nothing else refers to it.

## The system

Paths are below `src/code/api/src/` unless they begin with `src/`. "State" is what outlives
a call. Components meet through the database rows, the catalog and the cluster; the table
names what is hard about each and what makes it correct.

| Component | State | Operations | What is hard | What makes it correct |
|---|---|---|---|---|
| App operation queue (`services/app_manager.rs`) | `app_operations`, `app_states`, `audit_outbox`, `audit_logs` | enqueue, exclusive enqueue, retry, pause, resume, cancel; claim, heartbeat, stop watch, execute, three ways to finish, stale recovery, reconcile, audit delivery | READ COMMITTED transactions of clients and workers, two live workers, crashes while Helm runs, late stop requests, failed polls | executed at most once and ended once; a stored stop wins; the audited outcome is true; the state row follows the newest intent |
| Leader election (`services/leader.rs`) | a Kubernetes Lease; deadlines in memory | attempt, renew, give up, release | clocks without a common origin, lost answers, late writes | one leader; a live Lease is not stolen; a vacancy ends |
| Pod watch and pod cache (`services/pod_watch.rs`, `pod_cache.rs`) | two tables, the watched pods in memory | relist handshake, apply, store, heartbeat, invalidate, read | broken lists, replaced workers, failed writes, truncated tables | readers are given what the cluster holds, or ask the cluster |
| Worker runtime and locks (`application/runtime.rs`) | catalog RwLock, Helm mutex | the tasks that take them | fair queues: a read behind a waiting writer | every task gets through |
| Helm processes (`services/helm_process.rs`) | a process group, two pipes, two reader threads | spawn, poll, stop, deadline, kill, reap, join | full pipes, lingering helpers, an exit just before the deadline | answered in time, nothing left running, a success is one |
| HA rescaling (`services/ha.rs`) | remembered size, withheld nodes; claims, releases | count, release lost instances, rescale | lists of different ages, partial passes, new leaders | some instance keeps its volume; sizes shrink only for a lost node |
| Chart sync, catalog, versions (`services/chart_sync.rs`, `catalog.rs`, `chart_tracking.rs`) | directory of charts, catalog, versions in `app_states` | discover, pull, swap, reload; refresh versions | pulls that fail half way, other processes writing the row | Kubarr's own components stay listed; `update_available` agrees with the versions |
| Deployment (`services/deployment.rs`, `app_storage.rs`, `gpu.rs`, `install_options.rs`) | namespaces, Secrets, releases, saved choices | install, update, remove, choose GPU, mounts and config, report health | choices pinned at enqueue and used later, failures and retries in between, charts that change | what runs is what was chosen last; private data is never taken for new |
| VPN (`services/vpn.rs`) | providers, assignments, Secrets | create, test, assign, remove | assignments that change while Helm runs; requests that fail half way | a used Secret stays; a test leaves nothing |
| Shared storage browser (`endpoints/storage.rs`) | a volume apps write to | list, create, rename, write, delete | check and system call are apart | a file goes only by its own deletion |
| Storage configuration (`services/storage_config.rs`) | volumes, claims, an export | validate | validations that cross, a server that moves | fails only for a reason; cleans up |
| Domains (`endpoints/domains.rs`, `services/domain_reconciler.rs`) | domains, profiles, assignments | edit, assign, reconcile | no transactions, rows written from snapshots | edits survive a pass; a host is assigned once |
| Gateway (`endpoints/proxy.rs`, `application/state.rs`) | endpoint cache per replica | resolve host and path, authorize, invalidate | rows read one by one, stale caches | a request goes where its host and path are assigned |
| Sessions (`endpoints/auth.rs`, `middleware/auth.rs`) | sessions, tickets, recovery codes, cookies | login, 2FA, transfer, switch, revoke | tabs side by side, single-use rows used twice at once | a ticket opens one session; the trail accounts for sessions |
| Users, roles, OAuth (`endpoints/users.rs`, `roles.rs`, `oauth.rs`) | accounts, invites, roles, permissions, links, preferences | registration, administration, edits | rows read before the transaction that writes them | one account per invite; roles given together; neither of two edits undoes the other |
| Keys and settings (`services/security.rs`, `managed_key.rs`, `endpoints/settings.rs`) | key pair, managed keys, settings | load or create, edit | first creation by several backends | generated keys are ones others use too |
| Audit and scheduler (`services/audit.rs`, `scheduler.rs`) | audit log, expired rows | retention, clearing, delivery | two leaders' schedulers, a rollback after a DELETE | each deletion in one record |
| Notifications (`services/notification/`) | channels; providers per replica | update, refresh | loads that overlap changes | the next refresh misses nothing |
| Network metrics and map (`services/network_broadcaster.rs`, `cadvisor.rs`, `endpoints/networking.rs`, `services/flow_classes.rs`) | samples and windows in memory | sample, broadcast, poll, discover, classify | restarted counters, lists of different ages, slow sockets | what is shown was measured, and once |
| Flow exporter (`src/code/worker/src/bin/kubarr-flow-exporter.rs`) | counters | fold a dump, scrape | reused slots, restarts | no byte is counted twice |
| Kubernetes client, logs, metrics queries, migrations, dns-webhook, frontend | none of their own | | I/O | see "Not modelled" |

`PROJECT.json` lists these with their modelling status, and 40 hazards at their source lines.

## Modules

| Module | Models | Variables and actions correspond to |
|---|---|---|
| `OperationLifecycle` | what the queue promises of one operation, without workers, transactions or failures | abstract |
| `AppOperations` | the queue, its state rows, audit outbox, reconcile loop | below; refines `OperationLifecycle` (`LifecycleKept`) |
| `LeaderLease` | the Lease, replicas, the writes under way | below |
| `PodWatch` | pods, the watcher's stream, `PodWatchState`, the two tables | below |
| `WorkerLocks` | the guards the worker's tasks take and drop | below |
| `HaScaling` | nodes, HA releases, claims of database instances, a pass of `reconcile_ha` | below |
| `HelmProcess` | one `run_command_with_stop`: Helm, its helpers, pipes, readers, caller | `step` is where the caller is (`Spawn`, `TryWait`, `Decide`, `Kill`, `Reap`, `Join`); `Drain` is a reader thread, `output` its buffer up to `OutputLimit` |
| `AppDeployment` | one app's VPN, storage and chart choices between queueing and execution | `assigned`, `saved` are tables, `queue[i].pin` what an operation pinned; `Execute`'s steps follow `deploy_app_with_install` and `remove_app_with_stop` |
| `GpuChoice` | the GPU of an app from order to Helm values | `Check`, `ChooseValues`, `Helm` are `deploy_app_with_install` between its reads of the chart; `values` what `--reuse-values` keeps |
| `MountChoices` | mounts and private config of an install | `Validate` and `Materialized` are `install_options::validate` and `app_storage::materialize`; paths are sequences of segments |
| `AppHealth` | `check_app_health` and `get_app_status` against a cluster that changes | a step per call to Helm or Kubernetes |
| `SharedStorage` | the handlers of `storage.rs` and the apps on the volume | `Check...` is the look at the path, the action after it the system call |
| `StorageValidation` | validations of an export | a step per phase of the two Pods' scripts; `volumes` holds the address a volume was made with |
| `VpnTests` | a provider's test with its Secret and Pod | a step per Kubernetes call; each may fail or lose its answer |
| `ChartMirror` | discovery, pulls and reloads of one process | `mirror` and `staging` are its directories, `sync` the locals of `sync_and_refresh` |
| `StateVersions`, `VersionRows` | chart versions in a state row, written by every process | `Begin...` the read, then the conditional update; `Crash` drops the call |
| `Domains` | domains, their profiles, the reconciler | `filing` what a request read; `pass` the rows the reconciler works from |
| `AppRoutes` | assignments of hosts and paths to apps | `BeginAssign` is `validate_assignment`; `FindPrimary`/`ClearPrimary` the loop of `clear_primary_assignment` |
| `GatewayRoutes` | `resolve_gateway_route` against changes of the rows | `Match` takes one assignment and reads its domain; hosts are sequences of labels, paths of segments |
| `EndpointCache` | the cached service of an app in each replica | `left` is the rest of an entry's lifetime in ticks |
| `Sessions` | sign-in, cookies, sessions, transfer tickets | `jar` is the browser, `handling` the requests of its tabs with the cookies they were sent with |
| `TwoFactor` | 2FA and recovery codes of an account | `asked` is a request between its read and its transaction |
| `UserAccounts` | accounts, invites, OAuth links | `pending` is a handler between its checks and its transaction |
| `UserRoles` | roles of accounts, permissions of roles | `replacing` is a transaction between its DELETE and its INSERTs |
| `AccountEdits` | the columns of an account, its password and preferences | `doing` is what a handler read and which columns it sets |
| `SystemSettings` | JWT keys, a managed key, a setting | `starting` is a backend between its reads; `shared` the row of the managed key |
| `AuditTrail` | the log, its retention | `clearing` is an open transaction that has deleted |
| `Notifications` | channels and the providers of each replica | `posting` is a request; `fingerprint` what a replica loaded at |
| `NetworkMetrics` | sampling, rates, windows, broadcast, sockets | `reading` is `fetch_and_compute_metrics` between fetch and publication; `position` a receiver's place in the broadcast channel |
| `NetworkGraph` | the map of apps: references, endpoints, ingresses, policies, measured flows | a step per kind of list, for all namespaces at once (edges of different namespaces do not meet) |
| `FlowClasses` | the traffic panel | a step per group of queries; a query that fails has no rows |
| `FlowExporter` | conntrack table, dump, counters, scrape | `file` is the dump, `previous` the rows folded last |
| `AppOperationsProofs`, `LeaderLeaseProofs`, `HaScalingProofs` | theorems of one component | |
| `WorkerPartsProofs` | theorems of `MCWorkerParts` | `PodWatch`, `WorkerLocks`, `HaScaling`, `HelmProcess` |
| `AccessProofs` | theorems of `MCControlPlane`: who may do what | `Sessions`, `TwoFactor`, `UserAccounts`, `UserRoles`, `AppRoutes`, `Notifications` |
| `RecordsProofs` | what is stored, kept and tested | `AccountEdits`, `AuditTrail`, `SystemSettings`, `Domains`, `StateVersions`, `ChartMirror`, `VpnTests`, `StorageValidation` |
| `AppsProofs` | how apps are deployed and reached | `AppDeployment`, `MountChoices`, `GpuChoice`, `SharedStorage`, `GatewayRoutes`, `EndpointCache`, `AppHealth` |
| `TrafficProofs` | what is shown of traffic, and sums | `NetworkMetrics`, `FlowExporter`, `FlowClasses`, `NetworkGraph` |

A handler is split exactly where another actor can come between: at an await that reads or
writes the database or the cluster, at a system call, at a lock. A transaction at READ
COMMITTED is a step per statement that others can see between, and one step when they cannot.
Everything outside Kubarr (Kubernetes, Helm, the browser, DNS) is marked external in the map
and does what the code has to expect of it.

### AppOperations

A database transaction runs at READ COMMITTED, so it is split where another one can come
between: `Begin...` is what a handler reads and checks, `Commit...` the conditional update it
ends with, with everything that is written under that row's lock; `Rollback` is a conditional
update that matched no row, or a failed statement. A worker's loop (`pc`) goes

    idle -> recover -> claim -> start -> helm -> resolve -> failing | succeeding | stopping
         -> settle -> observe -> record -> deliver -> idle

which is `run_operation_loop_with`, `recover_stale_operations`, `claim_next_operation`,
`claim_operation`, `execute_operation` up to and after its first external call,
`process_next_operation`, `finish_operation_if_unstopped` / `finish_stopped`,
`upsert_state`, `reconcile_app`, `deliver_audit`. Beside it run the heartbeat, the stop
watcher, the outbox drain and the reconcile loop. `fresh` stands for `updated_at` compared
with `STALE_RUNNING_AFTER`: it ages when nobody executes the operation, and by a fault
(`Stall`) when somebody does. `tok` is the stop token with the reason it was cancelled for,
which the code does not keep and must not need. `runs` and `okRuns` are histories of what was done to the
cluster. `Loopers` limits the reconcile loop to some workers to keep runs small; no proof
depends on it.

Abstracted: validation of the stored request (`RejectOperation` can refuse any operation),
chart versions in the state row, text of messages, what Helm does beyond the namespace. A
namespace is absent, present or being deleted, and reconciling one that is present may see it
healthy or not. Two live workers are allowed here without asking the election: the queue has
to hold by its own conditional updates, as its comments claim.

### LeaderLease

Time is counted in ticks that all clocks share in rate and not in origin. `Tick` lets time
pass only when no timer is due, so an attempt or a give-up happens within its tick. The
resourceVersion is only compared with the current one, so `seen` keeps whether they agree. A
write that its caller gave up (deadline, crash, broken connection) stays in `stray` and can be
applied until another write changes the version.

### PodWatch

The stream holds the events kube's watcher has yet to yield; a change while connected appends
one. `List`, `PartialList`, `Break` are the watcher of kube-runtime as the code uses it, and
external. `ReplaceWorker` starts with empty memory over the rows of the old worker.

### WorkerLocks

Taken from `execute_operation`, `reconcile_app`, `upsert_state`, `reconcile_states`,
`reconcile_ha`'s per-release step, and the chart sync loop. A guard lives as long as the
borrow in the source does.

### HaScaling

A pass is `ListNodes`, `ListClaims` (claims, volumes and pods in one step), one
`ReleaseInstance` per lost instance, `Count` (the tracker, the setting, the size), one
`RescaleRelease` per release, its own last, and `Finish`. Each release is one step because
it is read and upgraded under the Helm lock. Kubernetes, queued operations and CloudNativePG
move in between; they are external. Durations are only compared with `READY_DEBOUNCE` and
`WITHHELD_GRACE`, so a node is Ready not, newly or long, and withheld not, newly or long. A
release that is neither deployed nor absent counts as failed. What a claim holds (`full`) is
not known to the code; it is in the model to say what a deletion costs. `lossy`, `firm` and
`settled` are history: they say whether a node was lost since a size was agreed, so that a
size which shrinks for another reason can be told apart.

### MCWorkerParts and MCControlPlane

Components that share no state are checked in one run: the variable `part` says which of them
a behaviour is of, `v1`, `v2`, ... are its variables in its own order, and the ones it has no
use for are `"off"`. State spaces add up and do not multiply, and no component sees another's
variables. A property of such a module is a conjunction of `part = ... => property of the
component`; in `PROJECT.json` one mutant of one component is declared for each, and every
other component's `Mutant of` definition violates the same property.

`MCControlPlane`'s symmetry permutes requests (`a1`, `a2`), interchangeable names (`b1`, `b2`),
and replicas, codes and the like (`k1`, `k2`) of whatever component is chosen; no component
compares or orders these values, none of its temporal formulas is a liveness property, and a
set that a component has of these values holds both of a kind, or is its only one and holds
one.

## Runs

| Run (`.cfg`) | Question | Properties | Distinct states |
|---|---|---|---|
| `operation_workers` (`AppOperationsWorkers`) | two workers alive at once over two operations, or one and its retry, with a stop request and one crash, stall or failed call | `NeverReplayed`, `OutcomeMatchesStatus`, `OutcomeIsHonest`, `LifecycleKept` | 1.4 million |
| `operation_requests` (`AppOperationsQueue`) | two clients whose transactions interleave with one worker: three operations, two controls or retries | `StopLeadsToCancel`, `RetriedOnce` | 2.9 million |
| `operation_progress` (`AppOperationsLive`) | installs and deletes with the reconcile loop and one failure, under fairness | `DesiredFollowsLastOperation`, `NewerIntentKept`, `OperationsEnd`, `AuditDelivered`, `ObservedConverges` | 0.23 million |
| `leader_election` (`LeaderLease`) | two replicas with two failures, under fairness | `OnlyHolderLeads`, `LiveLeaseNotStolen`, `VacancyEnds` | 1.1 million |
| `worker_parts` (`WorkerParts`) | pod watch, locks, HA rescaling and Helm processes, under fairness | below | 0.7 million |
| `control_plane` (`ControlPlane`) | 25 components behind the API | below | 1.7 million |
| `leader_slow_acquire` (`LeaderLeaseSlow`) | the election when an acquiring call may take as long as the Lease | `GivesUpBeforeTakeover`, violated | stops at its counterexample |
| `pod_cache_replaced` (`PodWatchReplaced`) | a new worker over old rows | `AnswersMatch`, violated | stops at its counterexample |
| `locks_reconcile` (`WorkerLocksReconcile`) | all tasks as they are | `NoCircularWait`, violated | stops at its counterexample |
| `ha_partial_rescale` (`HaScalingPartial`) | the size of each release | `ReleasesShrinkForLoss`, violated | stops at its counterexample |
| `ha_last_copy` (`HaScalingCloning`) | two nodes deleted while an instance clones | `CopyKept`, violated | stops at its counterexample |
| `network_feed` (`NetworkFeed`) | a page whose socket falls behind | `ConnectedIsFed`, violated | stops at its counterexample |

`worker_parts` and `control_plane` take three to four minutes each, as do the three runs of
the queue and the election; the others seconds.

What `worker_parts` shows:

| Property | Of |
|---|---|
| `WatchIsFaithful` | `PodWatch`: what the watch knows is what viewers are given, and nothing is lost between |
| `InstanceKept`, `SizeShrinksForLoss` | `HaScaling`: some instance keeps its claim; the remembered size shrinks only for a lost node |
| `HelmEndsClean` | `HelmProcess`: nothing runs on after the answer, the answer is what Helm exited with, a success has its work done, the output is there up to its limit, "indeterminate" is said only after a stop or the deadline |
| `WorkFinishes` (liveness) | `PodWatch`: a resync is vouched for; `WorkerLocks`: every task gets through; `HelmProcess`: every caller is answered |
| `PassesSettle` (liveness) | `HaScaling`: sizes settle and stranded instances are released |

What `control_plane` shows:

| Property | Of |
|---|---|
| `TicketOnce`, `TrailTellsSessions` | `Sessions`: a transfer ticket is handed to one request; a login's row is there until its end is on record or the scheduler removed it |
| `CodesFollowTwoFactor` | `TwoFactor`: recovery codes exist only with 2FA on, and are of the last time it was |
| `InviteAdmitsOne` | `UserAccounts`: one account per invite, the one the trail says |
| `RolesGivenTogether` | `UserRoles`: an account has what one request gave it, never a mix |
| `EditsSurvive` | `Domains`, `AccountEdits`: what was stored stays, whatever another request or the reconciler had read before |
| `GeneratedKeysFit` | `SystemSettings`: a key that was generated is the one stored, and others use it too |
| `RefreshMissesNothing` | `Notifications`: after a refresh a replica has every change that was stored before |
| `EveryDeletionRecorded` | `AuditTrail`: rows that are gone are counted by exactly one record |
| `ChoicesAreMet` | `AppDeployment`: a settled release uses the VPN that is assigned; `MountChoices`: mounts serve the app and do not cover each other; `GpuChoice`: the GPU is the one chosen last |
| `ProofIsEarned` | `AppDeployment`: data of before is never taken for freshly made |
| `NothingIsLost` (action property) | `SharedStorage`: a file goes only by its own deletion or by a race for its name; `MountChoices`: a saved choice only by another |
| `CatalogServes` | `ChartMirror`: Kubarr's components are always listed; what the last sync reported, and no pull has broken, is there in that version |
| `FlagFits` | `StateVersions`: "update available" is what the row's versions say |
| `TestsAreTidy` | `VpnTests`: a test leaves no Secret or Pod, and its Pod has what it needs; `StorageValidation`: a validation fails only for a reason, and leaves nothing |
| `TrafficIsReal` | `FlowExporter`: no byte twice, and classes and links agree; `NetworkMetrics`: rates are of traffic there was; `NetworkGraph`: edges have references or measurements behind them; `FlowClasses`: totals and series agree, stale means empty |
| `AssignmentsFit` | `AppRoutes`: a host once, one primary per app |
| `AppsAreReached` | `GatewayRoutes`: a request goes where its host and path are assigned, with the rest of its path; `EndpointCache`: to a service that was the app's within a lifetime; `AppHealth`: what is called healthy or absent was |

Several of these name cases the code does not cover and leave them out with a history
variable (`excused`, `raced`, `partial`, `cascaded`, `known`, `upset`, `steady`): the comment
of each property says which, and the notes of the hazards in `PROJECT.json` say what happens
then. They are behaviours no document claims otherwise of:

* A password that was reset can be replaced by its owner's change that was verified before.
* Two logins can use one recovery code; 2FA can be on without a secret after a race.
* Two administrators can delete themselves at once.
* A chart whose pull failed is gone until the next sync, and can drop an app's GPU choice
  when it changes on disk in the middle of a deployment.
* Overlapping requests can assign one host twice; two domains can become primary at once.
* A replica that read the keys while another replaced a half-set pair signs with other keys
  until it restarts.
* The map resolves a service name that two namespaces share to the one listed last, its "external" node is
  there only if some flow has a rate, and bytes of an address that changed hands go to the
  wrong app. Byte rates of a pair are shown on both directed edges.
* The exporter takes a dump that is being written for a shorter one and counts what it left
  out again (`FlowExporter` with `Torn = TRUE`).
* `get_app_status` matches the status `no_deployments` although the code produces
  `no_workloads`, and answers `idle` for any error.

**Bounds.** Races of the queue are between two actors over one row; two workers and two clients
show each of them, in separate runs because their product is too large. `NeverReplayed` and
the lifecycle need one recovery of an operation that is still being executed: one fault. Three
operations allow an operation, its retry and a third one. `Kinds` is a single kind where
kinds differ only in their effect on the namespace, and install with delete where that effect
is the question; the proofs hold for all kinds. The Lease's 15 s, the renewals every 5 s and
the 10 s deadline are 6, 2 and 4 ticks of 2.5 s, with attempts to acquire of at most one tick;
6 ticks are enough for a standby to begin observing, renewals to fail and a takeover to
follow. Two namespaces with one pod each let one drop out of a relist while the other stays;
one failure of each kind meets every other kind. Three nodes with two database instances leave
room for an instance that is re-created; two releases are the worker's own, which goes last,
and another; two changes with one fault reach every branch of `desired_node_count`. One helper
and pipes that are full at once let Helm exit, hang or be killed with output unread.

In `control_plane` a race has two requests (three for 2FA, where a third sees what two did)
over two names, with as many changes as it takes for one to be overtaken and one to follow:
`MaxOps = 2` operations, `MaxChanges = 1` change of chart or assignment, `MaxEdits = 2`,
`MaxPasses = 1`, `MaxSyncs = 2` (one to know a version, one to lose it), `MaxFaults = 1`,
`MaxOrders = 2` and `MaxTurns = 1`, `MaxWrites = 2`, `Lifetime = 2` ticks (what is younger and
what is older than one), `Window = 1` and `MaxTicks = 2` (a rate needs two readings),
`MaxBytes = 2`, `MaxSent = 3`. `Torn = FALSE`: dumps are not read while they are written.
Apart from the run, larger instances were checked and held: `AppDeployment` with three
operations or two changes or two providers (0.5 to 0.9 million states), `NetworkMetrics` with
a window of two (3.3 million), `ChartMirror` with three syncs or two faults, `StateVersions`
with two operations, `AppRoutes`, which has one app in the run, with two apps (0.5 million) and with three writes
from an empty table (6.5 million),
`GpuChoice` with three orders or two turns, `MountChoices` with all 601 lists of mounts,
`NetworkGraph` from any services, `AccountEdits` with three requests.
`CHECK_DEADLOCK FALSE` where what is bounded ends or an idle component has nothing to do.

**Fairness.** `AppOperations`: a worker's Deployment restarts it and its loop ticks on a
timer, every external call has a deadline (`WF` of `Restart \/ Process`); the outbox drain is
timed (`WF`); the reconcile loop visits each app on every pass (`SF` per app, because the step
is disabled while another result is being recorded); a row that nobody touches becomes stale
(`WF` of `Age`). Clients are promised nothing. `LeaderLease`: replicas make their next step
and time passes. `PodWatch`: the watcher reconnects with backoff and its events are handled.
`WorkerLocks`: a task goes on with what it has begun and locks are granted; nobody has to
begin. `HaScaling`: the loop ticks and its calls have deadlines, so passes go on (`WF` of
`Pass`); nodes, CloudNativePG and operations are promised nothing. `HelmProcess`: the caller
and the reader threads run, the deadline comes, a process that was sent SIGKILL dies; Helm and
its helpers owe nothing, not even to exit. `NetworkMetrics` (for `network_feed`): the ticker
and the forwarding tasks are scheduled. Failures are bounded everywhere, so liveness says what
happens after the last one. `control_plane` has no liveness property and no fairness.

## Findings

Six runs refute statements of the source.

1. `leader_slow_acquire`. `renew_until_lost` starts its deadline when the acquiring write's
   *answer* has arrived (leader.rs:111); a standby counts from seeing the write. An answer more
   than `LEASE_DURATION - RENEW_DEADLINE` late leaves a leader within its deadline after a
   takeover, against "Must stay below LEASE_DURATION so we give up before a standby can take
   over" (leader.rs:19). Renewals count from the start of their attempt and are right. The
   queue tolerates two leaders, as `operation_workers` shows.
2. `pod_cache_replaced`. `InitDone` rewrites the relisted and the previously observed
   namespaces (pod_watch.rs:61-77). A new worker has observed none, so the row of a namespace
   that lost its last pod between two workers stays, and the new heartbeat vouches for it.
3. `locks_reconcile`. `reconcile_app` awaits `upsert_state`, which reads the catalog, while
   it holds a read guard of it (app_manager.rs:1812, 1878). With a chart sync waiting to write
   in between, all three wait for ever. `worker_parts` leaves exactly this function out and
   shows that the rest is free of it: the order "catalog before Helm lock" is kept.
4. `ha_partial_rescale`. The next size is derived from the setting, which is written only when
   every release was resized (ha.rs:443, 478), and not from the releases. A pass that is cut
   short after growing some of them is undone by the next one when the new node is cordoned or
   not Ready by then, against "never merely because it went NotReady or is being drained for
   maintenance" (ha.rs:7-10). The setting itself keeps that promise (`SizeShrinksForLoss`).
5. `ha_last_copy`. Every bound claim on an existing node counts as a survivor (ha.rs:210), also
   that of an instance that has not cloned the data yet. If the node of the last full copy is
   deleted then, its claim is released, against "when no instance would survive, since then
   there is no replica to re-clone from and the claims hold the only copies of the data"
   (ha.rs:160-162). Some claim always stays (`InstanceKept`).
6. `network_feed`. The task that forwards to a socket ends for good at the first
   `RecvError::Lagged` (networking.rs:752), while the task that reads keeps the socket open:
   a page that fell behind once is connected, is sent nothing, and does not poll, against
   "broadcasts to all connected WebSocket clients" (network_broadcaster.rs:3).

## Proofs

Checked by TLAPS for all values of the constants, under the named assumptions of each module.
Every invariant below was checked by TLC, as an invariant of the run of its component, before
it was proved. Each is inductive; what it adds to the property it is for is what the property
rests on in the code.

**Operation queue** (`AppOperationsProofs`). `IndInv` is inductive: one lemma per group of
actions and part of the invariant, combined in `IndInvHolds`.

* `NeverReplayed` needs that no two workers hold an operation, and that the one about to make
  the external calls is the first to (`HoldingInv`), which needs that an unclaimed operation
  has left no trace (`UnclaimedInv`) and that ids are fresh (`FreshIdsInv`). A worker declared
  dead may still hold its operation; what saves the property is that recovery ends the
  operation and never queues it again.
* `OutcomeIsHonest` needs `ResultInv`, which ties what a worker remembers to what the calls did.
* `RetriedOnce` needs that only a retry makes an operation that names another, and that it
  names one that is marked as retried, alone (`RetryInv`): marking and inserting commit together.
* `IntentFollowed` and `IntentNewest` are about the state row and have an invariant of their own.

**Refinement** (`AppOperationsProofs`, at the end). Under `IndInv` every step of `AppOperations` is a
step of `OperationLifecycle` or leaves its variables alone (`LifecycleImplemented`).

**Election** (`LeaderLeaseProofs`). `IndInv` bounds the age of the Lease by what its holder
knows (`HeldInv`) and says which writes can still succeed (`PutInv`). The one assumption that
the code does not guarantee is `PromptAcquire`: `RenewDeadline + MaxCall < LeaseDuration`, that
is, an acquiring call that succeeds takes less than 5 s; without it there is finding 1.

**HA scaling** (`HaScalingProofs`). For `InstanceKept`, `SurvivorInv`: an instance is released
only from the list of lost ones, and of those with a claim one is never on that list. For `SizeShrinksForLoss`, `SizeInv`: while
no node was lost, what a pass listed is still there, and there are nodes to count on, neither
deleted nor given up (`Kept`), for the size it decided on and for the one that is remembered
(`Fits`). That a loss ends the agreement (`lossy => ~settled`) is part of it: it is true of
every reachable state, but the other conjuncts alone are not inductive. Assumed: there are finitely many nodes, at least
one database instance, and `NoNode` is none of the nodes.

**Components behind the API and of the worker.** `WorkerPartsProofs`, `AccessProofs`,
`RecordsProofs`, `AppsProofs` and `TrafficProofs` are about the composed modules, whose
properties are `part = ... => property`. For each component one lemma says that its `Init`
establishes the invariant, one that its `Next` keeps it, and the theorem lifts both: a step of
the composition is a step of the component that `part` names.

| Theorem | Component: invariant | What it rests on |
|---|---|---|
| `HelmAlwaysEndsClean` | `HelmProcess`: `HelmInv` | what was read and what is in a pipe is what was written; the group is killed before the readers are waited for; "indeterminate" is answered exactly without an exit status |
| `WatchAlwaysFaithful` | `PodWatch`: `WatchInv` (as `StreamInv`, `RowsInv`, `UsedInv`) | reading the rest of the stream would give what the cluster has, whatever is in it (by induction on its length); an entry of a list comes after the list's start; a row that is vouched for is what was observed, unless it is about to be written |
| `WorkerTypesHold` | `PodWatch`, `WorkerLocks`, `HaScaling`, `HelmProcess`: their types | a lock has an owner or readers (`OwnerInv`), which are those whose next steps release it (`GuardInv`: what a task has ahead takes it from the guards it holds to none); `killed` follows the caller (`HelmTypes`) |
| `CodesFollow` | `TwoFactor`: `CodesInv` | codes and the switch change in one transaction |
| `TicketsOnce` | `Sessions`: `TicketInv` | who took a ticket has the lock of its row, alone, and its row is unused until that commits; who carries its session was the only one to spend it |
| `TrailTells` | `Sessions`: `TrailInv` | an id has a record exactly when it has had a row; a request to log out is about a row that was there |
| `InvitesAdmitOne` | `UserAccounts`: `InviteInv` | ids are given once; the account an invite names stays while the invite does |
| `RolesTogether` | `UserRoles`: `RolesInv` | one request at a time has the row of an account, and has deleted all the account still holds |
| `AssignmentsAlwaysFit` | `AppRoutes`: `RoutesInv` | no other row has the host of a request that has looked, and its app has no primary row but those it is about to clear; two requests for one host or app are marked as overlapping before either stores |
| `RefreshNeverMisses` | `Notifications`: `ChannelsInv` | the newest date grows with every change stored in order, so a fingerprint taken before a load is the table's only if nothing was stored since |
| `DeletionsRecorded` | `AuditTrail`: `AuditInv` | open transactions delete different rows, which are still there for others |
| `KeysFit` | `SystemSettings`: `KeysInv` | half a pair is there only from before, and every backend that reads sees it; a deployment has the stored key in hand |
| `EditsAllSurvive` | `Domains`: `DomainsInv`; `AccountEdits`: `EditsInv` | a request changes only its own columns; the placeholder comes only from a form that showed a credential |
| `FlagsFit`, `AvailableStaysKnown` | `StateVersions`: `VersionInv` | whoever has read a row finds one, or its conditional update matches nothing (`ReadRowIsThere`); the flag is computed from what was read, so it fits after a write only because the update is conditional on both versions that were read |
| `ProofAlwaysEarned` | `AppDeployment`: `DeployInv` | while the claim is older than the saved storage, nothing that is saved, queued, retryable, executed, released or in a request's hands is marked fresh; a claim becomes older only from the start |
| `CatalogAlwaysServes` | `ChartMirror`: `MirrorInv` | what was discovered is published, in that version or a later one (`FromOn`); what the last sync that counts had is still there but for the one chart between its removal and the rename, where a failure is excused |
| `TestsAreAlwaysTidy` | `VpnTests`: `TestsInv`; `StorageValidation`: `ValidationInv` | what is stored is a complete provider, so its Secret has what its type needs, and there is no Pod before one is created nor once it was deleted, unless a call failed (`excused`); a validation that met no trouble is alone with its export (`ExportsApart`, `Undisturbed`), finds its files where its own Pod left them at the address its volumes have, and removes each claim in the order of `CleanedUp` |
| `AppsAlwaysReached` | `GatewayRoutes`: `GatewayInv`; `EndpointCache`: `EndpointInv`; `AppHealth`: `HealthInv` | an assignment that has been there all along and fits has not been looked at yet, or is what was found; a cached endpoint with `left` ticks was the app's in the last `Lifetime - left`; what a check has read so far was so since it began |
| `ChoicesAlwaysMet` | `AppDeployment`: `SettledInv`; `MountChoices`: `MountInv`; `GpuChoice`: `GpuInv` | operations are executed in the order of their ids, and the newest has resolved the assignment there is (`NewestResolved`) or was cascaded over; what is saved was valid for the chart it was saved for; an order that is executed with the chart it was checked with sets what was ordered |
| `NothingEverLost` | `SharedStorage`: `TreeInv` | a rename stays in its folder; a directory that is removed is empty, and moving a directory moves all below it (paths by their segments, without walking them) |
| `TrafficAlwaysReal` | `NetworkMetrics`: `MetricsInv` | what was read is at most what was moved, and since then no counter grew by more than was moved (`Bounds`), unless a machine was left out |
| | `FlowExporter`: `FlowInv` | of each connection there is a number of bytes, counted over all restarts, that with what is still to be folded and dumped is at most what was sent (`Covers`), and the classes' totals are at most the sums of these numbers |
| | `FlowClasses`: `PanelInv` | after each query the totals, and then the last points of the series, are the sums over the rows measured now |
| | `NetworkGraph`: `GraphInv` | list by list: edges that were found join namespaces that referred to each other at some time of the request, and carry nothing until they are measured; measuring spreads each row over one pair, so the sums stay |

`TrafficAlwaysReal` assumes `~Torn`: a dump that is read while it is written is a shorter dump
to the exporter, and what it left out is counted again; TLC shows that the property then fails.
`FlowExporter`, `FlowClasses` and `NetworkGraph` add up values over finite sets. `TrafficProofs`
begins with what sums they are made of: over one set at a time, for disjoint sets, for functions
that are equal or bounded on a set. The function that is computed is defined by a fold, that is
by `CHOOSE` of a recursive function; that there is one is proved with a smallest counterexample,
by the well-foundedness of sets under removal of one element, as the induction theorems of the
library take an operator. `WatchAlwaysFaithful` and the locks go along sequences in the same way.

The assumptions are that a value which stands for "nothing" is none of the values it is
compared with (`NoneAssumption`, `UnassignedAssumption`, `MarksAssumption`,
`TokensAssumption`, `AbsentAssumption`, `NilAssumption`, `NamesAssumption`), that a server, a machine and "managed" are told apart
(`ServersAssumption`), that a session's id is never a ticket's (`IdsAssumption`), that Kubarr's
components are charts (`ComponentsAssumption`) and that bounds are numbers. In the code these
are NULL, different types, different prefixes and an empty set of files. That an external
server has no address of a node of the cluster is a condition on the installation, which the code
does not check: such an export would be the managed one under another name. TLC evaluates all of
them in the runs.

**What the proofs found.** An invariant that could not be proved was, in these places, a model
that said too little, and the model was corrected:

* `NetworkGraph` remembered what applications and Kubernetes told it in one step of the request
  (`told`). With two changes during a request a discovered edge then had nothing behind it, as
  TLC confirmed; `told` is now everything that was so since the request began.
* `FlowClasses` compared totals with series that leave out malformed rows; `Both` counts them.
* `CASE`s whose guards overlap (`Classify`, `Resolved`, `DesiredNodeCount`) were right in TLC,
  which takes the first, and meant any arm to the provers; they are written as the code's
  `if ... else if` now.
* A namespace that is called like one of the map's fixed nodes would be one node with it. The code
  does not check this; `SpacesAssumption` says it.

**Only model-checked**, up to the bounds above: liveness (`OperationsEnd`, `AuditDelivered`,
`ObservedConverges`, `VacancyEnds`, `WorkFinishes`, `PassesSettle`), for which TLAPS has no
backend here, and the joint `TypeOK` of `MCControlPlane`; the parts of it that the proofs need
are in the invariants.

## Not modelled

* **Parsing and rendering**: the metrics text of cAdvisor, the conntrack text, VictoriaLogs and
  VictoriaMetrics queries, Helm's JSON, install wizard texts. Their results are inputs here;
  that a line is skipped or a query has no rows is a case of the model.
* **The inbox, notification preferences and the sending of notifications**: nothing in the
  program calls `notify_event`; the handlers read and write single rows.
* **Logs and resource metrics** (`endpoints/logs.rs`, most of `monitoring.rs`): they forward
  queries and keep no state.
* **The OAuth round trip** to the provider and the administration of providers: single rows,
  and I/O in between; what the callback does to accounts is in `UserAccounts`.
* **The Kubernetes client** (`services/k8s.rs`): I/O; its failures are faults of the modules
  that call it, except `get_service_endpoints`, which `EndpointCache` has.
* **Storage configuration apart from its validation**: `get_storage_config_from_db` is read by
  operations (`AppDeployment` pins it); the other functions have no caller in the repository
  yet. `StorageValidation` takes them as they are written.
* **Migrations**: what they create is the Init and the constraints of the modules; that they run in order
  is sea-orm's.
* **dns-webhook** is stateless, the **frontend** is beyond the API, except
  `useNetworkMetricsWs`, whose choice between socket and polling is in `NetworkMetrics`.

Abstracted in particular: hashes, tokens and signatures are what they are of; the charts'
contents are a version and how the catalog lists it (GPU support and mounts in their own
modules); `by_app` rows of the traffic panel; a helper of Helm's that leaves its process group,
and the reuse of a process id between reaping and the kill.

## Plan

1. `WorkerSystem`: `LeaderLease` composed with the loops it guards, to say what two leaders can
   do in finding 1 beyond the queue.
2. An abstract cache ("what is shown was true within a lifetime") that `EndpointCache`,
   `PodWatch` and `NetworkMetrics` refine.
3. `ChartMirror` composed with `GpuChoice` and `AppDeployment` over one directory of charts.
