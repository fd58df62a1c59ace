---------------------------- MODULE WorkerLocks ----------------------------
(***************************************************************************)
(* The locks the tasks of the active worker share: the catalog's RwLock,   *)
(* which a chart sync writes and all others read, and the Helm mutex.      *)
(* tokio grants both in the order they were asked for, so a reader queues  *)
(* behind a writer that waits, and a task may hold several read guards.    *)
(* The Kubernetes client is behind an RwLock too, which no task of the     *)
(* worker ever writes; it cannot block and is left out.                    *)
(***************************************************************************)
EXTENDS Naturals, Sequences, FiniteSets, Relation

CONSTANTS
  Tasks,       \* the tasks that run
  Reconciling  \* reconcile_app is run by them

AllTasks == {"operations", "reconcile", "ha", "chart_sync"}
Locks == {"catalog", "helm"}

TasksAssumption == Tasks \subseteq AllTasks /\ Reconciling \in BOOLEAN

VARIABLES
  ahead,   \* what each task has still to lock and drop in what it is doing
  line,   \* for each lock, the requests that wait for it in order
  reads,  \* for each lock, how many read guards each task holds
  owner   \* for each lock, the tasks that hold it exclusively

vars == <<ahead, line, reads, owner>>

-----------------------------------------------------------------------------
(* What the tasks do, as the guards they take and drop.                    *)

Read(l) == [do |-> "read", lock |-> l]
Write(l) == [do |-> "write", lock |-> l]
Drop(l) == [do |-> "drop", lock |-> l]

\* The catalog is read under the Helm lock, and the guards drop in reverse order.
UnderHelmLock == <<Read("catalog"), Write("helm"), Drop("helm"), Drop("catalog")>>

\* Mutants of the two: the catalog is read once more under its guard, and only under
\* the Helm lock.
ExecuteReadingTwice == <<Read("catalog"), Write("helm"), Read("catalog"),
                         Drop("catalog"), Drop("helm"), Drop("catalog")>>
RescaleHelmFirst == <<Write("helm"), Read("catalog"), Drop("catalog"), Drop("helm")>>

ExecuteOperation == UnderHelmLock
RescaleRelease == UnderHelmLock

\* The chart version is looked up under a guard of its own.
UpsertState == <<Read("catalog"), Drop("catalog")>>

\* The catalog stays borrowed by the DeploymentManager to the end.
ReconcileApp == <<Read("catalog")>> \o UpsertState \o <<Drop("catalog")>>

\* The list of apps, then one app after the other.
ReconcileStates == <<Read("catalog"), Drop("catalog")>> \o ReconcileApp \o ReconcileApp

\* Reload the catalog, then read it to publish the versions.
SyncAndRefresh == <<Write("catalog"), Drop("catalog"), Read("catalog"), Drop("catalog")>>

\* What a task may do next: an operation fails or is finished, stopped or restarted.
Programs(t) ==
  CASE t = "operations" -> {ExecuteOperation, ExecuteOperation \o UpsertState}
                           \cup (IF Reconciling
                                 THEN {ExecuteOperation \o ReconcileApp,
                                       ExecuteOperation \o UpsertState \o ReconcileApp}
                                 ELSE {})
    [] t = "reconcile"  -> IF Reconciling THEN {ReconcileStates} ELSE {}
    [] t = "ha"         -> {RescaleRelease}
    [] OTHER            -> {SyncAndRefresh}

Init ==
  /\ ahead = [t \in Tasks |-> <<>>]
  /\ line = [l \in Locks |-> <<>>]
  /\ reads = [l \in Locks |-> [t \in Tasks |-> 0]]
  /\ owner = [l \in Locks |-> {}]

-----------------------------------------------------------------------------
(* The locks.                                                              *)

Waiting(t) == \E l \in Locks : \E i \in 1..Len(line[l]) : line[l][i].task = t

\* A timer fires, or work is found.
Begin(t) ==
  /\ ahead[t] = <<>>
  /\ \E program \in Programs(t) : ahead' = [ahead EXCEPT ![t] = program]
  /\ UNCHANGED <<line, reads, owner>>

\* Ask for a guard: join the line.
Request(t) ==
  /\ ahead[t] # <<>> /\ ~Waiting(t)
  /\ LET step == Head(ahead[t])
     IN /\ step.do \in {"read", "write"}
        /\ line' = [line EXCEPT ![step.lock] = Append(@, [task |-> t, do |-> step.do])]
  /\ UNCHANGED <<ahead, reads, owner>>

\* Mutant of Compatible: a reader does not mind the writer.
CompatibleIfUnread(l, do) ==
  do = "write" => owner[l] = {} /\ \A t \in Tasks : reads[l][t] = 0

\* Whether a request can be granted when it is first in line.
Compatible(l, do) ==
  /\ owner[l] = {}
  /\ do = "write" => \A t \in Tasks : reads[l][t] = 0

\* The first in line gets its guard.
Grant(l) ==
  /\ line[l] # <<>>
  /\ LET first == Head(line[l])
     IN /\ Compatible(l, first.do)
        /\ IF first.do = "read"
           THEN reads' = [reads EXCEPT ![l][first.task] = @ + 1] /\ UNCHANGED owner
           ELSE owner' = [owner EXCEPT ![l] = {first.task}] /\ UNCHANGED reads
        /\ ahead' = [ahead EXCEPT ![first.task] = Tail(@)]
  /\ line' = [line EXCEPT ![l] = Tail(@)]

\* Drop the guard taken last.
Release(t) ==
  /\ ahead[t] # <<>> /\ Head(ahead[t]).do = "drop"
  /\ LET l == Head(ahead[t]).lock
     IN IF t \in owner[l]
        THEN owner' = [owner EXCEPT ![l] = {}] /\ UNCHANGED reads
        ELSE reads' = [reads EXCEPT ![l][t] = @ - 1] /\ UNCHANGED owner
  /\ ahead' = [ahead EXCEPT ![t] = Tail(@)]
  /\ UNCHANGED line

Next == (\E t \in Tasks : Begin(t) \/ Request(t) \/ Release(t)) \/ (\E l \in Locks : Grant(l))

Spec == Init /\ [][Next]_vars

\* A task goes on with what it began; Helm and Kubernetes calls have deadlines.
FairSpec ==
  /\ Spec
  /\ \A t \in Tasks : WF_vars(Request(t) \/ Release(t))
  /\ \A l \in Locks : WF_vars(Grant(l))

-----------------------------------------------------------------------------
(* Correctness.                                                            *)

\* Types of the variables; a lock has one exclusive holder and then no other.
TypeOK ==
  /\ \A t \in Tasks : ahead[t] \in Seq([do : {"read", "write", "drop"}, lock : Locks])
  /\ \A l \in Locks : line[l] \in Seq([task : Tasks, do : {"read", "write"}])
  /\ reads \in [Locks -> [Tasks -> Nat]]
  /\ owner \in [Locks -> SUBSET Tasks]
  /\ \A l \in Locks : Cardinality(owner[l]) <= 1
                      /\ (owner[l] # {} => \A t \in Tasks : reads[l][t] = 0)

\* t waits for u: u holds the lock t is first in line for, or is before t in the line.
WaitsFor(t, u) ==
  \E l \in Locks :
    /\ line[l] # <<>> /\ ~Compatible(l, Head(line[l]).do)
    /\ \E i \in 1..Len(line[l]) :
         /\ line[l][i].task = t
         /\ \/ i = 1 /\ (u \in owner[l] \/ (line[l][1].do = "write" /\ reads[l][u] > 0))
            \/ i > 1 /\ u = line[l][1].task

\* No task waits, through others, for itself: no read guard is asked for behind a
\* writer that waits for a guard of the same task.
NoCircularWait ==
  LET wait == [e \in Tasks \X Tasks |-> WaitsFor(e[1], e[2])]
  IN IsIrreflexive(TransitiveClosure(wait, Tasks), Tasks)

\* Whatever a task has begun it finishes, however the others use the locks.
Finished(t) == ahead[t] = <<>>
TasksFinish == \A t \in Tasks : ~Finished(t) ~> Finished(t)
=============================================================================
