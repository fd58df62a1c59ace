------------------------------ MODULE PodWatch ------------------------------
(***************************************************************************)
(* The pod status cache: the active worker folds a Kubernetes pod watch    *)
(* into per-namespace sets, writes the ones that change to the database    *)
(* and vouches for the rows with a heartbeat; the operation worker drops   *)
(* rows; the API answers from the rows the heartbeat vouches for, and asks *)
(* Kubernetes otherwise.                                                   *)
(*                                                                         *)
(* A pod is its name: what is stored of it besides is left out.            *)
(***************************************************************************)
EXTENDS Naturals, Sequences, FiniteSets, SequencesExt

CONSTANTS
  Namespaces,
  Pods,        \* pod names
  Unknown,     \* no entry, no row
  MaxChanges,  \* bound: pods that come or go
  MaxBreaks,   \* bound: stream errors
  MaxFailures, \* bound: failed writes, dropped rows, truncations
  MaxRestarts  \* bound: workers that replace one another

UnknownAssumption ==
  /\ \A pods \in SUBSET Pods : Unknown # pods
  /\ Unknown \notin [Namespaces -> {Unknown} \cup SUBSET Pods]
SizesAssumption == IsFiniteSet(Namespaces) /\ IsFiniteSet(Pods)
BoundsAssumption == {MaxChanges, MaxBreaks, MaxFailures, MaxRestarts} \subseteq Nat

VARIABLES
  \* Kubernetes
  cluster,    \* the pods there are, by namespace
  connected,  \* the watcher's connection: changes are appended to its stream
  stream,     \* events the watcher has yet to yield
  \* the worker's task
  observed,   \* PodWatchState.observed
  relisting,  \* PodWatchState.relisting (Unknown: None)
  at,         \* where pod_watch::run is: awaiting an event, writing rows, reporting in
  dirty,      \* namespaces it has still to write for the event
  synced,     \* the event was InitDone
  healthy,    \* it vouches for the cache
  \* the database
  row,        \* pod_status_cache, by namespace
  beat,       \* pod_watch_heartbeat is recent
  \* bounds and history
  used,       \* how often each bounded action was taken
  missed      \* namespaces whose last write failed

kubernetes == <<cluster, connected, stream>>
memory == <<observed, relisting, at, dirty, synced, healthy>>
tables == <<row, beat>>
vars == <<kubernetes, memory, tables, used, missed>>

Limit == [change |-> MaxChanges, break |-> MaxBreaks, failure |-> MaxFailures,
          restart |-> MaxRestarts]
Use(what) == used[what] < Limit[what] /\ used' = [used EXCEPT ![what] = @ + 1]

\* Events of the watcher.
Signal(type) == [type |-> type]
About(type, n, p) == [type |-> type, namespace |-> n, pod |-> p]

Nothing == [n \in Namespaces |-> Unknown]

Init ==
  /\ cluster \in [Namespaces -> SUBSET Pods]
  /\ connected = FALSE
  /\ stream = <<>>
  /\ observed = Nothing
  /\ relisting = Unknown
  /\ at = "recv"
  /\ dirty = {}
  /\ synced = FALSE
  /\ healthy = FALSE
  /\ row = Nothing
  /\ beat = FALSE
  /\ used = [what \in DOMAIN Limit |-> 0]
  /\ missed = {}

-----------------------------------------------------------------------------
(* Kubernetes and the watcher's stream.                                    *)

\* A pod comes or goes.
Change(n, p) ==
  /\ Use("change")
  /\ cluster' = [cluster EXCEPT ![n] = IF p \in @ THEN @ \ {p} ELSE @ \cup {p}]
  /\ stream' = IF connected
               THEN Append(stream, About(IF p \in cluster[n] THEN "Delete" ELSE "Apply", n, p))
               ELSE stream
  /\ UNCHANGED <<connected, memory, tables, missed>>

\* The InitApply events of a list, in some fixed order.
Listed(pods) ==
  LET found == SetToSeq({e \in Namespaces \X Pods : e[2] \in pods[e[1]]})
  IN [i \in 1..Len(found) |-> About("InitApply", found[i][1], found[i][2])]

\* The watcher lists all pods and watches from there on.
List ==
  /\ ~connected
  /\ connected' = TRUE
  /\ stream' = stream \o <<Signal("Init")>> \o Listed(cluster) \o <<Signal("InitDone")>>
  /\ UNCHANGED <<cluster, memory, tables, used, missed>>

\* A list fails after some of its pages.
PartialList ==
  /\ ~connected
  /\ Use("break")
  /\ \E n \in Namespaces :
       stream' = stream \o <<Signal("Init")>> \o Listed([m \in Namespaces |-> IF m = n THEN cluster[m] ELSE {}])
                        \o <<Signal("Error")>>
  /\ UNCHANGED <<cluster, connected, memory, tables, missed>>

\* The watch fails. It goes on where it was, or has to list again.
Break ==
  /\ connected
  /\ Use("break")
  /\ connected' \in BOOLEAN
  /\ stream' = Append(stream, Signal("Error"))
  /\ UNCHANGED <<cluster, memory, tables, missed>>

-----------------------------------------------------------------------------
(* PodWatchState::apply, and the loop that writes what it reports.         *)

Entry(pods, n) == IF pods[n] = Unknown THEN {} ELSE pods[n]
\* Mutant of InsertPod: the map is replaced by one with a single entry.
InsertPodOnly(pods, e) == [n \in {e.namespace} |-> Entry(pods, n) \cup {e.pod}]

InsertPod(pods, e) == [pods EXCEPT ![e.namespace] = Entry(pods, e.namespace) \cup {e.pod}]
RemovePod(pods, e) == [pods EXCEPT ![e.namespace] = Entry(pods, e.namespace) \ {e.pod}]

\* What a complete relist leaves: what was listed, and the namespaces known before
\* that dropped out, as empty.
Relisted(before, listed) ==
  [n \in Namespaces |-> IF before[n] # Unknown THEN Entry(listed, n) ELSE listed[n]]

KnownTo(pods) == {n \in Namespaces : pods[n] # Unknown}

\* Mutant of Apply: a relist is applied as it arrives, and nothing drops out of it.
ApplyUnbuffered(e, pods, buffer) ==
  CASE e.type \in {"InitApply", "Apply"} -> [pods |-> InsertPod(pods, e), buffer |-> buffer]
    [] e.type = "Delete"                 -> [pods |-> RemovePod(pods, e), buffer |-> buffer]
    [] OTHER                             -> [pods |-> pods, buffer |-> buffer]

\* The effect of an event on the pods observed, with those being relisted.
Apply(e, pods, buffer) ==
  CASE e.type = "Init"      -> [pods |-> pods, buffer |-> Nothing]
    [] e.type = "InitApply" -> IF buffer = Unknown
                               THEN [pods |-> InsertPod(pods, e), buffer |-> buffer]
                               ELSE [pods |-> pods, buffer |-> InsertPod(buffer, e)]
    [] e.type = "InitDone"  -> [pods |-> IF buffer = Unknown THEN pods ELSE Relisted(pods, buffer),
                                buffer |-> Unknown]
    [] e.type = "Apply"     -> [pods |-> InsertPod(pods, e), buffer |-> buffer]
    [] e.type = "Delete"    -> [pods |-> RemovePod(pods, e), buffer |-> buffer]
    [] OTHER                -> [pods |-> pods, buffer |-> buffer]

\* Mutant of Changed: a relist reports the namespaces that have pods.
ChangedListed(e, pods, buffer) ==
  CASE e.type \in {"Apply", "Delete"}          -> {e.namespace}
    [] e.type = "InitDone" /\ buffer # Unknown -> {n \in KnownTo(pods) : pods[n] # {}}
    [] OTHER                                   -> {}

\* The namespaces an event changes, given what is observed after it.
Changed(e, pods, buffer) ==
  CASE e.type \in {"Apply", "Delete"}               -> {e.namespace}
    [] e.type = "InitDone" /\ buffer # Unknown -> KnownTo(pods)
    [] OTHER                                        -> {}

\* Take the next event. An error is not applied: it ends the vouching.
Receive ==
  /\ at = "recv" /\ stream # <<>>
  /\ LET e == Head(stream)
         after == Apply(e, observed, relisting)
     IN /\ stream' = Tail(stream)
        /\ observed' = after.pods
        /\ relisting' = after.buffer
        /\ dirty' = Changed(e, after.pods, relisting)
        /\ synced' = (e.type = "InitDone")
        /\ healthy' = (healthy /\ e.type # "Error")
        /\ at' = IF e.type = "Error" THEN "recv" ELSE "store"
  /\ UNCHANGED <<cluster, connected, tables, used, missed>>

StoreNamespace(n) ==
  /\ at = "store" /\ n \in dirty
  /\ row' = [row EXCEPT ![n] = observed[n]]
  /\ dirty' = dirty \ {n}
  /\ missed' = missed \ {n}
  /\ UNCHANGED <<kubernetes, observed, relisting, at, synced, healthy, beat, used>>

\* A write that fails is only logged.
StoreFails(n) ==
  /\ at = "store" /\ n \in dirty
  /\ Use("failure")
  /\ dirty' = dirty \ {n}
  /\ missed' = missed \cup {n}
  /\ UNCHANGED <<kubernetes, observed, relisting, at, synced, healthy, tables>>

\* Mutant of Report: a resync does not make the watch healthy again.
ReportUnsynced ==
  /\ at = "store" /\ dirty = {}
  /\ beat' = (beat \/ healthy)
  /\ at' = "recv"
  /\ UNCHANGED <<kubernetes, observed, relisting, dirty, synced, healthy, row, used, missed>>

\* All rows are written: a resync makes the watch healthy, a healthy watch reports in.
Report ==
  /\ at = "store" /\ dirty = {}
  /\ healthy' = (healthy \/ synced)
  /\ beat' = (beat \/ healthy')
  /\ at' = "recv"
  /\ UNCHANGED <<kubernetes, observed, relisting, dirty, synced, row, used, missed>>

\* The timer's tick while no event is handled.
Heartbeat ==
  /\ at = "recv" /\ healthy
  /\ beat' = TRUE
  /\ UNCHANGED <<kubernetes, memory, row, used, missed>>

-----------------------------------------------------------------------------
(* Other processes, and what time and failures do.                         *)

\* pod_cache::invalidate after an operation on the app.
Invalidate(n) ==
  /\ Use("failure")
  /\ row' = [row EXCEPT ![n] = Unknown]
  /\ UNCHANGED <<kubernetes, memory, beat, missed>>

\* MAX_STREAM_SILENCE passes without a heartbeat that reached the database.
Silence ==
  /\ beat
  /\ beat' = FALSE
  /\ UNCHANGED <<kubernetes, memory, row, used, missed>>

\* PostgreSQL truncates unlogged tables after an unclean shutdown.
Truncate ==
  /\ Use("failure")
  /\ row' = Nothing
  /\ beat' = FALSE
  /\ UNCHANGED <<kubernetes, memory, missed>>

\* The worker ends, and another starts a watch of its own with an empty state.
ReplaceWorker ==
  /\ Use("restart")
  /\ connected' = FALSE
  /\ stream' = <<>>
  /\ observed' = Nothing
  /\ relisting' = Unknown
  /\ at' = "recv"
  /\ dirty' = {}
  /\ synced' = FALSE
  /\ healthy' = FALSE
  /\ UNCHANGED <<cluster, tables, missed>>

Watch == Receive \/ Report \/ Heartbeat \/ \E n \in Namespaces : StoreNamespace(n)

Next ==
  \/ Watch \/ List \/ PartialList \/ Break \/ Silence \/ Truncate \/ ReplaceWorker
  \/ \E n \in Namespaces : StoreFails(n) \/ Invalidate(n) \/ \E p \in Pods : Change(n, p)

Spec == Init /\ [][Next]_vars

\* The watcher reconnects, and the task handles what it yields.
FairSpec ==
  /\ Spec
  /\ WF_vars(List)
  /\ WF_vars(Receive \/ Report \/ \E n \in Namespaces : StoreNamespace(n))

-----------------------------------------------------------------------------
(* Correctness.                                                            *)

Contents == {Unknown} \cup SUBSET Pods

\* Types of the variables.
TypeOK ==
  /\ cluster \in [Namespaces -> SUBSET Pods]
  /\ connected \in BOOLEAN
  /\ \A i \in 1..Len(stream) :
       stream[i].type \in {"Init", "InitApply", "InitDone", "Apply", "Delete", "Error"}
  /\ observed \in [Namespaces -> Contents]
  /\ relisting \in {Unknown} \cup [Namespaces -> Contents]
  /\ at \in {"recv", "store"}
  /\ dirty \subseteq Namespaces
  /\ synced \in BOOLEAN /\ healthy \in BOOLEAN /\ beat \in BOOLEAN
  /\ row \in [Namespaces -> Contents]
  /\ used \in [DOMAIN Limit -> Nat]
  /\ missed \subseteq Namespaces

\* pods_for: the row where the heartbeat vouches for it, the cluster otherwise.
PodsFor(n) == IF beat /\ row[n] # Unknown THEN row[n] ELSE cluster[n]

\* The watch is healthy and has written all that happened.
CaughtUp == healthy /\ connected /\ stream = <<>> /\ at = "recv"

\* What a viewer is shown while the watch is healthy and has caught up is what the
\* cluster holds.
AnswersMatch == CaughtUp => \A n \in Namespaces : PodsFor(n) = cluster[n]

\* ... for the namespaces this worker's watch knows and whose last write went through.
KnownAnswersMatch ==
  CaughtUp => \A n \in KnownTo(observed) \ missed : PodsFor(n) = cluster[n]

\* What is observed and being relisted, now and after the first i of the events to come.
Now == [pods |-> observed, buffer |-> relisting]
After(events, state) ==
  LET after[i \in 0..Len(events)] ==
        IF i = 0 THEN state ELSE Apply(events[i], after[i-1].pods, after[i-1].buffer)
  IN after

\* What was observed, and the events to come, make up the cluster: no event is lost or
\* applied twice, whatever breaks.
NothingLost ==
  connected => \A n \in Namespaces : Entry(After(stream, Now)[Len(stream)].pods, n) = cluster[n]

Vouched == beat
ErrorPending == \E i \in 1..Len(stream) : stream[i].type = "Error"
ResyncPending == \E i \in 1..Len(stream) : stream[i].type = "InitDone"

\* A watch that resyncs is vouched for again, unless it breaks once more.
VouchedAgain == ResyncPending ~> Vouched \/ ErrorPending

Entries == {"InitApply", "Apply", "Delete"}
Events == [type : {"Init", "InitDone", "Error"}]
          \cup [type : Entries, namespace : Namespaces, pod : Pods]
Vouches == healthy \/ (at = "store" /\ synced)

\* A list's entries, and its end, come after its start; and what a healthy watch observed of a
\* namespace was written, or is about to be, or is not vouched for by a row.
WatchInv ==
  /\ TypeOK
  /\ stream \in Seq(Events)
  /\ \A i \in 1..Len(stream) :
       stream[i].type \in {"InitApply", "InitDone"} => After(stream, Now)[i-1].buffer # Unknown
  /\ NothingLost
  /\ at = "recv" => dirty = {}
  /\ Vouches => \A n \in KnownTo(observed) \ (dirty \cup missed) : row[n] \in {Unknown, observed[n]}
=============================================================================
