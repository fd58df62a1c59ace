--------------------------- MODULE AppOperations ---------------------------
(***************************************************************************)
(* The app-operation queue: rows of app_operations written by the API's    *)
(* request handlers, claimed, executed and resolved by worker processes,   *)
(* with the app_states row each operation moves and the audit outbox its   *)
(* outcome goes through.                                                   *)
(*                                                                         *)
(* Every database transaction of the code runs at READ COMMITTED, so a     *)
(* transaction is split where another one can come between: its reads and  *)
(* checks are one step, and the conditional update it ends with, together  *)
(* with what it writes under that row lock, is another.                    *)
(*                                                                         *)
(* Operation ids are handed out in created_at order, so comparing ids is   *)
(* comparing created_at.                                                   *)
(***************************************************************************)
EXTENDS Naturals, FiniteSets

CONSTANTS
  Apps,         \* app names
  Workers,      \* worker replicas; more than one can be live (see LeaderLease)
  Clients,      \* API requests in flight at the same time
  Kinds,        \* operation kinds the clients ask for
  Loopers,      \* bound: the workers whose reconcile loop is explored
  MaxOps,       \* bound: operations ever created
  MaxControls,  \* bound: pause, resume, cancel and retry requests
  MaxFaults     \* bound: crashes, failed database calls, lost visibility

AllKinds == {"install", "update", "delete", "restart"}

ASSUME AppsAssumption == Apps # {}
ASSUME KindsAssumption == Kinds \subseteq AllKinds
ASSUME LoopersAssumption == Loopers \subseteq Workers
ASSUME BoundsAssumption == MaxOps \in Nat /\ MaxControls \in Nat /\ MaxFaults \in Nat

Ids == 1..MaxOps
Statuses == {"absent", "queued", "running", "succeeded", "failed", "paused",
             "cancelled", "retried"}
Active == {"queued", "running", "paused"}

VARIABLES
  \* tables of the database
  job,       \* app_operations: app, operation, and the operation it retries (0: none)
  status,    \* app_operations.status
  stopReq,   \* app_operations.stop_requested
  fresh,     \* app_operations.updated_at lies within STALE_RUNNING_AFTER
  appState,  \* app_states
  outbox,    \* audit_outbox.outcome by operation id ("none": no row)
  sent,      \* audit_outbox.processed_at is set
  audits,    \* number of terminal rows in audit_logs per operation
  \* the API
  nextId,    \* next operation id
  req,       \* the open transaction of each request
  controls,  \* control and retry requests so far
  \* the workers
  pc,        \* where the operation loop of each worker is
  cur,       \* the operation it has selected or claimed (0: none)
  cand,      \* the stale rows its recovery scan read
  tok,       \* its stop token: "no", "stop" (seen in the row) or "lost" (no database)
  res,       \* what execute_operation returned
  rec,       \* what its two reconcilers saw and are about to record
  faults,    \* faults so far
  \* the cluster, and histories
  cluster,   \* the app's namespace
  runs,      \* how often an operation's Helm or pod calls were started
  okRuns     \* operations whose external calls returned without error

dbVars == <<job, status, stopReq, fresh, appState, outbox, sent, audits>>
apiVars == <<nextId, req, controls>>
workerVars == <<pc, cur, cand, tok, res, rec, faults>>
worldVars == <<cluster, runs, okRuns>>
vars == <<dbVars, apiVars, workerVars, worldVars>>

-----------------------------------------------------------------------------
(* Rows and local states.                                                  *)

AnyApp == CHOOSE a \in Apps : TRUE
NoJob == [app |-> AnyApp, kind |-> "install", of |-> 0]
Jobs == [app : Apps, kind : AllKinds, of : 0..MaxOps]

Observed == {"unknown", "not_installed", "installing", "installed", "unhealthy",
             "deleting", "failed"}
\* No row is the row with desired "none".
NoRow == [desired |-> "none", observed |-> "unknown", last |-> 0]
Rows == [desired : {"none", "installed", "removed"}, observed : Observed, last : 0..MaxOps]

NoReq == [act |-> "none", id |-> 0, job |-> NoJob]
Reqs == [act : {"none", "enqueue", "retry", "pause", "resume", "cancel", "stop"},
         id : 0..MaxOps, job : Jobs]

\* A worker reconciles an app after finishing its operation, and in a loop of its own.
Reconcilers == {"finish", "loop"}
NoSight == [app |-> AnyApp, sees |-> "unknown"]
Sights == [app : Apps, sees : Observed]

Pcs == {"down", "idle", "recover", "claim", "start", "helm", "resolve", "stopping",
        "failing", "succeeding", "settle", "observe", "record", "deliver"}
Results == {"none", "ok", "err", "indeterminate", "stopped"}

DesiredFor(kind) == IF kind = "delete" THEN "removed" ELSE "installed"

\* observed_state while the operation is queued
QueuedAs(kind) ==
  CASE kind = "delete"  -> "deleting"
    [] kind = "restart" -> "installed"
    [] OTHER            -> "installing"

Busy(a) == \E id \in Ids : job[id].app = a /\ status[id] \in Active

Namespaces == {"absent", "present", "terminating"}

\* What reconcile_app can read of an app: no namespace, or a namespace whose
\* workloads are healthy or not. One being deleted is still there.
Visible(a) == IF cluster[a] = "absent" THEN {"not_installed"} ELSE {"installed", "unhealthy"}

\* execute_operation is running, and with it the heartbeat and the stop watcher.
Executing(w) == pc[w] \in {"start", "helm"}

Init ==
  /\ job = [id \in Ids |-> NoJob]
  /\ status = [id \in Ids |-> "absent"]
  /\ stopReq = [id \in Ids |-> FALSE]
  /\ fresh = [id \in Ids |-> FALSE]
  /\ appState = [a \in Apps |-> NoRow]
  /\ outbox = [id \in Ids |-> "none"]
  /\ sent = [id \in Ids |-> FALSE]
  /\ audits = [id \in Ids |-> 0]
  /\ nextId = 1
  /\ req = [c \in Clients |-> NoReq]
  /\ controls = 0
  /\ pc = [w \in Workers |-> "down"]
  /\ cur = [w \in Workers |-> 0]
  /\ cand = [w \in Workers |-> {}]
  /\ tok = [w \in Workers |-> "no"]
  /\ res = [w \in Workers |-> "none"]
  /\ rec = [w \in Workers |-> [t \in Reconcilers |-> NoSight]]
  /\ faults = 0
  /\ cluster = [a \in Apps |-> "absent"]
  /\ runs = [id \in Ids |-> 0]
  /\ okRuns = {}

-----------------------------------------------------------------------------
(* The API's handlers.                                                     *)

Open(c, r) ==
  /\ req[c].act = "none"
  /\ req' = [req EXCEPT ![c] = r]

Close(c) == req' = [req EXCEPT ![c] = NoReq]

\* install, update, delete and restart requests: no check of other operations.
BeginEnqueue(c, a, k) ==
  /\ nextId <= MaxOps
  /\ Open(c, [act |-> "enqueue", id |-> nextId,
              job |-> [app |-> a, kind |-> k, of |-> 0]])
  /\ nextId' = nextId + 1
  /\ UNCHANGED <<dbVars, controls, workerVars, worldVars>>

\* A VPN change or a wizard install: refused while the app has an active operation.
BeginExclusiveEnqueue(c, a, k) ==
  /\ k \in {"install", "update"}
  /\ ~Busy(a)
  /\ BeginEnqueue(c, a, k)

\* Insert the row and point app_states at it, in one transaction.
InsertQueued(id, j) ==
  /\ job' = [job EXCEPT ![id] = j]
  /\ appState' = [appState EXCEPT ![j.app] =
       [desired |-> DesiredFor(j.kind), observed |-> QueuedAs(j.kind), last |-> id]]

CommitEnqueue(c) ==
  /\ req[c].act = "enqueue"
  /\ InsertQueued(req[c].id, req[c].job)
  /\ status' = [status EXCEPT ![req[c].id] = "queued"]
  /\ Close(c)
  /\ UNCHANGED <<stopReq, fresh, outbox, sent, audits, nextId, controls, workerVars, worldVars>>

BeginRetry(c, id) ==
  /\ controls < MaxControls
  /\ nextId <= MaxOps
  /\ status[id] = "failed"
  /\ ~Busy(job[id].app)
  /\ Open(c, [act |-> "retry", id |-> nextId,
              job |-> [job[id] EXCEPT !.of = id]])
  /\ nextId' = nextId + 1
  /\ controls' = controls + 1
  /\ UNCHANGED <<dbVars, workerVars, worldVars>>

\* Mutant of CommitRetry: the original's status is not checked again.
CommitRetryUnchecked(c) ==
  /\ req[c].act = "retry"
  /\ status' = [status EXCEPT ![req[c].job.of] = "retried", ![req[c].id] = "queued"]
  /\ InsertQueued(req[c].id, req[c].job)
  /\ Close(c)
  /\ UNCHANGED <<stopReq, fresh, outbox, sent, audits, nextId, controls, workerVars, worldVars>>

CommitRetry(c) ==
  LET original == req[c].job.of
      id == req[c].id
  IN /\ req[c].act = "retry"
     /\ status[original] = "failed"
     /\ status' = [status EXCEPT ![original] = "retried", ![id] = "queued"]
     /\ InsertQueued(id, req[c].job)
     /\ Close(c)
     /\ UNCHANGED <<stopReq, fresh, outbox, sent, audits, nextId, controls,
                    workerVars, worldVars>>

\* pause, resume or cancel. A cancel that reads the row as running becomes a stop
\* request, whatever the row is by the time it is written. On a finished row a control
\* changes nothing.
BeginControl(c, id, action) ==
  /\ controls < MaxControls
  /\ status[id] \in Active
  /\ Open(c, [act |-> IF action = "cancel" /\ status[id] = "running" THEN "stop" ELSE action,
              id |-> id, job |-> job[id]])
  /\ controls' = controls + 1
  /\ UNCHANGED <<dbVars, nextId, workerVars, worldVars>>

\* The statuses a control may start from, and the one it leads to.
ControlFrom(action) ==
  CASE action = "pause"  -> {"queued"}
    [] action = "resume" -> {"paused"}
    [] action = "cancel" -> {"queued", "paused"}
    [] OTHER             -> {}

ControlTo(action) ==
  CASE action = "pause"  -> "paused"
    [] action = "resume" -> "queued"
    [] OTHER             -> "cancelled"

CommitStop(c) ==
  LET id == req[c].id
  IN /\ req[c].act = "stop"
     /\ status[id] = "running" /\ ~stopReq[id]
     /\ stopReq' = [stopReq EXCEPT ![id] = TRUE]
     /\ fresh' = [fresh EXCEPT ![id] = TRUE]
     /\ Close(c)
     /\ UNCHANGED <<job, status, appState, outbox, sent, audits, nextId, controls,
                    workerVars, worldVars>>

CommitControl(c) ==
  LET id == req[c].id
  IN /\ req[c].act \in {"pause", "resume", "cancel"}
     /\ status[id] \in ControlFrom(req[c].act)
     /\ status' = [status EXCEPT ![id] = ControlTo(req[c].act)]
     /\ Close(c)
     /\ UNCHANGED <<job, stopReq, fresh, appState, outbox, sent, audits, nextId, controls,
                    workerVars, worldVars>>

\* The conditional update matched no row, or a statement failed: roll back.
Rollback(c) ==
  /\ req[c].act # "none"
  /\ Close(c)
  /\ UNCHANGED <<dbVars, nextId, controls, workerVars, worldVars>>

Request(c) ==
  \/ \E a \in Apps, k \in Kinds : BeginEnqueue(c, a, k) \/ BeginExclusiveEnqueue(c, a, k)
  \/ \E id \in Ids : BeginRetry(c, id)
  \/ \E id \in Ids, action \in {"pause", "resume", "cancel"} : BeginControl(c, id, action)
  \/ CommitEnqueue(c) \/ CommitRetry(c) \/ CommitStop(c) \/ CommitControl(c)
  \/ Rollback(c)

-----------------------------------------------------------------------------
(* The operation loop of a worker.                                         *)

Goto(w, l) == pc' = [pc EXCEPT ![w] = l]

\* A worker process comes up: its state is all in memory.
Restart(w) ==
  /\ pc[w] = "down"
  /\ Goto(w, "idle")
  /\ UNCHANGED <<dbVars, apiVars, cur, cand, tok, res, rec, faults, worldVars>>

\* Mutant of Tick: stale rows are not looked for.
TickWithoutRecovery(w) ==
  /\ pc[w] = "idle"
  /\ Goto(w, "recover")
  /\ UNCHANGED <<dbVars, apiVars, cur, cand, tok, res, rec, faults, worldVars>>

\* One tick of the loop begins with recover_stale_operations: read the stale rows.
Tick(w) ==
  /\ pc[w] = "idle"
  /\ cand' = [cand EXCEPT ![w] =
       {<<id, stopReq[id]>> : id \in {i \in Ids : status[i] = "running" /\ ~fresh[i]}}]
  /\ Goto(w, "recover")
  /\ UNCHANGED <<dbVars, apiVars, cur, tok, res, rec, faults, worldVars>>

\* Mutant of RecoverStaleOperation: a stale operation is queued again.
RequeueStaleOperation(w, c) ==
  LET id == c[1]
  IN /\ pc[w] = "recover" /\ c \in cand[w]
     /\ cand' = [cand EXCEPT ![w] = @ \ {c}]
     /\ status' = [status EXCEPT ![id] = IF @ = "running" /\ ~fresh[id] THEN "queued" ELSE @]
     /\ UNCHANGED <<job, stopReq, fresh, appState, outbox, sent, audits, apiVars,
                    pc, cur, tok, res, rec, faults, worldVars>>

\* Give each stale row a terminal status, unless it changed since it was read.
RecoverStaleOperation(w, c) ==
  LET id == c[1]
      stop == c[2]
  IN /\ pc[w] = "recover" /\ c \in cand[w]
     /\ cand' = [cand EXCEPT ![w] = @ \ {c}]
     /\ IF status[id] = "running" /\ stopReq[id] = stop /\ ~fresh[id]
        THEN /\ status' = [status EXCEPT ![id] = IF stop THEN "cancelled" ELSE "failed"]
             /\ outbox' = [outbox EXCEPT ![id] = "indeterminate"]
        ELSE UNCHANGED <<status, outbox>>
     /\ UNCHANGED <<job, stopReq, fresh, appState, sent, audits, apiVars,
                    pc, cur, tok, res, rec, faults, worldVars>>

Claimable(id) == status[id] = "queued" /\ ~stopReq[id]

\* Select the oldest operation that is waiting, if there is one.
ClaimNextOperation(w) ==
  /\ pc[w] = "recover" /\ cand[w] = {}
  /\ \/ \E id \in Ids :
          /\ Claimable(id)
          /\ \A i \in Ids : Claimable(i) => id <= i
          /\ cur' = [cur EXCEPT ![w] = id]
          /\ Goto(w, "claim")
     \/ /\ ~\E id \in Ids : Claimable(id)
        /\ Goto(w, "idle")
        /\ UNCHANGED cur
  /\ UNCHANGED <<dbVars, apiVars, cand, tok, res, rec, faults, worldVars>>

\* The conditional update that makes the operation this worker's, or leaves it.
ClaimOperation(w) ==
  /\ pc[w] = "claim"
  /\ IF Claimable(cur[w])
     THEN /\ status' = [status EXCEPT ![cur[w]] = "running"]
          /\ fresh' = [fresh EXCEPT ![cur[w]] = TRUE]
          /\ Goto(w, "start")
          /\ UNCHANGED cur
     ELSE /\ cur' = [cur EXCEPT ![w] = 0]
          /\ Goto(w, "idle")
          /\ UNCHANGED <<status, fresh>>
  /\ UNCHANGED <<job, stopReq, appState, outbox, sent, audits, apiVars,
                 cand, tok, res, rec, faults, worldVars>>

\* execute_operation returns before its first call that changes the cluster: the
\* stop token is set, or the queued request is no longer acceptable.
RejectOperation(w) ==
  /\ pc[w] = "start"
  /\ res' = [res EXCEPT ![w] = "err"]
  /\ Goto(w, "resolve")
  /\ UNCHANGED <<dbVars, apiVars, cur, cand, tok, rec, faults, worldVars>>

\* check_stop passed: start Helm, or delete the pods.
StartExternal(w) ==
  /\ pc[w] = "start" /\ tok[w] = "no"
  /\ runs' = [runs EXCEPT ![cur[w]] = @ + 1]
  /\ Goto(w, "helm")
  /\ UNCHANGED <<dbVars, apiVars, cur, cand, tok, res, rec, faults, cluster, okRuns>>

\* The effect of an operation on the namespace once its calls have run to the end:
\* Kubernetes deletes a namespace in the background.
Effect(id) ==
  LET before == cluster[job[id].app]
  IN CASE job[id].kind = "restart" -> before
       [] job[id].kind = "delete"  -> IF before = "absent" THEN before ELSE "terminating"
       [] OTHER                    -> "present"

\* The namespaces its calls can leave behind, finished or not. Nothing can be
\* installed into a namespace that is being deleted.
Aftermath(id) ==
  LET before == cluster[job[id].app]
  IN IF before = "terminating" THEN {before} ELSE {before, Effect(id)}

\* The external calls return: done, failed, or past their deadline with an unknown
\* outcome. A restart makes no Helm call, so it has no deadline.
EndExternal(w, r) ==
  LET id == cur[w]
  IN /\ pc[w] = "helm"
     /\ r = "indeterminate" => job[id].kind # "restart"
     /\ \E after \in Aftermath(id) :
          /\ r = "ok" => after = Effect(id)
          /\ cluster' = [cluster EXCEPT ![job[id].app] = after]
     /\ okRuns' = IF r = "ok" THEN okRuns \cup {id} ELSE okRuns
     /\ res' = [res EXCEPT ![w] = r]
     /\ Goto(w, "resolve")
     /\ UNCHANGED <<dbVars, apiVars, cur, cand, tok, rec, faults, runs>>

NamespaceGone(a) ==
  /\ cluster[a] = "terminating"
  /\ cluster' = [cluster EXCEPT ![a] = "absent"]
  /\ UNCHANGED <<dbVars, apiVars, workerVars, runs, okRuns>>

\* watch_stop polls the row: a requested stop sets the token.
WatchStop(w) ==
  /\ Executing(w) /\ tok[w] = "no" /\ stopReq[cur[w]]
  /\ tok' = [tok EXCEPT ![w] = "stop"]
  /\ UNCHANGED <<dbVars, apiVars, pc, cur, cand, res, rec, faults, worldVars>>

\* ... and so does a poll that fails.
WatchLoss(w) ==
  /\ Executing(w) /\ tok[w] = "no" /\ faults < MaxFaults
  /\ tok' = [tok EXCEPT ![w] = "lost"]
  /\ faults' = faults + 1
  /\ UNCHANGED <<dbVars, apiVars, pc, cur, cand, res, rec, worldVars>>

Heartbeat(w) ==
  /\ Executing(w) /\ status[cur[w]] = "running" /\ ~fresh[cur[w]]
  /\ fresh' = [fresh EXCEPT ![cur[w]] = TRUE]
  /\ UNCHANGED <<job, status, stopReq, appState, outbox, sent, audits, apiVars,
                 workerVars, worldVars>>

\* STALE_RUNNING_AFTER passes without a heartbeat: nobody executes the operation.
Age(id) ==
  /\ status[id] = "running" /\ fresh[id]
  /\ \A w \in Workers : Executing(w) => cur[w] # id
  /\ fresh' = [fresh EXCEPT ![id] = FALSE]
  /\ UNCHANGED <<job, status, stopReq, appState, outbox, sent, audits, apiVars,
                 workerVars, worldVars>>

\* ... or the worker that does is stalled, or cut off from the database, that long.
Stall(id) ==
  /\ status[id] = "running" /\ fresh[id] /\ faults < MaxFaults
  /\ \E w \in Workers : Executing(w) /\ cur[w] = id
  /\ fresh' = [fresh EXCEPT ![id] = FALSE]
  /\ faults' = faults + 1
  /\ UNCHANGED <<job, status, stopReq, appState, outbox, sent, audits, apiVars,
                 pc, cur, cand, tok, res, rec, worldVars>>

-----------------------------------------------------------------------------
(* Resolving an operation: process_next_operation after execute returned.  *)

\* Mutant of Resolve: a set token leaves the result as it is.
ResolveKeepingResult(w) ==
  /\ pc[w] = "resolve"
  /\ Goto(w, IF stopReq[cur[w]] THEN "stopping"
             ELSE IF tok[w] = "no" /\ res[w] = "ok" THEN "succeeding" ELSE "failing")
  /\ UNCHANGED <<dbVars, apiVars, cur, cand, tok, res, rec, faults, worldVars>>

\* Read the row for a stop request; the token as it was when execute returned
\* overrides the result.
Resolve(w) ==
  /\ pc[w] = "resolve"
  /\ Goto(w, IF stopReq[cur[w]] THEN "stopping"
             ELSE IF tok[w] = "no" /\ res[w] = "ok" THEN "succeeding" ELSE "failing")
  /\ res' = [res EXCEPT ![w] = IF tok[w] # "no" THEN "stopped" ELSE @]
  /\ UNCHANGED <<dbVars, apiVars, cur, cand, tok, rec, faults, worldVars>>

\* Mutant of FinishStopped: whatever became of the row, it is cancelled.
FinishStoppedAlways(w) ==
  /\ pc[w] = "stopping"
  /\ status' = [status EXCEPT ![cur[w]] = "cancelled"]
  /\ outbox' = [outbox EXCEPT ![cur[w]] = "indeterminate"]
  /\ Goto(w, "deliver")
  /\ UNCHANGED <<job, stopReq, fresh, appState, sent, audits, apiVars,
                 cur, cand, tok, res, rec, faults, worldVars>>

\* finish_stopped: cancel the operation if a stop was requested and it still runs.
FinishStopped(w) ==
  LET id == cur[w]
  IN /\ pc[w] = "stopping"
     /\ IF status[id] = "running" /\ stopReq[id]
        THEN /\ status' = [status EXCEPT ![id] = "cancelled"]
             /\ outbox' = [outbox EXCEPT ![id] = "indeterminate"]
        ELSE UNCHANGED <<status, outbox>>
     /\ Goto(w, "deliver")
     /\ UNCHANGED <<job, stopReq, fresh, appState, sent, audits, apiVars,
                    cur, cand, tok, res, rec, faults, worldVars>>

\* The terminal status and the audit outcome an operation is finished with.
Verdict(w) == IF pc[w] = "succeeding" THEN "succeeded" ELSE "failed"
\* Mutants of Outcome: a lost token is a plain failure, or is called a cancellation.
OutcomeByVerdict(w) == Verdict(w)
OutcomeAsStatus(w) == IF status[cur[w]] = "running" /\ res[w] = "err" THEN "cancelled" ELSE Verdict(w)

Outcome(w) == IF res[w] \in {"indeterminate", "stopped"} THEN "indeterminate" ELSE Verdict(w)

\* Where the worker goes once its verdict is in: the state row is left alone by a
\* lost token and by a successful restart.
AfterVerdict(w) ==
  CASE res[w] = "stopped" -> "deliver"
    [] res[w] = "ok" /\ job[cur[w]].kind = "restart" -> "observe"
    [] OTHER -> "settle"

\* Mutant of FinishOperationIfUnstopped: only the status is checked.
FinishOperationIfRunning(w) ==
  LET id == cur[w]
  IN /\ pc[w] \in {"failing", "succeeding"}
     /\ IF status[id] = "running"
        THEN /\ status' = [status EXCEPT ![id] = Verdict(w)]
             /\ outbox' = [outbox EXCEPT ![id] = Outcome(w)]
             /\ Goto(w, AfterVerdict(w))
        ELSE /\ Goto(w, "stopping")
             /\ UNCHANGED <<status, outbox>>
     /\ UNCHANGED <<job, stopReq, fresh, appState, sent, audits, apiVars,
                    cur, cand, tok, res, rec, faults, worldVars>>

\* finish_operation_if_unstopped: a stop request that got in first wins.
FinishOperationIfUnstopped(w) ==
  LET id == cur[w]
  IN /\ pc[w] \in {"failing", "succeeding"}
     /\ IF status[id] = "running" /\ ~stopReq[id]
        THEN /\ status' = [status EXCEPT ![id] = Verdict(w)]
             /\ outbox' = [outbox EXCEPT ![id] = Outcome(w)]
             /\ Goto(w, AfterVerdict(w))
        ELSE /\ Goto(w, "stopping")
             /\ UNCHANGED <<status, outbox>>
     /\ UNCHANGED <<job, stopReq, fresh, appState, sent, audits, apiVars,
                    cur, cand, tok, res, rec, faults, worldVars>>

\* The row once the operation is resolved.
Resolved(row, id, ok) ==
  [row EXCEPT !.desired = DesiredFor(job[id].kind),
              !.observed = IF ~ok THEN "failed"
                           ELSE IF job[id].kind = "delete" THEN "not_installed" ELSE "installing"]

\* Mutants of Settle: the row is written whatever it is about, or made about this
\* operation.
SettleUnchecked(w) ==
  LET a == job[cur[w]].app
  IN /\ pc[w] = "settle"
     /\ appState' = [appState EXCEPT ![a] = Resolved(@, cur[w], res[w] = "ok")]
     /\ Goto(w, IF res[w] = "ok" THEN "observe" ELSE "deliver")
     /\ UNCHANGED <<job, status, stopReq, fresh, outbox, sent, audits, apiVars,
                    cur, cand, tok, res, rec, faults, worldVars>>

SettleOwningRow(w) ==
  LET a == job[cur[w]].app
  IN /\ pc[w] = "settle"
     /\ appState' = [appState EXCEPT ![a] =
          [Resolved(@, cur[w], res[w] = "ok") EXCEPT !.last = cur[w]]]
     /\ Goto(w, IF res[w] = "ok" THEN "observe" ELSE "deliver")
     /\ UNCHANGED <<job, status, stopReq, fresh, outbox, sent, audits, apiVars,
                    cur, cand, tok, res, rec, faults, worldVars>>

\* upsert_state on behalf of an operation: only while the row still is about it.
Settle(w) ==
  LET id == cur[w]
      a == job[id].app
  IN /\ pc[w] = "settle"
     /\ appState' = IF appState[a].last = id
                    THEN [appState EXCEPT ![a] = Resolved(@, id, res[w] = "ok")]
                    ELSE appState
     /\ Goto(w, IF res[w] = "ok" THEN "observe" ELSE "deliver")
     /\ UNCHANGED <<job, status, stopReq, fresh, outbox, sent, audits, apiVars,
                    cur, cand, tok, res, rec, faults, worldVars>>

\* Mutant of DeliverAudit: it does not matter whether the outbox row is processed.
DeliverAuditAgain(id) ==
  /\ outbox[id] # "none"
  /\ sent' = [sent EXCEPT ![id] = TRUE]
  /\ audits' = [audits EXCEPT ![id] = @ + 1]
  /\ UNCHANGED <<job, status, stopReq, fresh, appState, outbox>>

\* deliver_audit: the audit row and the acknowledgement of the outbox row commit
\* together, under the claim of the outbox row.
DeliverAudit(id) ==
  /\ outbox[id] # "none" /\ ~sent[id]
  /\ sent' = [sent EXCEPT ![id] = TRUE]
  /\ audits' = [audits EXCEPT ![id] = @ + 1]
  /\ UNCHANGED <<job, status, stopReq, fresh, appState, outbox>>

\* Forget the operation and wait for the next tick.
Release(w) ==
  /\ Goto(w, "idle")
  /\ cur' = [cur EXCEPT ![w] = 0]
  /\ tok' = [tok EXCEPT ![w] = "no"]
  /\ res' = [res EXCEPT ![w] = "none"]
  /\ cand' = [cand EXCEPT ![w] = {}]

FinishProcessing(w) ==
  /\ pc[w] = "deliver"
  /\ \/ DeliverAudit(cur[w])
     \/ (outbox[cur[w]] = "none" \/ sent[cur[w]]) /\ UNCHANGED dbVars
  /\ Release(w)
  /\ UNCHANGED <<apiVars, rec, faults, worldVars>>

\* Mutant of DrainAuditOutbox: a worker only delivers what it executed itself.
DrainOwnAuditOutbox(w, id) ==
  /\ pc[w] # "down" /\ cur[w] = id
  /\ DeliverAudit(id)
  /\ UNCHANGED <<apiVars, workerVars, worldVars>>

\* drain_audit_outbox, which some live worker runs every five seconds.
DrainAuditOutbox(w, id) ==
  /\ pc[w] # "down"
  /\ DeliverAudit(id)
  /\ UNCHANGED <<apiVars, workerVars, worldVars>>

-----------------------------------------------------------------------------
(* reconcile_app: look at the cluster, then record what was seen. It is the *)
(* last part of a successful operation, and a loop of its own.              *)

\* The position of a reconciler, and the step out of it.
At(w, t, l) ==
  IF t = "finish" THEN pc[w] = l
  ELSE pc[w] # "down" /\ (l = "observe") = (rec[w][t] = NoSight)

Advance(w, t, l) == IF t = "finish" THEN Goto(w, l) ELSE UNCHANGED pc

ReconcileObserve(w, t, a, sees) ==
  /\ At(w, t, "observe")
  /\ t = "finish" => a = job[cur[w]].app
  /\ rec' = [rec EXCEPT ![w][t] = [app |-> a, sees |-> sees]]
  /\ Advance(w, t, "record")
  /\ UNCHANGED <<dbVars, apiVars, cur, cand, tok, res, worldVars>>

ReconcileSeen(w, t, a) ==
  /\ \E sees \in Visible(a) : ReconcileObserve(w, t, a, sees)
  /\ UNCHANGED faults

\* A failed request for the namespace counts as no namespace.
ReconcileBlind(w, t, a) ==
  /\ faults < MaxFaults /\ cluster[a] # "absent"
  /\ ReconcileObserve(w, t, a, "not_installed")
  /\ faults' = faults + 1

\* Mutant of Reconciled: only a missing row is filled in.
ReconciledFirst(row, sees) ==
  IF row.desired = "none"
  THEN [row EXCEPT !.observed = sees,
                   !.desired = IF sees = "not_installed" THEN "removed" ELSE "installed"]
  ELSE row

\* The row once a reconciler recorded what it saw: intent only for a first row.
Reconciled(row, sees) ==
  [row EXCEPT !.observed = sees,
              !.desired = IF @ # "none" THEN @
                          ELSE IF sees = "not_installed" THEN "removed" ELSE "installed"]

\* upsert_state on behalf of a reconciler.
ReconcileRecord(w, t) ==
  LET o == rec[w][t]
  IN /\ At(w, t, "record")
     /\ appState' = [appState EXCEPT ![o.app] = Reconciled(@, o.sees)]
     /\ rec' = [rec EXCEPT ![w][t] = NoSight]
     /\ Advance(w, t, "deliver")
     /\ UNCHANGED <<job, status, stopReq, fresh, outbox, sent, audits, apiVars,
                    cur, cand, tok, res, faults, worldVars>>

-----------------------------------------------------------------------------
(* Failures.                                                               *)

\* A database call of the operation loop fails. Before the verdict the error ends
\* the tick and leaves a claimed operation running; after it, it is only logged.
FailedCall(w) ==
  /\ faults < MaxFaults
  /\ faults' = faults + 1
  /\ \/ /\ pc[w] \in {"recover", "claim", "start", "resolve", "stopping", "failing",
                       "succeeding", "deliver"}
        /\ Release(w)
     \/ /\ pc[w] = "settle"
        /\ Goto(w, IF res[w] = "ok" THEN "observe" ELSE "deliver")
        /\ UNCHANGED <<cur, cand, tok, res>>
  /\ UNCHANGED <<dbVars, apiVars, rec, worldVars>>

FailedReconcile(w, t) ==
  /\ faults < MaxFaults
  /\ faults' = faults + 1
  /\ (t = "finish" /\ At(w, t, "observe")) \/ At(w, t, "record")
  /\ rec' = [rec EXCEPT ![w][t] = NoSight]
  /\ Advance(w, t, "deliver")
  /\ UNCHANGED <<dbVars, apiVars, cur, cand, tok, res, worldVars>>

\* The process dies. A Helm call it had started may have taken effect.
Crash(w) ==
  /\ pc[w] # "down" /\ faults < MaxFaults
  /\ faults' = faults + 1
  /\ pc' = [pc EXCEPT ![w] = "down"]
  /\ cur' = [cur EXCEPT ![w] = 0]
  /\ tok' = [tok EXCEPT ![w] = "no"]
  /\ res' = [res EXCEPT ![w] = "none"]
  /\ cand' = [cand EXCEPT ![w] = {}]
  /\ rec' = [rec EXCEPT ![w] = [t \in Reconcilers |-> NoSight]]
  /\ IF pc[w] = "helm"
     THEN \E after \in Aftermath(cur[w]) :
            cluster' = [cluster EXCEPT ![job[cur[w]].app] = after]
     ELSE UNCHANGED cluster
  /\ UNCHANGED <<dbVars, apiVars, runs, okRuns>>

-----------------------------------------------------------------------------
(* The specification.                                                      *)

\* What the operation loop of a worker does next.
Process(w) ==
  \/ Tick(w) \/ ClaimNextOperation(w) \/ ClaimOperation(w)
  \/ \E c \in cand[w] : RecoverStaleOperation(w, c)
  \/ RejectOperation(w) \/ StartExternal(w)
  \/ \E r \in {"ok", "err", "indeterminate"} : EndExternal(w, r)
  \/ Resolve(w) \/ FinishStopped(w) \/ FinishOperationIfUnstopped(w) \/ Settle(w)
  \/ \E a \in Apps : ReconcileSeen(w, "finish", a)
  \/ ReconcileRecord(w, "finish")
  \/ FinishProcessing(w)

\* The tasks that run beside it.
ReconcileLoop(w, a) ==
  /\ w \in Loopers
  /\ ReconcileSeen(w, "loop", a) \/ ReconcileRecord(w, "loop")

Attend(w) == WatchStop(w) \/ Heartbeat(w) \/ \E id \in Ids : DrainAuditOutbox(w, id)

Fail(w) ==
  \/ WatchLoss(w) \/ FailedCall(w) \/ Crash(w)
  \/ \E t \in Reconcilers :
       /\ t = "loop" => w \in Loopers
       /\ FailedReconcile(w, t) \/ \E a \in Apps : ReconcileBlind(w, t, a)

World == (\E id \in Ids : Age(id) \/ Stall(id)) \/ (\E a \in Apps : NamespaceGone(a))

Next ==
  \/ \E c \in Clients : Request(c)
  \/ \E w \in Workers : Restart(w) \/ Process(w) \/ Attend(w) \/ Fail(w)
  \/ \E w \in Workers, a \in Apps : ReconcileLoop(w, a)
  \/ World

Spec == Init /\ [][Next]_vars

\* A worker's process is restarted by its Deployment; its loops run on timers; every
\* external call has a deadline; time passes. Nothing is assumed of the clients.
FairSpec ==
  /\ Spec
  /\ \A w \in Workers :
       /\ WF_vars(Restart(w) \/ Process(w))
       /\ WF_vars(\E id \in Ids : DrainAuditOutbox(w, id))
  /\ \A w \in Loopers :
       /\ \A a \in Apps : SF_vars(ReconcileSeen(w, "loop", a))
       /\ WF_vars(ReconcileRecord(w, "loop"))
  /\ WF_vars(\E id \in Ids : Age(id))

-----------------------------------------------------------------------------
(* Correctness.                                                            *)

\* Types of the variables.
TypeOK ==
  /\ job \in [Ids -> Jobs]
  /\ status \in [Ids -> Statuses]
  /\ stopReq \in [Ids -> BOOLEAN]
  /\ fresh \in [Ids -> BOOLEAN]
  /\ appState \in [Apps -> Rows]
  /\ outbox \in [Ids -> {"none", "succeeded", "failed", "indeterminate"}]
  /\ sent \in [Ids -> BOOLEAN]
  /\ audits \in [Ids -> Nat]
  /\ nextId \in 1..(MaxOps + 1)
  /\ req \in [Clients -> Reqs]
  /\ controls \in Nat
  /\ pc \in [Workers -> Pcs]
  /\ cur \in [Workers -> 0..MaxOps]
  /\ cand \in [Workers -> SUBSET (Ids \X BOOLEAN)]
  /\ tok \in [Workers -> {"no", "stop", "lost"}]
  /\ res \in [Workers -> Results]
  /\ rec \in [Workers -> [Reconcilers -> Sights]]
  /\ faults \in Nat
  /\ cluster \in [Apps -> Namespaces]
  /\ runs \in [Ids -> Nat]
  /\ okRuns \subseteq Ids

\* No operation's Helm or pod calls are ever started twice, whatever crashes, stalls
\* or recoveries happen ("never replay the operation", recover_stale_operations).
NeverReplayed == \A id \in Ids : runs[id] <= 1

\* Once a stop request is stored the operation can only end as cancelled: neither a
\* success that was already on its way nor a recovery that read the row before the
\* request may overrule it.
StopLeadsToCancel == \A id \in Ids : stopReq[id] => status[id] \in {"running", "cancelled"}

\* An outcome is queued for the audit log exactly when a worker took the operation out
\* of running, and it agrees with the status the operation was given.
OutcomeMatchesStatus ==
  \A id \in Ids :
    CASE outbox[id] = "none"      -> status[id] \in {"absent", "queued", "paused", "running"}
                                     \/ (status[id] = "cancelled" /\ ~stopReq[id])
      [] outbox[id] = "succeeded" -> status[id] = "succeeded"
      [] outbox[id] = "failed"    -> status[id] \in {"failed", "retried"}
      [] OTHER -> status[id] \in {"failed", "retried"} \/ (status[id] = "cancelled" /\ stopReq[id])

\* A success is only audited for external calls that returned without error, and a
\* definite failure never for such; everything else is "indeterminate".
OutcomeIsHonest ==
  \A id \in Ids : /\ outbox[id] = "succeeded" => id \in okRuns
                  /\ outbox[id] = "failed" => id \notin okRuns

\* A failed operation is retried at most once, and marked as retried exactly when the
\* operation that retries it exists.
RetriedOnce ==
  \A id \in Ids :
    LET retries == {i \in Ids : status[i] # "absent" /\ job[i].of = id}
    IN Cardinality(retries) = IF status[id] = "retried" THEN 1 ELSE 0

\* The app's row states the intent of the operation it names: no completion of an
\* older operation and no reconciliation replaces it.
DesiredFollowsLastOperation ==
  \A a \in Apps :
    LET last == appState[a].last
    IN last # 0 => /\ job[last].app = a
                   /\ appState[a].desired = DesiredFor(job[last].kind)

\* The row changes the operation it names only to one that is queued in that step.
NewerIntentKept ==
  [][\A a \in Apps : appState'[a].last # appState[a].last =>
       LET last == appState'[a].last
       IN last \in Ids /\ status[last] = "absent" /\ status'[last] = "queued"]_vars

\* Every operation that waits is claimed, and every claimed one gets a terminal status,
\* by the worker or by a recovery, unless a client pauses or cancels it.
OperationsEnd ==
  \A id \in Ids : status[id] \in {"queued", "running"} ~> status[id] \notin {"queued", "running"}

\* An outcome that was queued reaches the audit log.
AuditDelivered == \A id \in Ids : outbox[id] # "none" ~> audits[id] = 1

\* Once operations and failures have ceased, the row shows what the cluster holds.
ObservedConverges == <>[](\A a \in Apps : appState[a].observed \in Visible(a))

\* The queue keeps what OperationLifecycle promises of each operation, however its
\* workers, requests and failures interleave.
Lifecycle == INSTANCE OperationLifecycle
  WITH state <- status, stop <- stopReq, outcome <- outbox

LifecycleKept == Lifecycle!Spec

-----------------------------------------------------------------------------
(* The inductive invariant: why NeverReplayed and LifecycleKept hold.      *)

Started == {"running", "succeeded", "failed", "cancelled", "retried"}

\* A worker holds the operation it claimed from the claim to the end of the tick.
Holding(w) == pc[w] \notin {"down", "idle", "recover", "claim"}

\* An operation nobody claimed has left no trace.
UnclaimedInv ==
  \A id \in Ids : status[id] \notin Started =>
    runs[id] = 0 /\ ~stopReq[id] /\ outbox[id] = "none" /\ id \notin okRuns

\* Ids are used once: those not handed out, or still in an open request, have no row.
FreshIdsInv ==
  /\ \A id \in Ids : id >= nextId => status[id] = "absent"
  /\ \A c \in Clients : req[c].act \in {"enqueue", "retry"} =>
       req[c].id \in Ids /\ req[c].id < nextId /\ status[req[c].id] = "absent"
  /\ \A c, d \in Clients :
       req[c].act \in {"enqueue", "retry"} /\ req[d].act \in {"enqueue", "retry"}
         /\ req[c].id = req[d].id => c = d
  /\ \A c \in Clients : req[c].act # "none" => req[c].id \in Ids
  /\ \A c \in Clients : req[c].act = "retry" => req[c].job.of \in Ids

\* No two workers hold the same operation, and one that is about to make the external
\* calls is the first to.
HoldingInv ==
  /\ \A w \in Workers : pc[w] = "claim" => cur[w] \in Ids
  /\ \A w \in Workers : Holding(w) => cur[w] \in Ids /\ status[cur[w]] \in Started
  /\ \A v, w \in Workers : Holding(v) /\ Holding(w) /\ cur[v] = cur[w] => v = w
  /\ \A w \in Workers : pc[w] = "start" => runs[cur[w]] = 0

\* What a worker remembers of the external calls is what happened.
ResultInv ==
  /\ \A id \in okRuns : runs[id] = 1
  /\ \A w \in Workers :
       /\ pc[w] \in {"start", "helm"} =>
            cur[w] \notin okRuns /\ outbox[cur[w]] \in {"none", "indeterminate"}
       /\ pc[w] = "helm" => runs[cur[w]] = 1
       /\ pc[w] \in {"resolve", "failing", "succeeding"} =>
            (res[w] = "ok" => cur[w] \in okRuns) /\ (res[w] = "err" => cur[w] \notin okRuns)
       /\ pc[w] = "resolve" => res[w] # "none"
       /\ pc[w] = "succeeding" => res[w] = "ok"
       /\ pc[w] = "failing" => res[w] \in {"err", "indeterminate", "stopped"}

\* An audit row is written with the acknowledgement of the outbox row.
AuditInv ==
  \A id \in Ids : /\ audits[id] = IF sent[id] THEN 1 ELSE 0
                  /\ outbox[id] = "none" => ~sent[id]

\* The inductive invariant of the operation queue.
IndInv ==
  /\ TypeOK
  /\ UnclaimedInv
  /\ FreshIdsInv
  /\ HoldingInv
  /\ ResultInv
  /\ AuditInv
  /\ NeverReplayed
  /\ StopLeadsToCancel
  /\ OutcomeMatchesStatus
  /\ OutcomeIsHonest
=============================================================================
