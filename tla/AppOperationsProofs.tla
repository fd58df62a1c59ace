------------------------ MODULE AppOperationsProofs ------------------------
(***************************************************************************)
(* Proofs about AppOperations, for every value of its constants: IndInv is *)
(* inductive, so the operation queue is type correct and its invariants    *)
(* hold; and it implements OperationLifecycle.                             *)
(*                                                                         *)
(* Typing comes first. It is not inductive alone: a worker's results can   *)
(* only be typed knowing that it holds an operation (HoldingInv).          *)
(***************************************************************************)
EXTENDS AppOperations, FiniteSetTheorems, TLAPS

\* The bounds are what TypeOK takes them for.
LEMMA ConstantTypes ==
  /\ AnyApp \in Apps
  /\ NoJob \in Jobs /\ NoReq \in Reqs /\ NoRow \in Rows /\ NoSight \in Sights
  /\ \A k \in AllKinds : DesiredFor(k) \in {"installed", "removed"} /\ QueuedAs(k) \in Observed
<1>1. AnyApp \in Apps
  BY AppsAssumption DEF AnyApp
<1> QED
  BY <1>1, BoundsAssumption DEF NoJob, Jobs, NoReq, Reqs, NoRow, Rows, NoSight, Sights,
     AllKinds, DesiredFor, QueuedAs, Observed

\* The initial state is well typed.
LEMMA InitTypes == Init => TypeOK
BY ConstantTypes, BoundsAssumption
   DEF Init, TypeOK, Ids, Statuses, Pcs, Results, Reconcilers, Namespaces

\* The handlers of the API keep every variable in its type.
LEMMA RequestTypes ==
  ASSUME TypeOK, NEW c \in Clients, Request(c)
  PROVE  TypeOK'
<1> USE BoundsAssumption, ConstantTypes
<1>1. ASSUME NEW a \in Apps, NEW k \in Kinds, BeginEnqueue(c, a, k) PROVE TypeOK'
  <2>1. req'[c] \in Reqs
    BY <1>1, KindsAssumption DEF TypeOK, BeginEnqueue, Open, Reqs, Jobs
  <2> QED
    BY <1>1, <2>1 DEF TypeOK, BeginEnqueue, Open, dbVars, workerVars, worldVars
<1>2. ASSUME NEW id \in Ids, BeginRetry(c, id) PROVE TypeOK'
  <2>1. /\ nextId \in 0..MaxOps /\ id \in 0..MaxOps
        /\ req'[c] = [act |-> "retry", id |-> nextId, job |-> [job[id] EXCEPT !.of = id]]
    BY <1>2 DEF TypeOK, BeginRetry, Open, Ids
  <2>2. job[id] \in Jobs
    BY DEF TypeOK
  <2>3. [job[id] EXCEPT !.of = id] \in Jobs
    BY <2>1, <2>2 DEF Jobs
  <2>4. req'[c] \in Reqs
    BY <2>1, <2>3 DEF Reqs
  <2> QED
    BY <1>2, <2>4 DEF TypeOK, BeginRetry, Open, dbVars, workerVars, worldVars
<1>3. ASSUME NEW id \in Ids, NEW action \in {"pause", "resume", "cancel"},
             BeginControl(c, id, action)
      PROVE  TypeOK'
  <2>1. job[id] \in Jobs /\ id \in 0..MaxOps
    BY DEF TypeOK, Ids
  <2>2. PICK act \in {"pause", "resume", "cancel", "stop"} :
          req' = [req EXCEPT ![c] = [act |-> act, id |-> id, job |-> job[id]]]
    BY <1>3 DEF BeginControl, Open
  <2>3. [act |-> act, id |-> id, job |-> job[id]] \in Reqs
    BY <2>1, <2>2 DEF Reqs
  <2>4. req'[c] \in Reqs
    BY <2>2, <2>3 DEF TypeOK
  <2> QED
    BY <1>3, <2>4 DEF TypeOK, BeginControl, Open, dbVars, workerVars, worldVars
<1>4. CASE CommitEnqueue(c)
  BY <1>4 DEF TypeOK, CommitEnqueue, InsertQueued, Close, Reqs, Jobs, Rows, Statuses,
     dbVars, workerVars, worldVars
<1>5. CASE CommitRetry(c)
  BY <1>5 DEF TypeOK, CommitRetry, InsertQueued, Close, Reqs, Jobs, Rows, Statuses,
     dbVars, workerVars, worldVars
<1>6. CASE CommitStop(c)
  BY <1>6 DEF TypeOK, CommitStop, Close, workerVars, worldVars
<1>7. CASE CommitControl(c)
  BY <1>7 DEF TypeOK, CommitControl, ControlTo, Statuses, Close, workerVars, worldVars
<1>8. CASE Rollback(c)
  BY <1>8 DEF TypeOK, Rollback, Close, dbVars, workerVars, worldVars
<1> QED
  BY <1>1, <1>2, <1>3, <1>4, <1>5, <1>6, <1>7, <1>8 DEF Request, BeginExclusiveEnqueue, TypeOK

\* A look at the cluster keeps the types.
LEMMA ObserveTypes ==
  ASSUME TypeOK, NEW w \in Workers, NEW t \in Reconcilers, NEW a \in Apps,
         NEW sees \in Observed, ReconcileObserve(w, t, a, sees), faults' \in Nat
  PROVE  TypeOK'
<1>1. rec' \in [Workers -> [Reconcilers -> Sights]]
  <2>1. [app |-> a, sees |-> sees] \in Sights
    BY DEF Sights
  <2> QED
    BY <2>1 DEF TypeOK, ReconcileObserve
<1> QED
  BY <1>1 DEF TypeOK, ReconcileObserve, Advance, Goto, Pcs, dbVars, apiVars, worldVars

\* So does recording what was seen.
LEMMA RecordTypes ==
  ASSUME TypeOK, NEW w \in Workers, NEW t \in Reconcilers, ReconcileRecord(w, t)
  PROVE  TypeOK'
<1> DEFINE o == rec[w][t]
<1>1. o \in Sights /\ o.app \in Apps /\ o.sees \in Observed
  BY DEF TypeOK, Sights
<1>2. appState' \in [Apps -> Rows]
  <2>1. Reconciled(appState[o.app], o.sees) \in Rows
    <3>1. appState[o.app] \in Rows
      BY <1>1 DEF TypeOK
    <3>2. PICK desired \in {"none", "installed", "removed"} :
            Reconciled(appState[o.app], o.sees)
              = [appState[o.app] EXCEPT !.observed = o.sees, !.desired = desired]
      BY <3>1 DEF Reconciled, Rows
    <3> QED
      BY <1>1, <3>1, <3>2 DEF Rows
  <2> QED
    BY <1>1, <2>1 DEF TypeOK, ReconcileRecord
<1>3. rec' \in [Workers -> [Reconcilers -> Sights]]
  BY ConstantTypes DEF TypeOK, ReconcileRecord
<1> QED
  BY <1>2, <1>3 DEF TypeOK, ReconcileRecord, Advance, Goto, Pcs, apiVars, worldVars

\* The operation loop keeps the types.
LEMMA ProcessTypes ==
  ASSUME TypeOK, HoldingInv, NEW w \in Workers, Process(w)
  PROVE  TypeOK'
<1> USE BoundsAssumption
<1>h. pc[w] \notin {"down", "idle", "recover"} => cur[w] \in Ids /\ job[cur[w]] \in Jobs
  BY DEF TypeOK, HoldingInv, Holding
<1>1. CASE Tick(w)
  <2>1. cand'[w] \in SUBSET (Ids \X BOOLEAN)
    BY <1>1 DEF TypeOK, Tick
  <2> QED
    BY <1>1, <2>1 DEF TypeOK, Tick, Goto, Pcs, dbVars, apiVars, worldVars
<1>2. CASE ClaimNextOperation(w)
  <2>1. \E id \in 0..MaxOps : cur' = [cur EXCEPT ![w] = id]
    <3>1. cur = [cur EXCEPT ![w] = cur[w]] /\ cur[w] \in 0..MaxOps
      BY DEF TypeOK
    <3>2. Ids \subseteq 0..MaxOps
      BY DEF Ids
    <3> QED
      BY <1>2, <3>1, <3>2 DEF ClaimNextOperation
  <2>2. pc' \in [Workers -> Pcs]
    BY <1>2 DEF TypeOK, ClaimNextOperation, Goto, Pcs
  <2> QED
    BY <1>2, <2>1, <2>2 DEF TypeOK, ClaimNextOperation, dbVars, apiVars, worldVars
<1>3. CASE ClaimOperation(w)
  <2>1. cur[w] \in Ids
    BY <1>3, <1>h DEF ClaimOperation
  <2>2. status' \in [Ids -> Statuses] /\ fresh' \in [Ids -> BOOLEAN]
    BY <1>3, <2>1 DEF TypeOK, ClaimOperation, Statuses
  <2>3. cur' \in [Workers -> 0..MaxOps]
    <3>1. 0 \in 0..MaxOps
      OBVIOUS
    <3> QED
      BY <1>3, <3>1 DEF TypeOK, ClaimOperation
  <2>4. pc' \in [Workers -> Pcs]
    <3>1. pc' = [pc EXCEPT ![w] = "start"] \/ pc' = [pc EXCEPT ![w] = "idle"]
      BY <1>3 DEF ClaimOperation, Goto
    <3> QED
      BY <3>1 DEF TypeOK, Pcs
  <2> QED
    BY <1>3, <2>2, <2>3, <2>4 DEF TypeOK, ClaimOperation, apiVars, worldVars
<1>4. ASSUME NEW c \in cand[w], RecoverStaleOperation(w, c) PROVE TypeOK'
  BY <1>4 DEF TypeOK, RecoverStaleOperation, Statuses, apiVars, worldVars
<1>5. CASE RejectOperation(w)
  BY <1>5 DEF TypeOK, RejectOperation, Goto, Pcs, Results, dbVars, apiVars, worldVars
<1>6. CASE StartExternal(w)
  <2>1. cur[w] \in Ids
    BY <1>6, <1>h DEF StartExternal
  <2> QED
    BY <1>6, <2>1 DEF TypeOK, StartExternal, Goto, Pcs, dbVars, apiVars
<1>7. ASSUME NEW r \in {"ok", "err", "indeterminate"}, EndExternal(w, r) PROVE TypeOK'
  <2>1. cur[w] \in Ids /\ job[cur[w]].app \in Apps
    BY <1>7, <1>h DEF EndExternal, Jobs
  <2>2. Aftermath(cur[w]) \subseteq Namespaces
    BY <2>1 DEF TypeOK, Aftermath, Effect, Namespaces
  <2>3. cluster' \in [Apps -> Namespaces] /\ okRuns' \subseteq Ids
    BY <1>7, <2>1, <2>2 DEF TypeOK, EndExternal
  <2> QED
    BY <1>7, <2>3 DEF TypeOK, EndExternal, Goto, Pcs, Results, dbVars, apiVars
<1>8. CASE Resolve(w)
  BY <1>8 DEF TypeOK, Resolve, Goto, Pcs, Results, dbVars, apiVars, worldVars
<1>9. CASE FinishStopped(w)
  BY <1>9 DEF TypeOK, FinishStopped, Goto, Pcs, Statuses, apiVars, worldVars
<1>10. CASE FinishOperationIfUnstopped(w)
  <2>1. Verdict(w) \in {"succeeded", "failed"}
    BY DEF Verdict
  <2>2. Outcome(w) \in {"succeeded", "failed", "indeterminate"}
    BY <2>1 DEF Outcome
  <2>3. AfterVerdict(w) \in {"deliver", "observe", "settle"}
    BY DEF AfterVerdict
  <2>4. /\ status \in [Ids -> Statuses] /\ pc \in [Workers -> Pcs]
        /\ outbox \in [Ids -> {"none", "succeeded", "failed", "indeterminate"}]
    BY DEF TypeOK
  <2>5. CASE UNCHANGED <<status, outbox>> /\ pc' = [pc EXCEPT ![w] = "stopping"]
    <3>1. pc' \in [Workers -> Pcs]
      BY <2>4, <2>5 DEF Pcs
    <3> QED
      BY <1>10, <2>4, <2>5, <3>1 DEF TypeOK, FinishOperationIfUnstopped, apiVars, worldVars
  <2>6. CASE /\ status' = [status EXCEPT ![cur[w]] = Verdict(w)]
             /\ outbox' = [outbox EXCEPT ![cur[w]] = Outcome(w)]
             /\ pc' = [pc EXCEPT ![w] = AfterVerdict(w)]
    <3>1. pc' \in [Workers -> Pcs]
      BY <2>3, <2>4, <2>6 DEF Pcs
    <3>2. status' \in [Ids -> Statuses]
      BY <2>1, <2>4, <2>6 DEF Statuses
    <3>3. outbox' \in [Ids -> {"none", "succeeded", "failed", "indeterminate"}]
      BY <2>2, <2>4, <2>6
    <3> QED
      BY <1>10, <3>1, <3>2, <3>3 DEF TypeOK, FinishOperationIfUnstopped, apiVars, worldVars
  <2> QED
    BY <1>10, <2>5, <2>6 DEF FinishOperationIfUnstopped, Goto
<1>11. CASE Settle(w)
  <2>1. job[cur[w]].app \in Apps /\ DesiredFor(job[cur[w]].kind) \in {"installed", "removed"}
    BY <1>11, <1>h, ConstantTypes DEF Settle, Jobs
  <2>2. Resolved(appState[job[cur[w]].app], cur[w], res[w] = "ok") \in Rows
    <3>1. appState[job[cur[w]].app] \in Rows
      BY <2>1 DEF TypeOK
    <3>2. CASE res[w] # "ok"
      BY <2>1, <3>1, <3>2 DEF Resolved, Rows, Observed
    <3>3. CASE res[w] = "ok" /\ job[cur[w]].kind = "delete"
      BY <2>1, <3>1, <3>3 DEF Resolved, Rows, Observed
    <3>4. CASE res[w] = "ok" /\ job[cur[w]].kind # "delete"
      BY <2>1, <3>1, <3>4 DEF Resolved, Rows, Observed
    <3> QED
      BY <3>2, <3>3, <3>4
  <2>3. appState' \in [Apps -> Rows]
    BY <1>11, <2>1, <2>2 DEF TypeOK, Settle
  <2> QED
    BY <1>11, <2>3 DEF TypeOK, Settle, Goto, Pcs, apiVars, worldVars
<1>12. ASSUME NEW a \in Apps, ReconcileSeen(w, "finish", a) PROVE TypeOK'
  BY <1>12, ObserveTypes DEF TypeOK, ReconcileSeen, Visible, Observed, Reconcilers
<1>13. CASE ReconcileRecord(w, "finish")
  BY <1>13, RecordTypes DEF Reconcilers
<1>14. CASE FinishProcessing(w)
  <2>1. cur[w] \in Ids
    BY <1>14, <1>h DEF FinishProcessing
  <2>2. sent' \in [Ids -> BOOLEAN] /\ audits' \in [Ids -> Nat]
    <3>1. CASE DeliverAudit(cur[w])
      BY <2>1, <3>1 DEF TypeOK, DeliverAudit
    <3>2. CASE UNCHANGED dbVars
      BY <3>2 DEF TypeOK, dbVars
    <3> QED
      BY <1>14, <3>1, <3>2 DEF FinishProcessing
  <2>3. UNCHANGED <<job, status, stopReq, fresh, appState, outbox>>
    BY <1>14 DEF FinishProcessing, DeliverAudit, dbVars
  <2> QED
    BY <1>14, <2>2, <2>3 DEF TypeOK, FinishProcessing, Release, Goto, Pcs, Results,
       apiVars, worldVars
<1> QED
  BY <1>1, <1>2, <1>3, <1>4, <1>5, <1>6, <1>7, <1>8, <1>9, <1>10, <1>11, <1>12, <1>13, <1>14
  DEF Process

\* The tasks beside the loop keep the types.
LEMMA TaskTypes ==
  ASSUME TypeOK, HoldingInv, NEW w \in Workers,
         Restart(w) \/ Attend(w) \/ \E a \in Apps : ReconcileLoop(w, a)
  PROVE  TypeOK'
<1>h. Executing(w) => cur[w] \in Ids
  BY DEF TypeOK, HoldingInv, Holding, Executing
<1>1. CASE Restart(w)
  BY <1>1 DEF TypeOK, Restart, Goto, Pcs, dbVars, apiVars, worldVars
<1>2. CASE WatchStop(w)
  BY <1>2 DEF TypeOK, WatchStop, dbVars, apiVars, worldVars
<1>3. CASE Heartbeat(w)
  BY <1>3 DEF TypeOK, Heartbeat, apiVars, workerVars, worldVars
<1>4. ASSUME NEW id \in Ids, DrainAuditOutbox(w, id) PROVE TypeOK'
  BY <1>4 DEF TypeOK, DrainAuditOutbox, DeliverAudit, apiVars, workerVars, worldVars
<1>5. ASSUME NEW a \in Apps, ReconcileSeen(w, "loop", a) PROVE TypeOK'
  BY <1>5, ObserveTypes DEF TypeOK, ReconcileSeen, Visible, Observed, Reconcilers
<1>6. CASE ReconcileRecord(w, "loop")
  BY <1>6, RecordTypes DEF Reconcilers
<1> QED
  BY <1>1, <1>2, <1>3, <1>4, <1>5, <1>6 DEF Attend, ReconcileLoop

\* Crashes and failed calls keep the types.
LEMMA FailTypes ==
  ASSUME TypeOK, HoldingInv, NEW w \in Workers, Fail(w)
  PROVE  TypeOK'
<1>1. CASE WatchLoss(w)
  BY <1>1 DEF TypeOK, WatchLoss, dbVars, apiVars, worldVars
<1>2. CASE FailedCall(w)
  <2>1. CASE Release(w)
    BY <1>2, <2>1, BoundsAssumption DEF TypeOK, FailedCall, Release, Goto, Pcs, Results, dbVars,
       apiVars, worldVars
  <2>2. CASE Goto(w, IF res[w] = "ok" THEN "observe" ELSE "deliver")
              /\ UNCHANGED <<cur, cand, tok, res>>
    BY <1>2, <2>2 DEF TypeOK, FailedCall, Goto, Pcs, dbVars, apiVars, worldVars
  <2> QED
    BY <1>2, <2>1, <2>2 DEF FailedCall
<1>3. CASE Crash(w)
  <2>1. cluster' \in [Apps -> Namespaces]
    <3>1. CASE pc[w] = "helm"
      <4>1. cur[w] \in Ids /\ job[cur[w]].app \in Apps
        BY <3>1 DEF TypeOK, HoldingInv, Holding, Jobs
      <4>2. Aftermath(cur[w]) \subseteq Namespaces
        BY <4>1 DEF TypeOK, Aftermath, Effect, Namespaces
      <4> QED
        BY <1>3, <3>1, <4>1, <4>2 DEF TypeOK, Crash
    <3>2. CASE pc[w] # "helm"
      BY <1>3, <3>2 DEF TypeOK, Crash
    <3> QED
      BY <3>1, <3>2
  <2>2. rec' \in [Workers -> [Reconcilers -> Sights]]
    BY <1>3, ConstantTypes DEF TypeOK, Crash
  <2> QED
    BY <1>3, <2>1, <2>2, BoundsAssumption DEF TypeOK, Crash, Pcs, Results, dbVars, apiVars
<1>4. ASSUME NEW t \in Reconcilers, FailedReconcile(w, t) PROVE TypeOK'
  BY <1>4, ConstantTypes DEF TypeOK, FailedReconcile, Advance, Goto, Pcs, dbVars, apiVars, worldVars
<1>5. ASSUME NEW t \in Reconcilers, NEW a \in Apps, ReconcileBlind(w, t, a) PROVE TypeOK'
  BY <1>5, ObserveTypes DEF TypeOK, ReconcileBlind, Observed
<1> QED
  BY <1>1, <1>2, <1>3, <1>4, <1>5 DEF Fail

\* So do the steps of time and of the cluster.
LEMMA WorldTypes ==
  ASSUME TypeOK, World
  PROVE  TypeOK'
<1>1. ASSUME NEW id \in Ids, Age(id) PROVE TypeOK'
  BY <1>1 DEF TypeOK, Age, apiVars, workerVars, worldVars
<1>2. ASSUME NEW id \in Ids, Stall(id) PROVE TypeOK'
  BY <1>2 DEF TypeOK, Stall, apiVars, worldVars
<1>3. ASSUME NEW a \in Apps, NamespaceGone(a) PROVE TypeOK'
  BY <1>3 DEF TypeOK, NamespaceGone, Namespaces, dbVars, apiVars, workerVars
<1> QED
  BY <1>1, <1>2, <1>3 DEF World

-----------------------------------------------------------------------------
(* The other parts of IndInv.                                              *)

\* The parts of IndInv that are not typing.
SafeInv ==
  /\ UnclaimedInv /\ FreshIdsInv /\ HoldingInv /\ ResultInv /\ AuditInv
  /\ NeverReplayed /\ StopLeadsToCancel /\ OutcomeMatchesStatus /\ OutcomeIsHonest

\* All parts hold before anything happened.
LEMMA InitSafe == Init => SafeInv
BY DEF Init, SafeInv, UnclaimedInv, FreshIdsInv, HoldingInv, ResultInv, AuditInv,
   NeverReplayed, StopLeadsToCancel, OutcomeMatchesStatus, OutcomeIsHonest, Holding, Started, NoReq

\* Enqueue and retry: the id of the request goes from absent to queued; a retried
\* operation goes from failed to retried, which changes nothing the parts speak of.
LEMMA NewRowSafe ==
  ASSUME TypeOK, TypeOK', SafeInv, NEW c \in Clients, NEW id \in Ids,
         req[c].act \in {"enqueue", "retry"}, id = req[c].id,
         req' = [req EXCEPT ![c] = NoReq],
         status'[id] = "queued",
         \A i \in Ids \ {id} :
           status'[i] = status[i] \/ (status[i] = "failed" /\ status'[i] = "retried"),
         UNCHANGED <<stopReq, outbox, sent, audits, nextId, pc, cur, res, runs, okRuns>>
  PROVE  SafeInv'
<1>1. status[id] = "absent" /\ id < nextId
  BY DEF SafeInv, FreshIdsInv
<1>2. \A i \in Ids : status'[i] \in Started <=> status[i] \in Started
  BY <1>1 DEF Started
<1>3. FreshIdsInv'
  <2>1. \A d \in Clients : req'[d] = IF d = c THEN NoReq ELSE req[d]
    BY DEF TypeOK
  <2>2. \A d \in Clients : req'[d].act \in {"enqueue", "retry"} => d # c /\ req[d].id # id
    BY <2>1 DEF SafeInv, FreshIdsInv, NoReq
  <2>3. \A d \in Clients :
          req'[d].act \in {"enqueue", "retry"} => /\ req'[d] = req[d]
                                                 /\ status'[req[d].id] = "absent"
    BY <2>1, <2>2 DEF SafeInv, FreshIdsInv
  <2>4. \A i \in Ids : i >= nextId => status'[i] = "absent"
    <3> SUFFICES ASSUME NEW i \in Ids, i >= nextId PROVE status'[i] = "absent"
      OBVIOUS
    <3>1. i # id
      BY <1>1 DEF TypeOK, Ids
    <3>2. status[i] = "absent"
      BY DEF SafeInv, FreshIdsInv
    <3> QED
      BY <3>1, <3>2
  <2>5. \A d \in Clients : req'[d].act # "none" => req'[d] = req[d]
    BY <2>1 DEF NoReq
  <2>6. \A d \in Clients : /\ req'[d].act # "none" => req'[d].id \in Ids
                           /\ req'[d].act = "retry" => req'[d].job.of \in Ids
    BY <2>5 DEF SafeInv, FreshIdsInv
  <2> QED
    BY <2>2, <2>3, <2>4, <2>6 DEF SafeInv, FreshIdsInv
<1>4. UnclaimedInv'
  BY <1>2 DEF SafeInv, UnclaimedInv
<1>5. HoldingInv'
  BY <1>2 DEF SafeInv, HoldingInv, Holding
<1>6. ResultInv' /\ AuditInv' /\ NeverReplayed' /\ OutcomeIsHonest'
  BY DEF SafeInv, ResultInv, AuditInv, NeverReplayed, OutcomeIsHonest
<1>7. StopLeadsToCancel'
  BY <1>1 DEF SafeInv, StopLeadsToCancel, UnclaimedInv, Started
<1>8. OutcomeMatchesStatus'
  <2>1. SUFFICES ASSUME NEW i \in Ids
        PROVE CASE outbox[i] = "none"      -> status'[i] \in {"absent", "queued", "paused", "running"}
                                              \/ (status'[i] = "cancelled" /\ ~stopReq[i])
                [] outbox[i] = "succeeded" -> status'[i] = "succeeded"
                [] outbox[i] = "failed"    -> status'[i] \in {"failed", "retried"}
                [] OTHER -> status'[i] \in {"failed", "retried"}
                            \/ (status'[i] = "cancelled" /\ stopReq[i])
    BY DEF OutcomeMatchesStatus
  <2>2. CASE i = id
    BY <2>2, <1>1 DEF SafeInv, UnclaimedInv, Started
  <2>3. CASE i # id
    BY <2>3 DEF SafeInv, OutcomeMatchesStatus
  <2> QED
    BY <2>2, <2>3
<1> QED
  BY <1>3, <1>4, <1>5, <1>6, <1>7, <1>8 DEF SafeInv

\* No request of a client breaks a part: those that touch a row look at its status first.
LEMMA RequestSafe ==
  ASSUME TypeOK, TypeOK', SafeInv, NEW c \in Clients, Request(c)
  PROVE  SafeInv'
<1> USE DEF SafeInv, UnclaimedInv, FreshIdsInv, HoldingInv, ResultInv, AuditInv,
   NeverReplayed, StopLeadsToCancel, OutcomeMatchesStatus, OutcomeIsHonest, Holding, Started
<1>1. ASSUME NEW a \in Apps, NEW k \in Kinds, BeginEnqueue(c, a, k) PROVE SafeInv'
    BY <1>1 DEF TypeOK, Ids, BeginEnqueue, Open, dbVars, workerVars, worldVars
<1>2. ASSUME NEW id \in Ids, BeginRetry(c, id) PROVE SafeInv'
    BY <1>2 DEF TypeOK, Ids, BeginRetry, Open, dbVars, workerVars, worldVars
<1>3. ASSUME NEW id \in Ids, NEW action \in {"pause", "resume", "cancel"},
             BeginControl(c, id, action)
      PROVE  SafeInv'
    BY <1>3 DEF TypeOK, BeginControl, Open, dbVars, workerVars, worldVars
<1>4. CASE CommitEnqueue(c)
  <2>1. req[c].id \in Ids /\ status' = [status EXCEPT ![req[c].id] = "queued"]
    BY <1>4 DEF CommitEnqueue
  <2>2. /\ status'[req[c].id] = "queued"
        /\ \A i \in Ids \ {req[c].id} : status'[i] = status[i]
    BY <2>1 DEF TypeOK
  <2>3. /\ req[c].act \in {"enqueue", "retry"}
        /\ req' = [req EXCEPT ![c] = NoReq]
        /\ UNCHANGED <<stopReq, outbox, sent, audits, nextId, pc, cur, res, runs, okRuns>>
    BY <1>4 DEF CommitEnqueue, Close, workerVars, worldVars
  <2> HIDE DEF SafeInv
  <2> QED
    BY <2>1, <2>2, <2>3, NewRowSafe
<1>5. CASE CommitRetry(c)
  <2> DEFINE original == req[c].job.of
  <2>1. /\ req[c].id \in Ids /\ original \in Ids /\ status[original] = "failed"
        /\ status' = [status EXCEPT ![original] = "retried", ![req[c].id] = "queued"]
    BY <1>5 DEF CommitRetry
  <2>2. /\ status'[req[c].id] = "queued"
        /\ \A i \in Ids \ {req[c].id} :
             status'[i] = status[i] \/ (status[i] = "failed" /\ status'[i] = "retried")
    BY <2>1 DEF TypeOK
  <2>3. /\ req[c].act \in {"enqueue", "retry"}
        /\ req' = [req EXCEPT ![c] = NoReq]
        /\ UNCHANGED <<stopReq, outbox, sent, audits, nextId, pc, cur, res, runs, okRuns>>
    BY <1>5 DEF CommitRetry, Close, workerVars, worldVars
  <2> HIDE DEF SafeInv
  <2> QED
    BY <2>1, <2>2, <2>3, NewRowSafe
<1>6. CASE CommitStop(c)
  BY <1>6 DEF TypeOK, CommitStop, Close, NoReq, workerVars, worldVars
<1>7. CASE CommitControl(c)
  BY <1>7 DEF TypeOK, CommitControl, ControlFrom, ControlTo, Close, NoReq, workerVars, worldVars
<1>8. CASE Rollback(c)
  BY <1>8 DEF TypeOK, Rollback, Close, NoReq, dbVars, workerVars, worldVars
<1> QED
  BY <1>1, <1>2, <1>3, <1>4, <1>5, <1>6, <1>7, <1>8 DEF Request, BeginExclusiveEnqueue

\* A step that changes none of the state the parts speak of keeps them.
LEMMA QuietSafe ==
  ASSUME SafeInv,
         UNCHANGED <<status, stopReq, outbox, sent, audits, nextId, req, pc, cur, res, runs, okRuns>>
  PROVE  SafeInv'
BY DEF SafeInv, UnclaimedInv, FreshIdsInv, HoldingInv, Holding, ResultInv, AuditInv, NeverReplayed,
   StopLeadsToCancel, OutcomeMatchesStatus, OutcomeIsHonest

\* Steps of the operation loop that change no table but move the worker to a place
\* where nothing is owed: it lets go of its operation, or resolved it before.
LEMMA MoveSafe ==
  ASSUME TypeOK, TypeOK', SafeInv, NEW w \in Workers,
         \A v \in Workers \ {w} : pc'[v] = pc[v] /\ cur'[v] = cur[v] /\ res'[v] = res[v],
         pc'[w] \in {"down", "idle", "recover", "settle", "observe", "record", "deliver"},
         Holding(w)' => Holding(w) /\ cur'[w] = cur[w],
         UNCHANGED <<status, stopReq, outbox, nextId, req, runs, okRuns>>,
         AuditInv'
  PROVE  SafeInv'
<1>1. UnclaimedInv' /\ FreshIdsInv'
  BY DEF SafeInv, UnclaimedInv, FreshIdsInv
<1>2. HoldingInv'
  BY DEF SafeInv, HoldingInv, Holding
<1>3. ResultInv'
  BY DEF SafeInv, ResultInv
<1>4. NeverReplayed' /\ StopLeadsToCancel' /\ OutcomeMatchesStatus' /\ OutcomeIsHonest'
  BY DEF SafeInv, NeverReplayed, StopLeadsToCancel, OutcomeMatchesStatus, OutcomeIsHonest
<1> QED
  BY <1>1, <1>2, <1>3, <1>4 DEF SafeInv

\* Delivering an outcome keeps the parts: it only counts audits it acknowledges.
LEMMA DeliverSafe ==
  ASSUME TypeOK, SafeInv, NEW id \in Ids, DeliverAudit(id)
  PROVE  AuditInv'
BY DEF TypeOK, SafeInv, AuditInv, DeliverAudit

\* An operation leaves running, with a verdict that honours a requested stop and the
\* external calls: the parts about rows hold, and it stays among the started.
LEMMA EndSafe ==
  ASSUME TypeOK, SafeInv, NEW id \in Ids, NEW verdict, NEW outcome,
         status[id] = "running",
         status' = [status EXCEPT ![id] = verdict], outbox' = [outbox EXCEPT ![id] = outcome],
         IF stopReq[id] THEN verdict = "cancelled" /\ outcome = "indeterminate"
         ELSE \/ verdict = "failed" /\ outcome \in {"failed", "indeterminate"}
              \/ verdict = "succeeded" /\ outcome = "succeeded",
         outcome = "succeeded" => id \in okRuns,
         outcome = "failed" => id \notin okRuns,
         UNCHANGED <<stopReq, sent, audits, nextId, req, runs, okRuns>>
  PROVE  /\ UnclaimedInv' /\ FreshIdsInv' /\ AuditInv' /\ NeverReplayed'
         /\ StopLeadsToCancel' /\ OutcomeMatchesStatus' /\ OutcomeIsHonest'
         /\ \A i \in Ids : status'[i] \in Started <=> status[i] \in Started
<1>1. /\ status'[id] = verdict /\ \A i \in Ids \ {id} : status'[i] = status[i]
      /\ outbox'[id] = outcome /\ \A i \in Ids \ {id} : outbox'[i] = outbox[i]
  BY DEF TypeOK
<1>2. \A i \in Ids : status'[i] \in Started <=> status[i] \in Started
  BY <1>1 DEF Started
<1>3. UnclaimedInv'
  BY <1>1, <1>2 DEF SafeInv, UnclaimedInv, Started
<1>4. FreshIdsInv'
  <2>1. \A i \in Ids : status[i] = "absent" => status'[i] = "absent"
    BY <1>1
  <2> QED
    BY <2>1 DEF SafeInv, FreshIdsInv
<1>5. AuditInv' /\ NeverReplayed'
  BY <1>1 DEF SafeInv, AuditInv, NeverReplayed
<1>6. StopLeadsToCancel'
  BY <1>1 DEF SafeInv, StopLeadsToCancel
<1>7. OutcomeMatchesStatus'
  <2> SUFFICES ASSUME NEW i \in Ids
               PROVE CASE outbox'[i] = "none"      -> status'[i] \in {"absent", "queued", "paused", "running"}
                                                     \/ (status'[i] = "cancelled" /\ ~stopReq[i])
                       [] outbox'[i] = "succeeded" -> status'[i] = "succeeded"
                       [] outbox'[i] = "failed"    -> status'[i] \in {"failed", "retried"}
                       [] OTHER -> status'[i] \in {"failed", "retried"}
                                   \/ (status'[i] = "cancelled" /\ stopReq[i])
    BY DEF OutcomeMatchesStatus
  <2>1. CASE i = id
    BY <2>1, <1>1
  <2>2. CASE i # id
    BY <2>2, <1>1 DEF SafeInv, OutcomeMatchesStatus
  <2> QED
    BY <2>1, <2>2
<1>8. OutcomeIsHonest'
  BY <1>1 DEF SafeInv, OutcomeIsHonest
<1> QED
  BY <1>2, <1>3, <1>4, <1>5, <1>6, <1>7, <1>8

\* A worker that only goes on with its operation, or lets it go, holds what it held.
LEMMA HoldingKept ==
  ASSUME TypeOK, SafeInv, NEW w \in Workers,
         \A v \in Workers \ {w} : pc'[v] = pc[v] /\ cur'[v] = cur[v],
         Holding(w)' => Holding(w) /\ cur'[w] = cur[w],
         pc'[w] # "start",
         pc'[w] = "claim" => cur'[w] \in Ids,
         \A i \in Ids : status[i] \in Started => status'[i] \in Started,
         \A v \in Workers : pc'[v] = "start" => runs'[cur[v]] = runs[cur[v]]
  PROVE  HoldingInv'
<1>1. \A v \in Workers : Holding(v)' => Holding(v) /\ cur'[v] = cur[v]
  BY DEF Holding
<1>2. \A v \in Workers : pc'[v] = "start" => pc[v] = "start" /\ cur'[v] = cur[v]
  OBVIOUS
<1>3. \A v \in Workers : pc'[v] = "claim" => cur'[v] \in Ids
  BY DEF SafeInv, HoldingInv
<1> QED
  BY <1>1, <1>2, <1>3 DEF SafeInv, HoldingInv

\* A step of the operation loop of w is invisible to the other workers.
LEMMA OthersKept ==
  ASSUME TypeOK, NEW w \in Workers, Process(w)
  PROVE  \A v \in Workers \ {w} : pc'[v] = pc[v] /\ cur'[v] = cur[v] /\ res'[v] = res[v]
<1>t. pc \in [Workers -> Pcs] /\ cur \in [Workers -> 0..MaxOps] /\ res \in [Workers -> Results]
  BY DEF TypeOK
<1>1. CASE \/ Tick(w) \/ ClaimNextOperation(w) \/ ClaimOperation(w)
           \/ \E c \in cand[w] : RecoverStaleOperation(w, c)
  BY <1>t, <1>1 DEF Tick, ClaimNextOperation, ClaimOperation, RecoverStaleOperation, Goto
<1>2. CASE \/ RejectOperation(w) \/ StartExternal(w)
           \/ \E r \in {"ok", "err", "indeterminate"} : EndExternal(w, r)
  BY <1>t, <1>2 DEF RejectOperation, StartExternal, EndExternal, Goto
<1>3. CASE Resolve(w) \/ FinishStopped(w) \/ FinishOperationIfUnstopped(w) \/ Settle(w)
  BY <1>t, <1>3 DEF Resolve, FinishStopped, FinishOperationIfUnstopped, Settle, Goto
<1>4. CASE \/ \E a \in Apps : ReconcileSeen(w, "finish", a)
           \/ ReconcileRecord(w, "finish") \/ FinishProcessing(w)
  BY <1>t, <1>4 DEF ReconcileSeen, ReconcileObserve, ReconcileRecord, FinishProcessing, Release,
     Advance, Goto
<1> QED
  BY <1>1, <1>2, <1>3, <1>4 DEF Process

\* A claim makes the worker the only one that holds the operation.
LEMMA ClaimSafe ==
  ASSUME TypeOK, TypeOK', SafeInv, NEW w \in Workers, ClaimOperation(w),
         \A v \in Workers \ {w} : pc'[v] = pc[v] /\ cur'[v] = cur[v] /\ res'[v] = res[v]
  PROVE  SafeInv'
<1>1. cur[w] \in Ids
  BY DEF ClaimOperation, SafeInv, HoldingInv
<1>2. UNCHANGED <<stopReq, outbox, sent, audits, nextId, req, res, runs, okRuns>>
  BY DEF ClaimOperation, apiVars, worldVars
<1>3. CASE Claimable(cur[w])
  <2>1. /\ status'[cur[w]] = "running" /\ \A i \in Ids \ {cur[w]} : status'[i] = status[i]
        /\ pc'[w] = "start" /\ cur'[w] = cur[w]
    BY <1>1, <1>3 DEF TypeOK, ClaimOperation, Goto
  <2>2. status[cur[w]] = "queued" /\ ~stopReq[cur[w]] /\ cur[w] \notin okRuns
        /\ runs[cur[w]] = 0 /\ outbox[cur[w]] = "none"
    BY <1>1, <1>3 DEF Claimable, SafeInv, UnclaimedInv, Started
  <2>3. UnclaimedInv'
    BY <1>2, <2>1, <2>2 DEF SafeInv, UnclaimedInv, Started
  <2>4. FreshIdsInv'
    <3>1. \A i \in Ids : status[i] = "absent" => status'[i] = "absent"
      BY <2>1, <2>2
    <3> QED
      BY <1>2, <3>1 DEF SafeInv, FreshIdsInv
  <2>5. HoldingInv'
    <3>1. \A v \in Workers : v # w /\ Holding(v) => cur[v] # cur[w]
      BY <2>2 DEF SafeInv, HoldingInv, Started
    <3>2. \A v \in Workers : Holding(v)' => v = w \/ Holding(v)
      BY DEF Holding
    <3>3. \A i \in Ids : status[i] \in Started => status'[i] \in Started
      BY <2>1 DEF Started
    <3>4. status'[cur'[w]] \in Started /\ cur'[w] \in Ids /\ runs'[cur'[w]] = 0
      BY <1>1, <1>2, <2>1, <2>2 DEF Started
    <3> QED
      BY <1>2, <2>1, <3>1, <3>2, <3>3, <3>4 DEF SafeInv, HoldingInv
  <2>6. ResultInv'
    BY <1>2, <2>1, <2>2 DEF SafeInv, ResultInv
  <2>7. AuditInv' /\ NeverReplayed' /\ OutcomeIsHonest'
    BY <1>2 DEF SafeInv, AuditInv, NeverReplayed, OutcomeIsHonest
  <2>8. StopLeadsToCancel' /\ OutcomeMatchesStatus'
    BY <1>2, <2>1, <2>2 DEF SafeInv, StopLeadsToCancel, OutcomeMatchesStatus
  <2> QED
    BY <2>3, <2>4, <2>5, <2>6, <2>7, <2>8 DEF SafeInv
<1>4. CASE ~Claimable(cur[w])
  <2>1. pc'[w] = "idle" /\ UNCHANGED status
    BY <1>4 DEF TypeOK, ClaimOperation, Goto
  <2>2. AuditInv'
    BY <1>2 DEF SafeInv, AuditInv
  <2> QED
    BY <1>2, <2>1, <2>2, MoveSafe DEF Holding
<1> QED
  BY <1>3, <1>4

\* Recovery ends a stale operation as the stop request it read demands.
LEMMA RecoverSafe ==
  ASSUME TypeOK, TypeOK', SafeInv, NEW w \in Workers,
         NEW c \in cand[w], RecoverStaleOperation(w, c)
  PROVE  SafeInv'
<1>1. c[1] \in Ids
  BY DEF TypeOK
<1>2. UNCHANGED <<stopReq, sent, audits, nextId, req, pc, cur, res, runs, okRuns>>
  BY DEF RecoverStaleOperation, apiVars, worldVars
<1>3. CASE status[c[1]] = "running" /\ stopReq[c[1]] = c[2] /\ ~fresh[c[1]]
  <2> DEFINE verdict == IF c[2] THEN "cancelled" ELSE "failed"
  <2>1. /\ status' = [status EXCEPT ![c[1]] = verdict]
        /\ outbox' = [outbox EXCEPT ![c[1]] = "indeterminate"]
    BY <1>3 DEF RecoverStaleOperation
  <2>2. IF stopReq[c[1]] THEN verdict = "cancelled" ELSE verdict = "failed"
    BY <1>3
  <2> HIDE DEF verdict
  <2>3. /\ UnclaimedInv' /\ FreshIdsInv' /\ AuditInv' /\ NeverReplayed'
        /\ StopLeadsToCancel' /\ OutcomeMatchesStatus' /\ OutcomeIsHonest'
        /\ \A i \in Ids : status'[i] \in Started <=> status[i] \in Started
    BY <1>1, <1>2, <1>3, <2>1, <2>2, EndSafe
  <2>4. HoldingInv'
    BY <1>2, <2>3 DEF SafeInv, HoldingInv, Holding
  <2>5. ResultInv'
    <3>1. \A i \in Ids : outbox'[i] = outbox[i] \/ outbox'[i] = "indeterminate"
      BY <2>1 DEF TypeOK
    <3>2. \A v \in Workers : pc[v] \in {"start", "helm"} => cur[v] \in Ids
      BY DEF SafeInv, HoldingInv, Holding
    <3> QED
      BY <1>2, <3>1, <3>2 DEF SafeInv, ResultInv
  <2> QED
    BY <2>3, <2>4, <2>5 DEF SafeInv
<1>4. CASE ~(status[c[1]] = "running" /\ stopReq[c[1]] = c[2] /\ ~fresh[c[1]])
  <2>1. UNCHANGED <<status, outbox>>
    BY <1>4 DEF RecoverStaleOperation
  <2> QED
    BY <1>2, <2>1 DEF SafeInv, UnclaimedInv, FreshIdsInv, HoldingInv, Holding, ResultInv, AuditInv,
       NeverReplayed, StopLeadsToCancel, OutcomeMatchesStatus, OutcomeIsHonest
<1> QED
  BY <1>3, <1>4

\* The external calls are started once, and their result is remembered as it was.
LEMMA ExecuteSafe ==
  ASSUME TypeOK, TypeOK', SafeInv, NEW w \in Workers,
         RejectOperation(w) \/ StartExternal(w)
           \/ \E r \in {"ok", "err", "indeterminate"} : EndExternal(w, r),
         \A v \in Workers \ {w} : pc'[v] = pc[v] /\ cur'[v] = cur[v] /\ res'[v] = res[v]
  PROVE  SafeInv'
<1>1. /\ pc[w] \in {"start", "helm"} /\ cur'[w] = cur[w] /\ pc'[w] \in {"helm", "resolve"}
      /\ UNCHANGED <<status, stopReq, outbox, sent, audits, nextId, req>>
  BY DEF TypeOK, RejectOperation, StartExternal, EndExternal, Goto, dbVars, apiVars
<1>2. cur[w] \in Ids /\ status[cur[w]] \in Started /\ cur[w] \notin okRuns
  BY <1>1 DEF SafeInv, HoldingInv, Holding, ResultInv
<1>3. \A v \in Workers : v # w /\ Holding(v) => cur[v] # cur[w]
  BY <1>1 DEF SafeInv, HoldingInv, Holding
<1>4. FreshIdsInv' /\ AuditInv' /\ StopLeadsToCancel' /\ OutcomeMatchesStatus'
  BY <1>1 DEF SafeInv, FreshIdsInv, AuditInv, StopLeadsToCancel, OutcomeMatchesStatus
<1>5. CASE RejectOperation(w)
  <2>1. res'[w] = "err" /\ pc'[w] = "resolve" /\ UNCHANGED <<runs, okRuns>>
    BY <1>5 DEF TypeOK, RejectOperation, Goto, worldVars
  <2>2. HoldingInv'
    BY <1>1, <2>1, HoldingKept DEF Holding
  <2>3. ResultInv'
    BY <1>1, <1>2, <2>1 DEF SafeInv, ResultInv
  <2> QED
    BY <1>1, <1>4, <2>1, <2>2, <2>3 DEF SafeInv, UnclaimedInv, NeverReplayed, OutcomeIsHonest
<1>6. CASE StartExternal(w)
  <2>1. /\ pc[w] = "start" /\ pc'[w] = "helm" /\ UNCHANGED <<res, okRuns>>
        /\ runs' = [runs EXCEPT ![cur[w]] = @ + 1]
    BY <1>6 DEF TypeOK, StartExternal, Goto
  <2>2. runs'[cur[w]] = 1 /\ \A i \in Ids \ {cur[w]} : runs'[i] = runs[i]
    BY <1>2, <2>1 DEF TypeOK, SafeInv, HoldingInv
  <2>3. HoldingInv'
    <3>1. \A v \in Workers : pc'[v] = "start" => runs'[cur[v]] = runs[cur[v]]
      BY <1>3, <2>1, <2>2 DEF SafeInv, HoldingInv, Holding
    <3> QED
      BY <1>1, <2>1, <3>1, HoldingKept DEF Holding
  <2>4. ResultInv'
    BY <1>1, <1>2, <2>1, <2>2 DEF SafeInv, ResultInv
  <2>5. UnclaimedInv' /\ NeverReplayed' /\ OutcomeIsHonest'
    BY <1>1, <1>2, <2>1, <2>2 DEF SafeInv, UnclaimedInv, NeverReplayed, OutcomeIsHonest
  <2> QED
    BY <1>4, <2>3, <2>4, <2>5 DEF SafeInv
<1>7. ASSUME NEW r \in {"ok", "err", "indeterminate"}, EndExternal(w, r) PROVE SafeInv'
  <2>1. /\ pc[w] = "helm" /\ pc'[w] = "resolve" /\ res'[w] = r /\ UNCHANGED runs
        /\ okRuns' = IF r = "ok" THEN okRuns \cup {cur[w]} ELSE okRuns
    BY <1>7 DEF TypeOK, EndExternal, Goto
  <2>2. HoldingInv'
    BY <1>1, <2>1, HoldingKept DEF Holding
  <2>3. runs[cur[w]] = 1 /\ outbox[cur[w]] \in {"none", "indeterminate"}
    BY <2>1 DEF SafeInv, ResultInv
  <2>4. ResultInv'
    BY <1>1, <1>2, <1>3, <2>1, <2>3 DEF SafeInv, ResultInv, Holding
  <2>6. UnclaimedInv' /\ NeverReplayed' /\ OutcomeIsHonest'
    BY <1>1, <1>2, <2>1, <2>3 DEF SafeInv, UnclaimedInv, NeverReplayed, OutcomeIsHonest
  <2> QED
    BY <1>4, <2>2, <2>4, <2>6 DEF SafeInv
<1> QED
  BY <1>5, <1>6, <1>7

\* A verdict ends the operation only while it runs, and as its stop request demands.
LEMMA FinishSafe ==
  ASSUME TypeOK, TypeOK', SafeInv, NEW w \in Workers,
         Resolve(w) \/ FinishStopped(w) \/ FinishOperationIfUnstopped(w),
         \A v \in Workers \ {w} : pc'[v] = pc[v] /\ cur'[v] = cur[v] /\ res'[v] = res[v]
  PROVE  SafeInv'
<1>1. /\ pc[w] \in {"resolve", "stopping", "failing", "succeeding"} /\ cur'[w] = cur[w]
      /\ pc'[w] \in {"stopping", "failing", "succeeding", "settle", "observe", "deliver"}
      /\ UNCHANGED <<stopReq, sent, audits, nextId, req, runs, okRuns>>
  BY DEF TypeOK, Resolve, FinishStopped, FinishOperationIfUnstopped, AfterVerdict, Goto,
     dbVars, apiVars, worldVars
<1>2. cur[w] \in Ids /\ status[cur[w]] \in Started
  BY <1>1 DEF SafeInv, HoldingInv, Holding
<1>3. \A v \in Workers : v # w /\ Holding(v) => cur[v] # cur[w]
  BY <1>1 DEF SafeInv, HoldingInv, Holding
<1>4. ASSUME \A i \in Ids : status[i] \in Started => status'[i] \in Started
      PROVE  HoldingInv'
  BY <1>1, <1>4, HoldingKept DEF Holding
<1>5. CASE Resolve(w)
  <2>1. /\ UNCHANGED <<status, outbox>> /\ pc[w] = "resolve"
        /\ res'[w] = IF tok[w] # "no" THEN "stopped" ELSE res[w]
        /\ pc'[w] = IF stopReq[cur[w]] THEN "stopping"
                    ELSE IF tok[w] = "no" /\ res[w] = "ok" THEN "succeeding" ELSE "failing"
    BY <1>5 DEF TypeOK, Resolve, Goto, dbVars
  <2>2. \/ pc'[w] = "stopping"
        \/ pc'[w] = "succeeding" /\ res[w] = "ok" /\ res'[w] = "ok"
        \/ pc'[w] = "failing" /\ res'[w] = "stopped"
        \/ pc'[w] = "failing" /\ res[w] # "ok" /\ res'[w] = res[w]
    BY <2>1
  <2>3. res[w] \in {"ok", "err", "indeterminate", "stopped"}
    BY <2>1 DEF TypeOK, Results, SafeInv, ResultInv
  <2>4. ResultInv'
    BY <1>1, <2>1, <2>2, <2>3 DEF SafeInv, ResultInv
  <2> QED
    BY <1>1, <1>4, <2>1, <2>4 DEF SafeInv, UnclaimedInv, FreshIdsInv, AuditInv, NeverReplayed,
       StopLeadsToCancel, OutcomeMatchesStatus, OutcomeIsHonest
\* Nobody else is executing the operation, so nobody is wrong about it.
<1>r. ASSUME pc'[w] \in {"stopping", "settle", "observe", "deliver"},
             \A i \in Ids \ {cur[w]} : outbox'[i] = outbox[i]
      PROVE  ResultInv'
  <2>1. \A v \in Workers \ {w} :
          pc[v] \in {"start", "helm"} => cur[v] \in Ids /\ outbox'[cur[v]] = outbox[cur[v]]
    BY <1>3, <1>r DEF SafeInv, HoldingInv, Holding
  <2> QED
    BY <1>1, <1>r, <2>1 DEF SafeInv, ResultInv
<1>6. CASE FinishStopped(w)
  <2>1. pc'[w] = "deliver"
    BY <1>6 DEF TypeOK, FinishStopped, Goto
  <2>2. CASE status[cur[w]] = "running" /\ stopReq[cur[w]]
    <3>1. /\ status' = [status EXCEPT ![cur[w]] = "cancelled"]
          /\ outbox' = [outbox EXCEPT ![cur[w]] = "indeterminate"]
      BY <1>6, <2>2 DEF FinishStopped
    <3>2. /\ UnclaimedInv' /\ FreshIdsInv' /\ AuditInv' /\ NeverReplayed'
          /\ StopLeadsToCancel' /\ OutcomeMatchesStatus' /\ OutcomeIsHonest'
          /\ \A i \in Ids : status'[i] \in Started <=> status[i] \in Started
      BY <1>1, <1>2, <2>2, <3>1, EndSafe
    <3>3. ResultInv'
      BY <1>r, <2>1, <3>1 DEF TypeOK
    <3> QED
      BY <1>4, <3>2, <3>3 DEF SafeInv
  <2>3. CASE ~(status[cur[w]] = "running" /\ stopReq[cur[w]])
    <3>1. UNCHANGED <<status, outbox>>
      BY <1>6, <2>3 DEF FinishStopped
    <3>2. AuditInv'
      BY <1>1, <3>1 DEF SafeInv, AuditInv
    <3> QED
      BY <1>1, <2>1, <3>1, <3>2, MoveSafe DEF Holding
  <2> QED
    BY <2>2, <2>3
<1>7. CASE FinishOperationIfUnstopped(w)
  <2>1. pc[w] \in {"failing", "succeeding"}
    BY <1>7 DEF FinishOperationIfUnstopped
  <2>2. CASE status[cur[w]] = "running" /\ ~stopReq[cur[w]]
    <3>1. /\ status' = [status EXCEPT ![cur[w]] = Verdict(w)]
          /\ outbox' = [outbox EXCEPT ![cur[w]] = Outcome(w)]
          /\ pc'[w] \in {"settle", "observe", "deliver"}
      BY <1>7, <2>2 DEF TypeOK, FinishOperationIfUnstopped, AfterVerdict, Goto
    <3>2. \/ /\ Verdict(w) = "failed" /\ Outcome(w) \in {"failed", "indeterminate"}
             /\ Outcome(w) = "failed" => cur[w] \notin okRuns
          \/ Verdict(w) = "succeeded" /\ Outcome(w) = "succeeded" /\ cur[w] \in okRuns
      BY <2>1 DEF Verdict, Outcome, SafeInv, ResultInv
    <3>3. /\ UnclaimedInv' /\ FreshIdsInv' /\ AuditInv' /\ NeverReplayed'
          /\ StopLeadsToCancel' /\ OutcomeMatchesStatus' /\ OutcomeIsHonest'
          /\ \A i \in Ids : status'[i] \in Started <=> status[i] \in Started
      BY <1>1, <1>2, <2>2, <3>1, <3>2, EndSafe
    <3>4. ResultInv'
      BY <1>r, <3>1 DEF TypeOK
    <3> QED
      BY <1>4, <3>3, <3>4 DEF SafeInv
  <2>3. CASE ~(status[cur[w]] = "running" /\ ~stopReq[cur[w]])
    <3>1. UNCHANGED <<status, outbox>> /\ pc'[w] = "stopping"
      BY <1>7, <2>3 DEF TypeOK, FinishOperationIfUnstopped, Goto
    <3>2. ResultInv'
      BY <1>r, <3>1
    <3> QED
      BY <1>1, <1>4, <3>1, <3>2 DEF SafeInv, UnclaimedInv, FreshIdsInv, AuditInv, NeverReplayed,
         StopLeadsToCancel, OutcomeMatchesStatus, OutcomeIsHonest
  <2> QED
    BY <2>2, <2>3
<1> QED
  BY <1>5, <1>6, <1>7

\* What comes after the verdict touches no operation.
LEMMA AfterwardsSafe ==
  ASSUME TypeOK, TypeOK', SafeInv, NEW w \in Workers,
         Settle(w) \/ (\E a \in Apps : ReconcileSeen(w, "finish", a))
           \/ ReconcileRecord(w, "finish") \/ FinishProcessing(w),
         \A v \in Workers \ {w} : pc'[v] = pc[v] /\ cur'[v] = cur[v] /\ res'[v] = res[v]
  PROVE  SafeInv'
<1>1. /\ pc[w] \in {"settle", "observe", "record", "deliver"}
      /\ \/ pc'[w] \in {"observe", "record", "deliver"} /\ cur'[w] = cur[w]
         \/ pc'[w] = "idle"
      /\ UNCHANGED <<status, stopReq, outbox, nextId, req, runs, okRuns>>
  BY DEF TypeOK, Settle, ReconcileSeen, ReconcileObserve, ReconcileRecord, At, Advance,
     FinishProcessing, DeliverAudit, Release, Goto, dbVars, apiVars, worldVars
<1>2. AuditInv'
  <2>1. CASE UNCHANGED <<sent, audits>>
    BY <1>1, <2>1 DEF SafeInv, AuditInv
  <2>2. CASE FinishProcessing(w) /\ DeliverAudit(cur[w])
    <3>1. cur[w] \in Ids
      BY <1>1 DEF SafeInv, HoldingInv, Holding
    <3> QED
      BY <2>2, <3>1, DeliverSafe
  <2> QED
    BY <2>1, <2>2 DEF Settle, ReconcileSeen, ReconcileObserve, ReconcileRecord, FinishProcessing,
       dbVars
<1> QED
  BY <1>1, <1>2, MoveSafe DEF Holding

\* Every step of the operation loop keeps the parts.
LEMMA ProcessSafe ==
  ASSUME TypeOK, TypeOK', SafeInv, NEW w \in Workers, Process(w)
  PROVE  SafeInv'
<1>u. \A v \in Workers \ {w} : pc'[v] = pc[v] /\ cur'[v] = cur[v] /\ res'[v] = res[v]
  BY OthersKept
<1>1. CASE Tick(w)
  <2>1. pc'[w] = "recover"
    BY <1>1 DEF TypeOK, Tick, Goto
  <2>2. UNCHANGED <<status, stopReq, outbox, sent, audits, nextId, req, runs, okRuns>>
    BY <1>1 DEF Tick, dbVars, apiVars, worldVars
  <2>3. AuditInv'
    BY <2>2 DEF SafeInv, AuditInv
  <2> QED
    BY <1>u, <2>1, <2>2, <2>3, MoveSafe DEF Holding
<1>2. CASE ClaimNextOperation(w)
  <2>1. \/ pc'[w] = "claim" /\ cur'[w] \in Ids
        \/ pc'[w] = "idle"
    BY <1>2 DEF TypeOK, ClaimNextOperation, Goto
  <2>2. UNCHANGED <<status, stopReq, outbox, sent, audits, nextId, req, res, runs, okRuns>>
    BY <1>2 DEF ClaimNextOperation, dbVars, apiVars, worldVars
  <2>3. HoldingInv'
    BY <1>u, <2>1, <2>2, HoldingKept DEF Holding
  <2>4. ResultInv'
    BY <1>u, <2>1, <2>2 DEF SafeInv, ResultInv
  <2> QED
    BY <2>2, <2>3, <2>4 DEF SafeInv, UnclaimedInv, FreshIdsInv, AuditInv, NeverReplayed,
       StopLeadsToCancel, OutcomeMatchesStatus, OutcomeIsHonest
<1>3. CASE ClaimOperation(w)
  BY <1>3, <1>u, ClaimSafe
<1>4. ASSUME NEW c \in cand[w], RecoverStaleOperation(w, c) PROVE SafeInv'
  BY <1>4, RecoverSafe
<1>5. CASE RejectOperation(w)
  BY <1>5, <1>u, ExecuteSafe
<1>6. CASE StartExternal(w)
  BY <1>6, <1>u, ExecuteSafe
<1>7. ASSUME NEW r \in {"ok", "err", "indeterminate"}, EndExternal(w, r) PROVE SafeInv'
  BY <1>7, <1>u, ExecuteSafe
<1>8. CASE Resolve(w)
  BY <1>8, <1>u, FinishSafe
<1>9. CASE FinishStopped(w)
  BY <1>9, <1>u, FinishSafe
<1>10. CASE FinishOperationIfUnstopped(w)
  BY <1>10, <1>u, FinishSafe
<1>11. CASE Settle(w)
  BY <1>11, <1>u, AfterwardsSafe
<1>12. ASSUME NEW a \in Apps, ReconcileSeen(w, "finish", a) PROVE SafeInv'
  BY <1>12, <1>u, AfterwardsSafe
<1>13. CASE ReconcileRecord(w, "finish")
  BY <1>13, <1>u, AfterwardsSafe
<1>14. CASE FinishProcessing(w)
  BY <1>14, <1>u, AfterwardsSafe
<1> QED
  BY <1>1, <1>2, <1>3, <1>4, <1>5, <1>6, <1>7, <1>8, <1>9, <1>10, <1>11, <1>12, <1>13, <1>14
  DEF Process

\* So do the tasks beside it.
LEMMA TaskSafe ==
  ASSUME TypeOK, TypeOK', SafeInv, NEW w \in Workers,
         Restart(w) \/ Attend(w) \/ \E a \in Apps : ReconcileLoop(w, a)
  PROVE  SafeInv'
<1>1. CASE Restart(w)
  <2>1. /\ pc' = [pc EXCEPT ![w] = "idle"]
        /\ UNCHANGED <<status, stopReq, outbox, sent, audits, nextId, req, cur, res, runs, okRuns>>
    BY <1>1 DEF Restart, Goto, dbVars, apiVars, worldVars
  <2>2. AuditInv'
    BY <2>1 DEF SafeInv, AuditInv
  <2> QED
    BY <2>1, <2>2, MoveSafe DEF TypeOK, Holding
<1>2. ASSUME NEW id \in Ids, DrainAuditOutbox(w, id) PROVE SafeInv'
  <2>1. UNCHANGED <<status, stopReq, outbox, nextId, req, pc, cur, res, runs, okRuns>>
    BY <1>2 DEF DrainAuditOutbox, DeliverAudit, apiVars, workerVars, worldVars
  <2>2. AuditInv'
    BY <1>2, DeliverSafe DEF DrainAuditOutbox
  <2> QED
    BY <2>1, <2>2 DEF SafeInv, UnclaimedInv, FreshIdsInv, HoldingInv, Holding, ResultInv,
       NeverReplayed, StopLeadsToCancel, OutcomeMatchesStatus, OutcomeIsHonest
<1>3. CASE WatchStop(w) \/ Heartbeat(w) \/ \E a \in Apps : ReconcileLoop(w, a)
  <2>1. UNCHANGED <<status, stopReq, outbox, sent, audits, nextId, req, pc, cur, res, runs, okRuns>>
    BY <1>3 DEF WatchStop, Heartbeat, ReconcileLoop, ReconcileSeen, ReconcileObserve,
       ReconcileRecord, Advance, dbVars, apiVars, workerVars, worldVars
  <2> QED
    BY <2>1, QuietSafe
<1> QED
  BY <1>1, <1>2, <1>3 DEF Attend

\* A failure lets go of an operation and gives it to nobody.
LEMMA FailSafe ==
  ASSUME TypeOK, TypeOK', SafeInv, NEW w \in Workers, Fail(w)
  PROVE  SafeInv'
<1>1. UNCHANGED <<status, stopReq, outbox, sent, audits, nextId, req, runs, okRuns>>
  BY DEF Fail, WatchLoss, FailedCall, Crash, FailedReconcile, ReconcileBlind, ReconcileObserve,
     dbVars, apiVars, worldVars
<1>2. AuditInv'
  BY <1>1 DEF SafeInv, AuditInv
<1>3. CASE UNCHANGED <<pc, cur, res>>
  BY <1>1, <1>3, QuietSafe
<1>4. CASE FailedCall(w) \/ Crash(w)
  <2>1. /\ \A v \in Workers \ {w} : pc'[v] = pc[v] /\ cur'[v] = cur[v] /\ res'[v] = res[v]
        /\ \/ pc'[w] \in {"idle", "down"}
           \/ pc[w] = "settle" /\ pc'[w] \in {"observe", "deliver"} /\ cur'[w] = cur[w]
    BY <1>4 DEF TypeOK, FailedCall, Crash, Release, Goto
  <2> QED
    BY <1>1, <1>2, <2>1, MoveSafe DEF Holding
<1>5. ASSUME FailedReconcile(w, "finish") \/ \E a \in Apps : ReconcileBlind(w, "finish", a)
      PROVE  SafeInv'
  <2>1. /\ pc[w] \in {"observe", "record"} /\ UNCHANGED <<cur, res>>
        /\ pc' = [pc EXCEPT ![w] = "deliver"] \/ pc' = [pc EXCEPT ![w] = "record"]
    BY <1>5 DEF FailedReconcile, ReconcileBlind, ReconcileObserve, At, Advance, Goto
  <2> QED
    BY <1>1, <1>2, <2>1, MoveSafe DEF TypeOK, Holding
<1>6. Fail(w) => \/ UNCHANGED <<pc, cur, res>> \/ FailedCall(w) \/ Crash(w)
                 \/ FailedReconcile(w, "finish") \/ \E a \in Apps : ReconcileBlind(w, "finish", a)
  BY DEF Fail, Reconcilers, WatchLoss, FailedReconcile, ReconcileBlind, ReconcileObserve, Advance
<1> QED
  BY <1>3, <1>4, <1>5, <1>6

\* Time and the cluster change nothing the parts speak of.
LEMMA WorldSafe ==
  ASSUME TypeOK, SafeInv, World
  PROVE  SafeInv'
<1>1. UNCHANGED <<status, stopReq, outbox, sent, audits, nextId, req, pc, cur, res, runs, okRuns>>
  BY DEF World, Age, Stall, NamespaceGone, dbVars, apiVars, workerVars, worldVars
<1> QED
  BY <1>1, QuietSafe

(***************************************************************************)
(* IndInv is an inductive invariant of the operation queue.                *)
(***************************************************************************)
\* The inductive invariant is the types and the parts.
LEMMA IndInvParts == IndInv <=> TypeOK /\ SafeInv
BY DEF IndInv, SafeInv

\* Every step keeps the inductive invariant.
LEMMA Inductive ==
  ASSUME IndInv, [Next]_vars
  PROVE  IndInv'
<1>1. TypeOK /\ SafeInv
  BY IndInvParts
<1>2. HoldingInv
  BY <1>1 DEF SafeInv
<1>3. ASSUME NEW c \in Clients, Request(c) PROVE IndInv'
  <2>1. TypeOK'
    BY <1>1, <1>3, RequestTypes
  <2> QED
    BY <1>1, <1>3, <2>1, RequestSafe, IndInvParts DEF IndInv, SafeInv
<1>4. ASSUME NEW w \in Workers, Process(w) PROVE IndInv'
  <2>1. TypeOK'
    BY <1>1, <1>2, <1>4, ProcessTypes
  <2> QED
    BY <1>1, <1>4, <2>1, ProcessSafe DEF IndInv, SafeInv
<1>5. ASSUME NEW w \in Workers,
             Restart(w) \/ Attend(w) \/ \E a \in Apps : ReconcileLoop(w, a)
      PROVE  IndInv'
  <2>1. TypeOK'
    BY <1>1, <1>2, <1>5, TaskTypes
  <2> QED
    BY <1>1, <1>5, <2>1, TaskSafe DEF IndInv, SafeInv
<1>6. ASSUME NEW w \in Workers, Fail(w) PROVE IndInv'
  <2>1. TypeOK'
    BY <1>1, <1>2, <1>6, FailTypes
  <2> QED
    BY <1>1, <1>6, <2>1, FailSafe DEF IndInv, SafeInv
<1>7. CASE World
  <2>1. TypeOK'
    BY <1>1, <1>7, WorldTypes
  <2> QED
    BY <1>1, <1>7, <2>1, WorldSafe DEF IndInv, SafeInv
<1>8. CASE UNCHANGED vars
  BY <1>1, <1>8, QuietSafe DEF IndInv, SafeInv, vars, TypeOK, dbVars, apiVars, workerVars, worldVars
<1> QED
  BY <1>3, <1>4, <1>5, <1>6, <1>7, <1>8 DEF Next

-----------------------------------------------------------------------------

(***************************************************************************)
(* The invariants.                                                         *)
(***************************************************************************)
\* It holds initially.
LEMMA InitInv == Init => IndInv
BY InitTypes, InitSafe, IndInvParts

\* The inductive invariant holds in every reachable state, whatever the number of
\* workers, clients, operations and failures.
THEOREM IndInvHolds == Spec => []IndInv
BY InitInv, Inductive, PTL DEF Spec

\* Every variable keeps its type.
THEOREM TypeCorrect == Spec => []TypeOK
<1>1. IndInv => TypeOK
  BY DEF IndInv
<1> QED
  BY <1>1, IndInvHolds, PTL

\* The external calls of an operation are started at most once.
THEOREM ReplayNever == Spec => []NeverReplayed
<1>1. IndInv => NeverReplayed
  BY DEF IndInv
<1> QED
  BY <1>1, IndInvHolds, PTL

\* A stored stop request is never overruled by a result or by a recovery.
THEOREM StopHonoured == Spec => []StopLeadsToCancel
<1>1. IndInv => StopLeadsToCancel
  BY DEF IndInv
<1> QED
  BY <1>1, IndInvHolds, PTL

\* The audited outcome exists exactly for resolved operations and agrees with the status.
THEOREM OutcomeRight == Spec => []OutcomeMatchesStatus
<1>1. IndInv => OutcomeMatchesStatus
  BY DEF IndInv
<1> QED
  BY <1>1, IndInvHolds, PTL

\* A success or a definite failure is audited only for what the external calls returned.
THEOREM OutcomeHonest == Spec => []OutcomeIsHonest
<1>1. IndInv => OutcomeIsHonest
  BY DEF IndInv
<1> QED
  BY <1>1, IndInvHolds, PTL

(***************************************************************************)
(* The intent recorded in app_states.                                      *)
(***************************************************************************)
IntentInv ==
  /\ DesiredFollowsLastOperation
  /\ \A a \in Apps : appState[a].last # 0 => status[appState[a].last] # "absent"

\* A row is written with a new operation that names it, with the operation it names, or
\* without touching the intent; and no operation is ever forgotten.
Inserted ==
  \E id \in Ids, j \in Jobs :
    /\ InsertQueued(id, j)
    /\ status[id] = "absent" /\ status'[id] = "queued"

Kept ==
  /\ UNCHANGED job
  /\ \A a \in Apps :
       /\ appState'[a].last = appState[a].last
       /\ appState[a].last # 0 =>
            \/ appState'[a].desired = appState[a].desired
            \/ appState'[a].desired = DesiredFor(job[appState[a].last].kind)

Remembered == \A id \in Ids : status[id] # "absent" => status'[id] # "absent"

\* An operation that exists never becomes absent again.
LEMMA NoneForgotten ==
  ASSUME IndInv, [Next]_vars
  PROVE  Remembered
<1>1. CASE UNCHANGED status
  BY <1>1 DEF Remembered
<1>2. ASSUME NEW c \in Clients, Request(c) PROVE Remembered
  <2>1. \/ UNCHANGED status
        \/ \E id \in Ids, s \in {"queued", "paused", "cancelled"} :
             status' = [status EXCEPT ![id] = s]
        \/ \E id, old \in Ids :
             status' = [status EXCEPT ![old] = "retried", ![id] = "queued"]
    BY <1>2 DEF IndInv, FreshIdsInv, Request, BeginExclusiveEnqueue, BeginEnqueue, BeginRetry,
       BeginControl, CommitEnqueue, CommitRetry, CommitStop, CommitControl, ControlTo, Rollback, dbVars
  <2> QED
    BY <2>1 DEF Remembered, IndInv, TypeOK
<1>3. ASSUME NEW w \in Workers, Process(w) PROVE Remembered
  <2>1. \/ UNCHANGED status
        \/ \E id \in Ids, s \in {"running", "failed", "cancelled", "succeeded"} :
             status' = [status EXCEPT ![id] = s]
    <3>1. pc[w] \notin {"down", "idle", "recover"} => cur[w] \in Ids
      BY DEF IndInv, HoldingInv, Holding
    <3>2. \A c \in cand[w] : c[1] \in Ids
      BY DEF IndInv, TypeOK
    <3>3. CASE ClaimOperation(w) \/ FinishStopped(w) \/ FinishOperationIfUnstopped(w)
      BY <3>1, <3>3 DEF ClaimOperation, FinishStopped, FinishOperationIfUnstopped, Verdict
    <3>4. ASSUME NEW c \in cand[w], RecoverStaleOperation(w, c)
          PROVE  \/ UNCHANGED status
                 \/ \E s \in {"failed", "cancelled"} : status' = [status EXCEPT ![c[1]] = s]
      BY <3>4 DEF RecoverStaleOperation
    <3>5. \/ UNCHANGED status
          \/ ClaimOperation(w) \/ FinishStopped(w) \/ FinishOperationIfUnstopped(w)
          \/ \E c \in cand[w] : RecoverStaleOperation(w, c)
      BY <1>3 DEF Process, Tick, ClaimNextOperation, RejectOperation, StartExternal, EndExternal,
         Resolve, Settle, ReconcileSeen, ReconcileObserve, ReconcileRecord, FinishProcessing,
         DeliverAudit, dbVars
    <3> QED
      BY <3>2, <3>3, <3>4, <3>5
  <2> QED
    BY <2>1 DEF Remembered, IndInv, TypeOK
<1>4. ASSUME NEW w \in Workers,
             Restart(w) \/ Attend(w) \/ Fail(w) \/ \E a \in Apps : ReconcileLoop(w, a)
      PROVE  UNCHANGED status
  BY <1>4 DEF Restart, Attend, WatchStop, Heartbeat, DrainAuditOutbox, DeliverAudit, Fail, WatchLoss,
     FailedCall, Crash, FailedReconcile, ReconcileLoop, ReconcileSeen, ReconcileBlind,
     ReconcileObserve, ReconcileRecord, dbVars
<1>5. World \/ UNCHANGED vars => UNCHANGED status
  BY DEF World, Age, Stall, NamespaceGone, vars, dbVars
<1> QED
  BY <1>1, <1>2, <1>3, <1>4, <1>5 DEF Next

\* A reconciler fills in the intent only of a row without one.
LEMMA RecordKeeps ==
  ASSUME TypeOK, NEW w \in Workers, NEW t \in Reconcilers, ReconcileRecord(w, t),
         DesiredFollowsLastOperation
  PROVE  Kept
<1> DEFINE o == rec[w][t]
<1>1. o.app \in Apps
  BY DEF TypeOK, Sights
<1>2. \A a \in Apps : appState'[a] = IF a = o.app THEN Reconciled(appState[a], o.sees) ELSE appState[a]
  BY <1>1 DEF TypeOK, ReconcileRecord
<1>3. ASSUME NEW a \in Apps
      PROVE  LET r == Reconciled(appState[a], o.sees)
             IN r.last = appState[a].last
                /\ (appState[a].desired # "none" => r.desired = appState[a].desired)
  BY DEF TypeOK, Rows, Reconciled
<1>4. \A a \in Apps : appState[a].last # 0 => appState[a].desired # "none"
  BY DEF DesiredFollowsLastOperation, DesiredFor
<1> QED
  BY <1>2, <1>3, <1>4 DEF Kept, ReconcileRecord

\* A verdict states the intent its own operation had.
LEMMA SettleKeeps ==
  ASSUME TypeOK, HoldingInv, NEW w \in Workers, Settle(w)
  PROVE  Kept
<1> DEFINE id == cur[w]
           a == job[id].app
<1>1. id \in Ids /\ a \in Apps
  BY DEF TypeOK, HoldingInv, Holding, Settle, Jobs
<1>2. CASE appState[a].last = id
  <2> DEFINE r == Resolved(appState[a], id, res[w] = "ok")
  <2>1. r.last = appState[a].last /\ r.desired = DesiredFor(job[id].kind)
    BY <1>1 DEF TypeOK, Rows, Resolved
  <2>2. \A b \in Apps : appState'[b] = IF b = a THEN r ELSE appState[b]
    BY <1>1, <1>2 DEF TypeOK, Settle
  <2>3. UNCHANGED job
    BY DEF Settle
  <2> HIDE DEF r, a, id
  <2> QED
    BY <1>2, <2>1, <2>2, <2>3 DEF Kept
<1>3. CASE appState[a].last # id
  BY <1>3 DEF Settle, Kept
<1> QED
  BY <1>2, <1>3

\* Every step either keeps the operation a row names or queues the new one.
LEMMA IntentStep ==
  ASSUME IndInv, IntentInv, [Next]_vars
  PROVE  Inserted \/ Kept
<1>1. TypeOK /\ HoldingInv /\ DesiredFollowsLastOperation
  BY DEF IndInv, IntentInv
<1>2. CASE UNCHANGED <<job, appState>>
  BY <1>2 DEF Kept
<1>3. ASSUME NEW c \in Clients, CommitEnqueue(c) \/ CommitRetry(c) PROVE Inserted
  <2>1. req[c].id \in Ids /\ status[req[c].id] = "absent" /\ req[c].job \in Jobs
    BY <1>1, <1>3 DEF TypeOK, Reqs, IndInv, FreshIdsInv, CommitEnqueue, CommitRetry
  <2>2. InsertQueued(req[c].id, req[c].job)
    BY <1>3 DEF CommitEnqueue, CommitRetry
  <2>3. status'[req[c].id] = "queued"
    BY <1>1, <1>3, <2>1 DEF TypeOK, CommitEnqueue, CommitRetry
  <2> QED
    BY <2>1, <2>2, <2>3 DEF Inserted
<1>4. ASSUME NEW w \in Workers, NEW t \in Reconcilers, ReconcileRecord(w, t) PROVE Kept
  BY <1>1, <1>4, RecordKeeps
<1>5. ASSUME NEW w \in Workers, Settle(w) PROVE Kept
  BY <1>1, <1>5, SettleKeeps
<1>6. ASSUME NEW c \in Clients, Request(c)
      PROVE  CommitEnqueue(c) \/ CommitRetry(c) \/ UNCHANGED <<job, appState>>
  BY <1>6 DEF Request, BeginExclusiveEnqueue, BeginEnqueue, BeginRetry, BeginControl, CommitStop,
     CommitControl, Rollback, dbVars
<1>7. ASSUME NEW w \in Workers, Process(w)
      PROVE  Settle(w) \/ ReconcileRecord(w, "finish") \/ UNCHANGED <<job, appState>>
  BY <1>7 DEF Process, Tick, ClaimNextOperation, ClaimOperation, RecoverStaleOperation,
     RejectOperation, StartExternal, EndExternal, Resolve, FinishStopped, FinishOperationIfUnstopped,
     ReconcileSeen, ReconcileObserve, FinishProcessing, DeliverAudit, dbVars
<1>8. ASSUME NEW w \in Workers,
             Restart(w) \/ Attend(w) \/ Fail(w) \/ \E a \in Apps : ReconcileLoop(w, a)
      PROVE  ReconcileRecord(w, "loop") \/ UNCHANGED <<job, appState>>
  BY <1>8 DEF Restart, Attend, WatchStop, Heartbeat, DrainAuditOutbox, DeliverAudit, Fail, WatchLoss,
     FailedCall, Crash, FailedReconcile, ReconcileLoop, ReconcileSeen, ReconcileBlind,
     ReconcileObserve, dbVars
<1>9. World \/ UNCHANGED vars => UNCHANGED <<job, appState>>
  BY DEF World, Age, Stall, NamespaceGone, vars, dbVars
<1> QED
  BY <1>2, <1>3, <1>4, <1>5, <1>6, <1>7, <1>8, <1>9 DEF Next, Reconcilers

\* The row follows the operation it names through every step.
LEMMA IntentInductive ==
  ASSUME IndInv, IntentInv, [Next]_vars
  PROVE  IntentInv'
<1>1. Remembered /\ TypeOK
  BY NoneForgotten DEF IndInv
<1>2. CASE Kept
  BY <1>1, <1>2 DEF Kept, Remembered, IntentInv, DesiredFollowsLastOperation, TypeOK, Rows, Ids
<1>3. CASE Inserted
  <2>1. PICK id \in Ids, j \in Jobs :
          InsertQueued(id, j) /\ status[id] = "absent" /\ status'[id] = "queued"
    BY <1>3 DEF Inserted
  <2>2. j.app \in Apps
    BY DEF Jobs
  <2>3. /\ job'[id] = j /\ \A i \in Ids \ {id} : job'[i] = job[i]
        /\ appState'[j.app].desired = DesiredFor(j.kind) /\ appState'[j.app].last = id
        /\ \A a \in Apps \ {j.app} : appState'[a] = appState[a]
    BY <1>1, <2>1, <2>2 DEF TypeOK, InsertQueued
  <2>4. \A a \in Apps \ {j.app} : appState[a].last # 0 => appState[a].last \in Ids \ {id}
    BY <1>1, <2>1 DEF TypeOK, Rows, Ids, IntentInv
  <2> QED
    BY <1>1, <2>1, <2>3, <2>4 DEF IntentInv, DesiredFollowsLastOperation, Remembered
<1> QED
  BY <1>2, <1>3, IntentStep

\* No row names an operation initially.
LEMMA InitIntent == Init => IntentInv
BY DEF Init, IntentInv, DesiredFollowsLastOperation, NoRow

\* The row of an app always states the intent of the operation it names.
THEOREM IntentFollowed == Spec => []DesiredFollowsLastOperation
<1>1. Init /\ [][Next]_vars /\ []IndInv => []IntentInv
  BY InitIntent, IntentInductive, PTL
<1>2. IntentInv => DesiredFollowsLastOperation
  BY DEF IntentInv
<1> QED
  BY <1>1, <1>2, IndInvHolds, PTL DEF Spec

\* The row comes to name another operation only in the step that queues it.
THEOREM IntentNewest == Spec => NewerIntentKept
<1> DEFINE Change == \A a \in Apps : appState'[a].last # appState[a].last =>
       LET last == appState'[a].last
       IN last \in Ids /\ status[last] = "absent" /\ status'[last] = "queued"
<1>1. ASSUME IndInv, IntentInv, [Next]_vars PROVE [Change]_vars
  <2>1. CASE Kept
    BY <2>1 DEF Kept
  <2>2. CASE Inserted
    <3>1. PICK id \in Ids, j \in Jobs :
            InsertQueued(id, j) /\ status[id] = "absent" /\ status'[id] = "queued"
      BY <2>2 DEF Inserted
    <3>2. \A a \in Apps : appState'[a].last = id \/ appState'[a] = appState[a]
      BY <3>1 DEF IndInv, TypeOK, InsertQueued, Jobs
    <3> QED
      BY <3>1, <3>2
  <2> QED
    BY <1>1, <2>1, <2>2, IntentStep
<1>2. Init /\ [][Next]_vars /\ []IndInv => []IntentInv
  BY InitIntent, IntentInductive, PTL
<1> QED
  BY <1>1, <1>2, IndInvHolds, PTL DEF Spec, NewerIntentKept

(***************************************************************************)
(* Retries.                                                                *)
(***************************************************************************)
Exists(id) == status[id] # "absent"

\* A new operation retries none, and the retry of one marks it: nobody else can.
RetryInv ==
  /\ \A c \in Clients : req[c].act = "enqueue" => req[c].job.of = 0
  /\ \A id \in Ids : Exists(id) /\ job[id].of # 0 => status[job[id].of] = "retried"
  /\ \A i, j \in Ids : Exists(i) /\ Exists(j) /\ job[i].of # 0 /\ job[i].of = job[j].of => i = j
  /\ \A id \in Ids : status[id] = "retried" => \E i \in Ids : Exists(i) /\ job[i].of = id

\* A step that creates no operation and marks none as retried.
NoneCreated ==
  /\ UNCHANGED job
  /\ \A id \in Ids : /\ status'[id] = "absent" <=> status[id] = "absent"
                     /\ status'[id] = "retried" <=> status[id] = "retried"

\* A step that creates an operation, of a request that is open.
Created(c) ==
  /\ job' = [job EXCEPT ![req[c].id] = req[c].job]
  /\ \/ /\ req[c].act = "enqueue"
        /\ status' = [status EXCEPT ![req[c].id] = "queued"]
     \/ /\ req[c].act = "retry" /\ status[req[c].job.of] = "failed"
        /\ status' = [status EXCEPT ![req[c].job.of] = "retried", ![req[c].id] = "queued"]

\* A request that is opened to enqueue retries nothing.
LEMMA EnqueueRetriesNone ==
  ASSUME IndInv, RetryInv, [Next]_vars, NEW d \in Clients, req'[d].act = "enqueue"
  PROVE  req'[d].job.of = 0
<1>1. CASE UNCHANGED req
  BY <1>1 DEF RetryInv
<1>2. ASSUME NEW c \in Clients, Request(c) PROVE req'[d].job.of = 0
  <2>1. CASE req' = [req EXCEPT ![c] = NoReq]
    BY <2>1 DEF IndInv, TypeOK, RetryInv, NoReq
  <2>2. ASSUME NEW r, req' = [req EXCEPT ![c] = r], r.act = "enqueue" => r.job.of = 0
        PROVE  req'[d].job.of = 0
    BY <2>2 DEF IndInv, TypeOK, RetryInv
  <2>3. ASSUME NEW a \in Apps, NEW k \in Kinds, BeginEnqueue(c, a, k) PROVE req'[d].job.of = 0
    BY <2>2, <2>3 DEF BeginEnqueue, Open
  <2>4. ASSUME NEW id \in Ids, BeginRetry(c, id) PROVE req'[d].job.of = 0
    BY <2>2, <2>4 DEF BeginRetry, Open
  <2>5. ASSUME NEW id \in Ids, NEW action \in {"pause", "resume", "cancel"},
               BeginControl(c, id, action)
        PROVE  req'[d].job.of = 0
    BY <2>2, <2>5 DEF BeginControl, Open
  <2> QED
    BY <1>2, <2>1, <2>3, <2>4, <2>5 DEF Request, BeginExclusiveEnqueue, CommitEnqueue, CommitRetry,
       CommitStop, CommitControl, Rollback, Close
<1>3. ASSUME NEW w \in Workers,
             Restart(w) \/ Process(w) \/ Attend(w) \/ Fail(w) \/ \E a \in Apps : ReconcileLoop(w, a)
      PROVE  UNCHANGED req
  BY <1>3 DEF Restart, Process, Tick, ClaimNextOperation, ClaimOperation, RecoverStaleOperation,
     RejectOperation, StartExternal, EndExternal, Resolve, FinishStopped, FinishOperationIfUnstopped,
     Settle, FinishProcessing, Attend, WatchStop, Heartbeat, DrainAuditOutbox, Fail, WatchLoss,
     FailedCall, Crash, FailedReconcile, ReconcileLoop, ReconcileSeen, ReconcileBlind,
     ReconcileObserve, ReconcileRecord, apiVars
<1>4. World \/ UNCHANGED vars => UNCHANGED req
  BY DEF World, Age, Stall, NamespaceGone, vars, apiVars
<1> QED
  BY <1>1, <1>2, <1>3, <1>4 DEF Next

\* No other step than that of an open request creates an operation.
LEMMA CreationStep ==
  ASSUME IndInv, [Next]_vars
  PROVE  NoneCreated \/ \E c \in Clients : Created(c)
<1>1. ASSUME UNCHANGED <<job, status>> PROVE NoneCreated
  BY <1>1 DEF NoneCreated
<1>2. ASSUME NEW id \in Ids, status[id] \notin {"absent", "retried"},
             NEW s, s \notin {"absent", "retried"},
             status' = [status EXCEPT ![id] = s], UNCHANGED job
      PROVE  NoneCreated
  BY <1>2 DEF NoneCreated, IndInv, TypeOK
<1>3. ASSUME NEW c \in Clients, Request(c) PROVE NoneCreated \/ Created(c)
  <2>1. CASE CommitEnqueue(c) \/ CommitRetry(c)
    BY <2>1 DEF CommitEnqueue, CommitRetry, InsertQueued, Created
  <2>2. CASE CommitControl(c)
    <3>1. /\ req[c].id \in Ids /\ UNCHANGED job
          /\ status[req[c].id] \in {"queued", "paused"}
          /\ status' = [status EXCEPT ![req[c].id] = ControlTo(req[c].act)]
      BY <2>2 DEF CommitControl, ControlFrom, IndInv, FreshIdsInv
    <3>2. ControlTo(req[c].act) \notin {"absent", "retried"}
      BY DEF ControlTo
    <3> QED
      BY <1>2, <3>1, <3>2
  <2>3. UNCHANGED <<job, status>> \/ CommitEnqueue(c) \/ CommitRetry(c) \/ CommitControl(c)
    BY <1>3 DEF Request, BeginExclusiveEnqueue, BeginEnqueue, BeginRetry, BeginControl, CommitStop,
       Rollback, dbVars
  <2> QED
    BY <1>1, <2>1, <2>2, <2>3
<1>4. ASSUME NEW w \in Workers, Process(w) PROVE NoneCreated
  <2>1. pc[w] \notin {"down", "idle", "recover"} => cur[w] \in Ids
    BY DEF IndInv, HoldingInv, Holding
  <2>2. CASE ClaimOperation(w) \/ FinishStopped(w) \/ FinishOperationIfUnstopped(w)
    <3>1. /\ cur[w] \in Ids
          /\ \/ UNCHANGED <<job, status>>
             \/ /\ UNCHANGED job /\ status[cur[w]] \in {"queued", "running"}
                /\ \E s \in {"running", "cancelled", "succeeded", "failed"} :
                     status' = [status EXCEPT ![cur[w]] = s]
      BY <2>1, <2>2 DEF ClaimOperation, Claimable, FinishStopped, FinishOperationIfUnstopped, Verdict
    <3> QED
      BY <1>1, <1>2, <3>1
  <2>3. ASSUME NEW c \in cand[w], RecoverStaleOperation(w, c) PROVE NoneCreated
    <3>1. /\ c[1] \in Ids
          /\ \/ UNCHANGED <<job, status>>
             \/ /\ UNCHANGED job /\ status[c[1]] = "running"
                /\ \E s \in {"cancelled", "failed"} : status' = [status EXCEPT ![c[1]] = s]
      BY <2>3 DEF IndInv, TypeOK, RecoverStaleOperation
    <3> QED
      BY <1>1, <1>2, <3>1
  <2>4. \/ UNCHANGED <<job, status>>
        \/ ClaimOperation(w) \/ FinishStopped(w) \/ FinishOperationIfUnstopped(w)
        \/ \E c \in cand[w] : RecoverStaleOperation(w, c)
    BY <1>4 DEF Process, Tick, ClaimNextOperation, RejectOperation, StartExternal, EndExternal,
       Resolve, Settle, ReconcileSeen, ReconcileObserve, ReconcileRecord, FinishProcessing,
       DeliverAudit, dbVars
  <2> QED
    BY <1>1, <2>2, <2>3, <2>4
<1>5. ASSUME NEW w \in Workers,
             Restart(w) \/ Attend(w) \/ Fail(w) \/ \E a \in Apps : ReconcileLoop(w, a)
      PROVE  UNCHANGED <<job, status>>
  BY <1>5 DEF Restart, Attend, WatchStop, Heartbeat, DrainAuditOutbox, DeliverAudit, Fail, WatchLoss,
     FailedCall, Crash, FailedReconcile, ReconcileLoop, ReconcileSeen, ReconcileBlind,
     ReconcileObserve, ReconcileRecord, dbVars
<1>6. World \/ UNCHANGED vars => UNCHANGED <<job, status>>
  BY DEF World, Age, Stall, NamespaceGone, vars, dbVars
<1> QED
  BY <1>1, <1>3, <1>4, <1>5, <1>6 DEF Next

\* Creating an operation marks the one it retries, which nobody has retried before.
LEMMA CreatedKeeps ==
  ASSUME IndInv, RetryInv, NEW c \in Clients, Created(c),
         \A d \in Clients : req'[d].act = "enqueue" => req'[d].job.of = 0
  PROVE  RetryInv'
<1> DEFINE new == req[c].id
           old == req[c].job.of
<1>1. TypeOK
  BY DEF IndInv
<1>2. new \in Ids /\ status[new] = "absent" /\ old \in 0..MaxOps /\ (0 \notin Ids)
      /\ req[c].act \in {"enqueue", "retry"}
  BY <1>1 DEF Created, IndInv, FreshIdsInv, TypeOK, Reqs, Jobs, Ids
<1>3. /\ job'[new].of = old
      /\ \A i \in Ids \ {new} : job'[i] = job[i]
      /\ \A i \in Ids : job[i].of \in 0..MaxOps
  BY <1>1, <1>2 DEF Created, TypeOK, Jobs
<1>4. CASE req[c].act = "enqueue"
  <2>1. old = 0 /\ status'[new] = "queued" /\ \A i \in Ids \ {new} : status'[i] = status[i]
    BY <1>1, <1>2, <1>4 DEF Created, TypeOK, RetryInv
  <2>2. \A i \in Ids : Exists(i) /\ job[i].of # 0 => job[i].of \in Ids \ {new}
    BY <1>2, <1>3 DEF RetryInv, Ids
  <2> HIDE DEF new, old
  <2> QED
    BY <1>2, <1>3, <2>1, <2>2 DEF RetryInv, Exists
<1>5. CASE req[c].act = "retry"
  <2>1. /\ old \in Ids /\ status[old] = "failed" /\ old # new
        /\ status'[new] = "queued" /\ status'[old] = "retried"
        /\ \A i \in Ids \ {new, old} : status'[i] = status[i]
    BY <1>1, <1>2, <1>5 DEF Created, TypeOK, IndInv, FreshIdsInv
  <2>2. \A i \in Ids : Exists(i) /\ job[i].of # 0 => job[i].of \in Ids \ {new, old}
    BY <1>2, <1>3, <2>1 DEF RetryInv, Ids
  <2>3. \A i \in Ids \ {new} : Exists(i)' <=> Exists(i)
    BY <2>1 DEF Exists
  <2> HIDE DEF new, old
  <2>4. \A i \in Ids : Exists(i)' /\ job'[i].of # 0 => status'[job'[i].of] = "retried"
    <3> SUFFICES ASSUME NEW i \in Ids, Exists(i)', job'[i].of # 0
                 PROVE  status'[job'[i].of] = "retried"
      OBVIOUS
    <3>1. CASE i = new
      BY <1>3, <2>1, <3>1
    <3>2. CASE i # new
      BY <1>3, <2>1, <2>2, <2>3, <3>2 DEF RetryInv
    <3> QED
      BY <3>1, <3>2
  <2>5. \A i, j \in Ids :
          Exists(i)' /\ Exists(j)' /\ job'[i].of # 0 /\ job'[i].of = job'[j].of => i = j
    BY <1>2, <1>3, <2>2, <2>3 DEF RetryInv
  <2>6. \A id \in Ids : status'[id] = "retried" => \E i \in Ids : Exists(i)' /\ job'[i].of = id
    <3> SUFFICES ASSUME NEW id \in Ids, status'[id] = "retried"
                 PROVE  \E i \in Ids : Exists(i)' /\ job'[i].of = id
      OBVIOUS
    <3>1. CASE id = old
      BY <1>2, <1>3, <2>1, <3>1 DEF Exists
    <3>2. CASE id # old
      <4>1. status[id] = "retried"
        BY <2>1, <3>2
      <4>2. PICK i \in Ids : Exists(i) /\ job[i].of = id
        BY <4>1 DEF RetryInv
      <4>3. i # new
        BY <1>2, <4>2 DEF Exists
      <4> QED
        BY <1>3, <2>3, <4>2, <4>3
    <3> QED
      BY <3>1, <3>2
  <2> QED
    BY <2>4, <2>5, <2>6 DEF RetryInv
<1> QED
  BY <1>2, <1>4, <1>5

LEMMA RetryInductive ==
  ASSUME IndInv, RetryInv, [Next]_vars
  PROVE  RetryInv'
<1>1. \A d \in Clients : req'[d].act = "enqueue" => req'[d].job.of = 0
  BY EnqueueRetriesNone
<1>2. CASE NoneCreated
  <2>1. job \in [Ids -> Jobs]
    BY DEF IndInv, TypeOK
  <2>2. \A id \in Ids : job[id].of # 0 => job[id].of \in Ids
    BY <2>1 DEF Jobs, Ids
  <2> QED
    BY <1>1, <1>2, <2>2 DEF NoneCreated, RetryInv, Exists
<1> QED
  BY <1>1, <1>2, CreationStep, CreatedKeeps

\* A failed operation is retried at most once, and is marked so exactly when it is.
THEOREM RetriesOnce == Spec => []RetriedOnce
<1>1. Init => RetryInv
  BY DEF Init, RetryInv, Exists, NoReq
<1>2. RetryInv => RetriedOnce
  <2> SUFFICES ASSUME RetryInv, NEW id \in Ids
               PROVE  Cardinality({i \in Ids : status[i] # "absent" /\ job[i].of = id})
                        = IF status[id] = "retried" THEN 1 ELSE 0
    BY DEF RetriedOnce
  <2> DEFINE retries == {i \in Ids : status[i] # "absent" /\ job[i].of = id}
  <2>1. id # 0
    BY DEF Ids
  <2>2. CASE status[id] = "retried"
    <3>1. PICK i \in Ids : retries = {i}
      BY <2>1, <2>2 DEF RetryInv, Exists
    <3> QED
      BY <2>2, <3>1, FS_Singleton
  <2>3. CASE status[id] # "retried"
    <3>1. retries = {}
      BY <2>1, <2>3 DEF RetryInv, Exists
    <3> QED
      BY <2>3, <3>1, FS_EmptySet
  <2> QED
    BY <2>2, <2>3
<1>3. Init /\ [][Next]_vars /\ []IndInv => []RetryInv
  BY <1>1, RetryInductive, PTL
<1> QED
  BY <1>2, <1>3, IndInvHolds, PTL DEF Spec

-----------------------------------------------------------------------------
(* AppOperations implements OperationLifecycle: every step of a request, a *)
(* worker, a failure or the world is a step of the lifecycle of one        *)
(* operation, or changes nothing a lifecycle speaks of.                    *)

\* The initial state maps to the initial state of the lifecycle.
LEMMA InitRefines == Init => Lifecycle!Init
BY DEF Init, Lifecycle!Init

Unseen == UNCHANGED <<status, stopReq, runs, outbox, audits>>

Refined == Unseen \/ \E id \in Ids :
  \/ Lifecycle!Queue(id) \/ Lifecycle!Control(id) \/ Lifecycle!Start(id)
  \/ Lifecycle!RequestStop(id) \/ Lifecycle!Run(id) \/ Lifecycle!Finish(id) \/ Lifecycle!Audit(id)
  \/ \E old \in Ids : Lifecycle!Retry(old, id)

\* A request maps to queueing, retrying, controlling or stopping an operation, or to nothing.
LEMMA RequestRefines ==
  ASSUME IndInv, NEW c \in Clients, Request(c)
  PROVE  Refined
<1>1. CASE UNCHANGED dbVars /\ UNCHANGED worldVars
  BY <1>1 DEF Refined, Unseen, dbVars, worldVars
<1>2. CASE CommitEnqueue(c)
  <2>1. req[c].id \in Ids /\ status[req[c].id] = "absent"
    BY <1>2 DEF IndInv, FreshIdsInv, CommitEnqueue
  <2>2. Lifecycle!Queue(req[c].id)
    BY <1>2, <2>1 DEF CommitEnqueue, Lifecycle!Queue, Lifecycle!Move, worldVars
  <2> QED
    BY <2>1, <2>2 DEF Refined
<1>3. CASE CommitRetry(c)
  <2>1. req[c].id \in Ids /\ status[req[c].id] = "absent" /\ req[c].job.of \in Ids
    BY <1>3 DEF IndInv, FreshIdsInv, CommitRetry
  <2>2. Lifecycle!Retry(req[c].job.of, req[c].id)
    BY <1>3, <2>1 DEF CommitRetry, Lifecycle!Retry, worldVars
  <2> QED
    BY <2>1, <2>2 DEF Refined
<1>4. CASE CommitStop(c)
  <2>1. req[c].id \in Ids
    BY <1>4 DEF IndInv, FreshIdsInv, CommitStop
  <2>2. Lifecycle!RequestStop(req[c].id)
    BY <1>4 DEF CommitStop, Lifecycle!RequestStop, worldVars
  <2> QED
    BY <2>1, <2>2 DEF Refined
<1>5. CASE CommitControl(c)
  <2>1. req[c].id \in Ids
    BY <1>5 DEF IndInv, FreshIdsInv, CommitControl
  <2>2. Lifecycle!Control(req[c].id)
    BY <1>5 DEF CommitControl, ControlFrom, ControlTo, Lifecycle!Control, Lifecycle!Move, worldVars
  <2> QED
    BY <2>1, <2>2 DEF Refined
<1> QED
  BY <1>1, <1>2, <1>3, <1>4, <1>5 DEF Request, BeginExclusiveEnqueue, BeginEnqueue, BeginRetry,
     BeginControl, Rollback

\* An operation that leaves running does what the lifecycle allows of it.
LEMMA EndRefines ==
  ASSUME IndInv, NEW id \in Ids, NEW verdict, NEW outcome,
         status[id] = "running",
         status' = [status EXCEPT ![id] = verdict], outbox' = [outbox EXCEPT ![id] = outcome],
         IF stopReq[id] THEN verdict = "cancelled" /\ outcome = "indeterminate"
         ELSE \/ verdict = "failed" /\ outcome \in {"failed", "indeterminate"}
              \/ verdict = "succeeded" /\ outcome = "succeeded" /\ id \in okRuns,
         UNCHANGED <<stopReq, runs, audits>>
  PROVE  Refined
<1>1. outbox[id] = "none"
  BY DEF IndInv, OutcomeMatchesStatus, TypeOK
<1>2. id \in okRuns => runs[id] = 1
  BY DEF IndInv, ResultInv
<1>3. <<verdict, outcome>> \in Lifecycle!Endings(id)
  BY <1>2 DEF Lifecycle!Endings
<1>4. Lifecycle!Finish(id)
  BY <1>1, <1>3 DEF Lifecycle!Finish, Lifecycle!Move
<1> QED
  BY <1>4 DEF Refined

\* Delivering an outcome maps to its audit.
LEMMA DeliverRefines ==
  ASSUME IndInv, NEW id \in Ids, DeliverAudit(id), UNCHANGED runs
  PROVE  Refined
<1>1. audits[id] = 0
  BY DEF IndInv, AuditInv, DeliverAudit
<1>2. Lifecycle!Audit(id)
  BY <1>1 DEF DeliverAudit, Lifecycle!Audit
<1> QED
  BY <1>2 DEF Refined

\* The operation loop maps to starting, running, finishing and auditing.
LEMMA ProcessRefines ==
  ASSUME IndInv, NEW w \in Workers, Process(w)
  PROVE  Refined
<1>h. pc[w] \notin {"down", "idle", "recover"} => cur[w] \in Ids
  BY DEF IndInv, HoldingInv, Holding
<1>1. CASE Unseen
  BY <1>1 DEF Refined
<1>2. CASE ClaimOperation(w) /\ Claimable(cur[w])
  <2>1. Lifecycle!Start(cur[w])
    BY <1>2 DEF ClaimOperation, Claimable, Lifecycle!Start, Lifecycle!Move, worldVars
  <2> QED
    BY <1>2, <1>h, <2>1 DEF Refined, ClaimOperation
<1>3. ASSUME NEW c \in cand[w], RecoverStaleOperation(w, c), ~Unseen PROVE Refined
  <2> DEFINE verdict == IF c[2] THEN "cancelled" ELSE "failed"
  <2>1. c[1] \in Ids
    BY DEF IndInv, TypeOK
  <2>2. /\ status[c[1]] = "running" /\ stopReq[c[1]] = c[2]
        /\ status' = [status EXCEPT ![c[1]] = verdict]
        /\ outbox' = [outbox EXCEPT ![c[1]] = "indeterminate"]
        /\ UNCHANGED <<stopReq, runs, audits>>
    BY <1>3 DEF RecoverStaleOperation, Unseen, worldVars
  <2>3. IF stopReq[c[1]] THEN verdict = "cancelled" ELSE verdict = "failed"
    BY <2>2
  <2> HIDE DEF verdict
  <2> QED
    BY <2>1, <2>2, <2>3, EndRefines
<1>4. CASE StartExternal(w)
  <2>1. runs[cur[w]] = 0 /\ status[cur[w]] \in Started /\ cur[w] \in Ids
    BY <1>4 DEF IndInv, HoldingInv, Holding, StartExternal
  <2>2. Lifecycle!Run(cur[w])
    BY <1>4, <2>1 DEF StartExternal, Lifecycle!Run, Lifecycle!Started, Started, dbVars
  <2> QED
    BY <2>1, <2>2 DEF Refined
<1>5. CASE FinishStopped(w) /\ ~Unseen
  <2>1. /\ status[cur[w]] = "running" /\ stopReq[cur[w]] /\ cur[w] \in Ids
        /\ status' = [status EXCEPT ![cur[w]] = "cancelled"]
        /\ outbox' = [outbox EXCEPT ![cur[w]] = "indeterminate"]
        /\ UNCHANGED <<stopReq, runs, audits>>
    BY <1>5, <1>h DEF FinishStopped, Unseen, worldVars
  <2> QED
    BY <2>1, EndRefines
<1>6. CASE FinishOperationIfUnstopped(w) /\ ~Unseen
  <2>1. /\ status[cur[w]] = "running" /\ ~stopReq[cur[w]] /\ cur[w] \in Ids
        /\ status' = [status EXCEPT ![cur[w]] = Verdict(w)]
        /\ outbox' = [outbox EXCEPT ![cur[w]] = Outcome(w)]
        /\ UNCHANGED <<stopReq, runs, audits>>
        /\ pc[w] \in {"failing", "succeeding"}
    BY <1>6, <1>h DEF FinishOperationIfUnstopped, Unseen, worldVars
  <2>2. \/ Verdict(w) = "failed" /\ Outcome(w) \in {"failed", "indeterminate"}
        \/ Verdict(w) = "succeeded" /\ Outcome(w) = "succeeded" /\ cur[w] \in okRuns
    BY <2>1 DEF Verdict, Outcome, IndInv, ResultInv
  <2> QED
    BY <2>1, <2>2, EndRefines
<1>7. CASE FinishProcessing(w) /\ DeliverAudit(cur[w])
  <2>1. cur[w] \in Ids /\ UNCHANGED runs
    BY <1>7, <1>h DEF FinishProcessing, worldVars
  <2> QED
    BY <1>7, <2>1, DeliverRefines
<1>8. \/ Unseen
      \/ ClaimOperation(w) /\ Claimable(cur[w])
      \/ (\E c \in cand[w] : RecoverStaleOperation(w, c)) \/ StartExternal(w)
      \/ FinishStopped(w) \/ FinishOperationIfUnstopped(w)
      \/ FinishProcessing(w) /\ DeliverAudit(cur[w])
  <2>1. ClaimOperation(w) => Unseen \/ Claimable(cur[w])
    BY DEF ClaimOperation, Unseen, worldVars
  <2>2. FinishProcessing(w) => Unseen \/ DeliverAudit(cur[w])
    BY DEF FinishProcessing, Unseen, dbVars, worldVars
  <2>3. Tick(w) \/ ClaimNextOperation(w) \/ RejectOperation(w) \/ Resolve(w) \/ Settle(w)
        => Unseen
    BY DEF Unseen, Tick, ClaimNextOperation, RejectOperation, Resolve, Settle, dbVars, worldVars
  <2>4. (\E r \in {"ok", "err", "indeterminate"} : EndExternal(w, r)) => Unseen
    BY DEF Unseen, EndExternal, dbVars
  <2>5. (\E a \in Apps : ReconcileSeen(w, "finish", a)) \/ ReconcileRecord(w, "finish") => Unseen
    BY DEF Unseen, ReconcileSeen, ReconcileObserve, ReconcileRecord, dbVars, worldVars
  <2> QED
    BY <2>1, <2>2, <2>3, <2>4, <2>5 DEF Process
<1> QED
  BY <1>1, <1>2, <1>3, <1>4, <1>5, <1>6, <1>7, <1>8

\* The tasks beside it and the failures show only as audits.
LEMMA OtherRefines ==
  ASSUME IndInv, NEW w \in Workers,
         Restart(w) \/ Attend(w) \/ Fail(w) \/ \E a \in Apps : ReconcileLoop(w, a)
  PROVE  Refined
<1>1. ASSUME NEW id \in Ids, DrainAuditOutbox(w, id) PROVE Refined
  BY <1>1, DeliverRefines DEF DrainAuditOutbox, worldVars
<1>2. CASE Unseen
  BY <1>2 DEF Refined
<1>3. Unseen \/ \E id \in Ids : DrainAuditOutbox(w, id)
  BY DEF Unseen, Restart, Attend, WatchStop, Heartbeat, Fail, WatchLoss, FailedCall, Crash,
     FailedReconcile, ReconcileLoop, ReconcileSeen, ReconcileBlind, ReconcileObserve,
     ReconcileRecord, dbVars, worldVars
<1> QED
  BY <1>1, <1>2, <1>3

\* Time and the cluster do not show.
LEMMA WorldRefines == World => Unseen
BY DEF Unseen, World, Age, Stall, NamespaceGone, dbVars, worldVars

\* Every step maps to a step of the lifecycle or to none.
LEMMA StepRefines ==
  ASSUME IndInv, [Next]_vars
  PROVE  [Lifecycle!Next]_Lifecycle!vars
<1>1. Refined
  <2>1. CASE UNCHANGED vars
    BY <2>1 DEF Refined, Unseen, vars, dbVars, worldVars
  <2>2. CASE Next
    BY <2>2, RequestRefines, ProcessRefines, OtherRefines, WorldRefines DEF Next, Refined
  <2> QED
    BY <2>1, <2>2
<1> QED
  BY <1>1 DEF Refined, Unseen, Lifecycle!Next, Lifecycle!vars

\* The queue implements the lifecycle: this is LifecycleKept for every instance.
THEOREM LifecycleImplemented == Spec => LifecycleKept
<1>1. Init /\ [][Next]_vars /\ []IndInv => Lifecycle!Init /\ [][Lifecycle!Next]_Lifecycle!vars
  BY InitRefines, StepRefines, PTL
<1> QED
  BY <1>1, IndInvHolds, PTL DEF Spec, LifecycleKept, Lifecycle!Spec
=============================================================================
