---------------------------- MODULE AppDeployment ----------------------------
(***************************************************************************)
(* What an operation of one app deploys: the VPN assignment it resolves,   *)
(* the storage choice pinned when it was queued, and the proof that the    *)
(* private config was created afresh.  The requests that change these and  *)
(* queue an operation do so in one transaction, whose check for an active  *)
(* operation others can overtake.  How operations are claimed, stopped and *)
(* recovered is in AppOperations: here one worker takes them in order, and *)
(* a step that fails or is stopped ends the operation.                     *)
(***************************************************************************)
EXTENDS Naturals, Sequences

CONSTANTS
  Providers,  \* VPN providers
  None,       \* no provider, no row, nothing
  Admins,     \* requests about the app that can be in flight
  MaxOps,     \* operations (bound)
  MaxChanges  \* changes of providers and of the chart (bound)

BoundAssumption == MaxChanges \in Nat

VARIABLES
  provider,   \* "absent", "disabled" or "enabled"
  assigned,   \* app_vpn_configs: the provider of the app
  saved,      \* app_storage_config: private config, chart version, proof of freshness
  chart,      \* the chart version of the catalog
  calling,    \* what they have in flight
  deleting,   \* the provider that a request is about to delete
  queue,      \* the queued operations
  run,        \* the operation that is executed, and how far it is
  newest,     \* number and status of the operation queued last
  retryable,  \* that operation if it failed
  release,    \* the Helm release: the VPN and the confirmation among its values
  vpnSecret,  \* the provider in the app's VPN Secret
  claim,      \* the private claim: none, made by Helm, or older than saved storage
  cascaded,   \* the deletion of a provider took an assignment with it
  changes     \* changes made so far

tables == <<provider, assigned, saved, chart>>
requests == <<calling, deleting>>
cluster == <<release, vpnSecret, claim>>
deployVars == <<tables, requests, queue, run, newest, retryable, cluster, cascaded, changes>>

Idle == [step |-> "idle"]
NoRequest == [kind |-> "none"]
Configs == {"own", "existing"}  \* create a claim, or use one that exists

\* The app may be there, from before its storage was saved.
Init ==
  /\ provider = [p \in Providers |-> "enabled"]
  /\ assigned = None
  /\ saved = None
  /\ chart = 1
  /\ calling = [c \in Admins |-> NoRequest]
  /\ deleting = None
  /\ queue = <<>>
  /\ run = Idle
  /\ newest = [id |-> 0, status |-> "none"]
  /\ retryable = None
  /\ release \in {None, [vpn |-> None, confirmed |-> FALSE]}
  /\ vpnSecret = None
  /\ claim = IF release = None THEN "none" ELSE "legacy"
  /\ cascaded = FALSE
  /\ changes = 0

Active == queue # <<>> \/ run # Idle

-----------------------------------------------------------------------------
(* Queueing.  An operation pins the storage it was queued with, and one of *)
(* the install wizard the assignment too: any other takes what it finds.   *)

Snapshot == IF saved = None THEN None ELSE [saved EXCEPT !.version = chart]

Operation(kind, pin, vpn) ==
  [id |-> newest.id + 1, kind |-> kind, pin |-> pin, vpn |-> vpn,
   pinsVpn |-> kind = "wizard"]

Enqueue(op) ==
  /\ newest.id < MaxOps
  /\ newest' = [id |-> op.id, status |-> "queued"]
  /\ queue' = Append(queue, op)
  /\ retryable' = None

Begin(c, r) == calling[c] = NoRequest /\ calling' = [calling EXCEPT ![c] = r] /\ UNCHANGED deleting
End(c) == calling' = [calling EXCEPT ![c] = NoRequest] /\ UNCHANGED deleting

\* A transaction that has written the assignment holds its row, and the provider's.
Holds(c) == calling[c].kind \in {"assign", "remove"} /\ calling[c].row
RowHeld == \E c \in Admins : Holds(c)
ProviderHeld(p) == \E c \in Admins : calling[c].kind = "assign" /\ calling[c].to = p

\* assign_vpn: the assignment is written before the check.
BeginAssign(c, p) ==
  /\ provider[p] = "enabled" /\ ~RowHeld /\ ~Active
  /\ Begin(c, [kind |-> "assign", to |-> p, row |-> TRUE])
  /\ UNCHANGED <<tables, queue, run, newest, retryable, cluster, cascaded, changes>>

\* remove_vpn: no row, nothing to write.
BeginRemove(c) ==
  /\ ~(RowHeld /\ assigned # None) /\ ~Active
  /\ Begin(c, [kind |-> "remove", to |-> None, row |-> assigned # None])
  /\ UNCHANGED <<tables, queue, run, newest, retryable, cluster, cascaded, changes>>

\* Mutant of CommitVpn: the app is not redeployed when its VPN is removed.
CommitVpnOnly(c) ==
  /\ calling[c].kind \in {"assign", "remove"}
  /\ assigned' = IF calling[c].row THEN calling[c].to ELSE assigned
  /\ IF calling[c].kind = "assign" THEN Enqueue(Operation("update", Snapshot, None))
     ELSE UNCHANGED <<newest, queue, retryable>>
  /\ End(c)
  /\ UNCHANGED <<provider, saved, chart, run, cluster, cascaded, changes>>

\* The assignment and its update are committed together.
CommitVpn(c) ==
  /\ calling[c].kind \in {"assign", "remove"}
  /\ assigned' = IF calling[c].row THEN calling[c].to ELSE assigned
  /\ Enqueue(Operation("update", Snapshot, None))
  /\ End(c)
  /\ UNCHANGED <<provider, saved, chart, run, cluster, cascaded, changes>>

\* A field that is left out keeps the saved choice.
Materialize(config) == IF config # "omitted" THEN config
                       ELSE IF saved # None THEN saved.config ELSE "own"

\* install_app with choices: the check, the saved row, and the provider it asks for.
BeginInstall(c, config, vpn) ==
  /\ ~Active
  /\ vpn \in Providers => provider[vpn] = "enabled"
  /\ LET chosen == Materialize(config)
     IN Begin(c, [kind |-> "install", vpn |-> vpn, version |-> chart, config |-> chosen,
                  fresh |-> saved # None /\ saved.fresh /\ saved.config = chosen])
  /\ UNCHANGED <<tables, queue, run, newest, retryable, cluster, cascaded, changes>>

\* save: a proof stays with the private config it is about.
Saved(version, config) ==
  [config |-> config, version |-> version,
   fresh |-> saved # None /\ saved.fresh /\ saved.config = config]

\* Assignment, operation and saved choice are all or nothing. The chart must not have
\* changed, nor the provider gone.
CommitInstall(c) ==
  /\ calling[c].kind = "install"
  /\ LET r == calling[c]
     IN /\ r.version = chart
        /\ r.vpn = "keep" \/ ~RowHeld
        /\ r.vpn \in Providers => provider[r.vpn] # "absent"
        /\ assigned' = IF r.vpn = "keep" THEN assigned ELSE r.vpn
        /\ Enqueue(Operation("wizard", [config |-> r.config, version |-> r.version,
                                        fresh |-> r.fresh], assigned'))
        /\ saved' = Saved(r.version, r.config)
  /\ End(c)
  /\ UNCHANGED <<provider, chart, run, cluster, cascaded, changes>>

\* An install without choices, an update, or a deletion: queued whatever is active.
EnqueueOperation(kind) ==
  /\ Enqueue(Operation(kind, IF kind = "delete" THEN None ELSE Snapshot, None))
  /\ UNCHANGED <<tables, requests, run, cluster, cascaded, changes>>

PinMatches(pin) == pin.version = chart /\ saved # None /\ saved.config = pin.config

\* A failed wizard install may have left the proof behind: its retry can use it.
Promoted(op) ==
  op.kind = "wizard" /\ ~op.pin.fresh /\ saved.fresh /\ op.pin.config = "own"
  /\ saved.version = op.pin.version

\* retry_operation: nothing active, and the pinned choice still the saved one.
RetryOperation ==
  /\ retryable # None /\ ~Active
  /\ LET op == retryable
     IN /\ op.pin # None => PinMatches(op.pin) /\ (saved.fresh = op.pin.fresh \/ Promoted(op))
        /\ op.pin = None /\ op.kind # "delete" => saved = None
        /\ Enqueue([op EXCEPT !.id = newest.id + 1,
                     !.pin = IF @ = None THEN None ELSE [@ EXCEPT !.fresh = saved.fresh]])
  /\ UNCHANGED <<tables, requests, run, cluster, cascaded, changes>>

\* A queued operation is cancelled.
CancelQueued(i) ==
  /\ i \in DOMAIN queue
  /\ queue' = SubSeq(queue, 1, i - 1) \o SubSeq(queue, i + 1, Len(queue))
  /\ newest' = IF queue[i].id = newest.id THEN [newest EXCEPT !.status = "cancelled"] ELSE newest
  /\ UNCHANGED <<tables, requests, run, retryable, cluster, cascaded, changes>>

FailRequest(c) ==
  /\ calling[c] # NoRequest
  /\ End(c)
  /\ UNCHANGED <<tables, queue, run, newest, retryable, cluster, cascaded, changes>>

-----------------------------------------------------------------------------
(* Providers, and the chart sync.                                          *)

Change == changes < MaxChanges /\ changes' = changes + 1

\* update_provider redeploys nothing. (create_provider gives a new one: all are there at first.)
SetProvider(p, status) ==
  /\ Change
  /\ provider[p] \notin {status, "absent"}
  /\ provider' = [provider EXCEPT ![p] = status]
  /\ UNCHANGED <<assigned, saved, chart, requests, queue, run, newest, retryable, cluster,
                 cascaded>>

\* delete_provider counts its apps first.
BeginDeleteProvider(p) ==
  /\ Change
  /\ deleting = None /\ provider[p] # "absent" /\ assigned # p
  /\ deleting' = p
  /\ UNCHANGED <<tables, calling, queue, run, newest, retryable, cluster, cascaded>>

\* An assignment committed since then goes with the row.
CommitDeleteProvider ==
  /\ deleting # None
  /\ ~ProviderHeld(deleting) /\ ~(RowHeld /\ assigned = deleting)
  /\ provider' = [provider EXCEPT ![deleting] = "absent"]
  /\ assigned' = IF assigned = deleting THEN None ELSE assigned
  /\ cascaded' = (cascaded \/ assigned = deleting)
  /\ deleting' = None
  /\ UNCHANGED <<calling, saved, chart, queue, run, newest, retryable, cluster, changes>>

SyncChart ==
  /\ Change
  /\ chart' = chart + 1
  /\ UNCHANGED <<provider, assigned, saved, requests, queue, run, newest, retryable, cluster,
                 cascaded>>

-----------------------------------------------------------------------------
(* Execution.                                                              *)

Finished(status) ==
  /\ run' = Idle
  /\ IF run.op.id = newest.id
     THEN /\ newest' = [newest EXCEPT !.status = status]
          /\ retryable' = IF status = "failed" THEN run.op ELSE None
     ELSE UNCHANGED <<newest, retryable>>

To(step) == run' = [run EXCEPT !.step = step] /\ UNCHANGED <<newest, retryable>>

ClaimOperation ==
  /\ queue # <<>> /\ run = Idle
  /\ run' = [step |-> "check", op |-> Head(queue), vpn |-> None, proven |-> FALSE]
  /\ queue' = Tail(queue)
  /\ UNCHANGED <<tables, requests, newest, retryable, cluster, cascaded, changes>>

\* Mutant of PrivateClaimAbsent: no release is proof enough.
NoReleaseIsProof == TRUE

\* private_claim_absent
PrivateClaimAbsent == claim = "none"

\* What was pinned must be what is there; and only an install of the wizard that finds
\* neither the release nor the private claim will make it afresh.
CheckPins ==
  /\ run # Idle /\ run.step = "check" /\ run.op.kind # "delete"
  /\ LET op == run.op
     IN /\ op.pin # None => PinMatches(op.pin) /\ saved.fresh = op.pin.fresh
        /\ op.pinsVpn => assigned = op.vpn
        /\ run' = [run EXCEPT !.step = "resolve",
                     !.proven = /\ op.kind = "wizard" /\ op.pin.config = "own"
                                /\ release = None /\ PrivateClaimAbsent]
  /\ UNCHANGED <<tables, requests, queue, newest, retryable, cluster, cascaded, changes>>

\* get_vpn_deployment_config: an assigned provider that is disabled fails the operation.
ResolveVpn ==
  /\ run # Idle /\ run.step = "resolve"
  /\ run.op.pinsVpn => assigned = run.op.vpn
  /\ assigned # None => provider[assigned] = "enabled"
  /\ run' = [run EXCEPT !.vpn = assigned, !.step = IF assigned = None THEN "helm" ELSE "secret"]
  /\ UNCHANGED <<tables, requests, queue, newest, retryable, cluster, cascaded, changes>>

\* create_vpn_secret_for_app_checked reads the assignment again.
ReplaceSecret ==
  /\ run # Idle /\ run.step = "secret"
  /\ assigned # None /\ provider[assigned] = "enabled"
  /\ run.op.pinsVpn => assigned = run.op.vpn
  /\ vpnSecret' = assigned
  /\ To("helm")
  /\ UNCHANGED <<tables, requests, queue, release, claim, cascaded, changes>>

\* The old Secret goes first.
SecretFails ==
  /\ run # Idle /\ run.step = "secret"
  /\ vpnSecret' = None
  /\ Finished("failed")
  /\ UNCHANGED <<tables, requests, queue, release, claim, cascaded, changes>>

\* vpn.enabled and vpn.secretName, or explicitly none.
VpnValues(vpn) == vpn

\* An update reapplies the values of the release; an install does not.
Values ==
  [vpn |-> VpnValues(run.vpn),
   confirmed |-> \/ run.op.pin # None /\ run.op.pin.fresh /\ run.op.pin.config = "own"
                 \/ run.op.kind = "update" /\ release # None /\ release.confirmed]

\* Helm has applied the chart. It makes the private claim if there is none.
HelmApplies ==
  /\ release' = Values
  /\ IF run.op.pin # None /\ run.op.pin.config = "existing"
     THEN claim' \in {claim, "none"}
     ELSE claim' = IF claim = "none" THEN "made" ELSE claim

RunHelm ==
  /\ run # Idle /\ run.step = "helm"
  /\ HelmApplies
  /\ To(IF run.proven THEN "proof" ELSE "cleanup")
  /\ UNCHANGED <<tables, requests, queue, vpnSecret, cascaded, changes>>

\* Helm fails or is stopped, or the worker dies: rolled back or not.
HelmFails ==
  /\ run # Idle /\ run.step = "helm"
  /\ HelmApplies \/ UNCHANGED <<release, claim>>
  /\ Finished("failed")
  /\ UNCHANGED <<tables, requests, queue, vpnSecret, cascaded, changes>>

\* mark_fresh_private_config, if the saved row has the version that was installed.
MarkFresh ==
  /\ run # Idle /\ run.step = "proof"
  /\ saved.version = run.op.pin.version
  /\ saved' = [saved EXCEPT !.fresh = TRUE]
  /\ To("cleanup")
  /\ UNCHANGED <<provider, assigned, chart, requests, queue, cluster, cascaded, changes>>

\* The proof could not be kept: the Secret is cleaned up all the same.
MarkFails ==
  /\ run # Idle /\ run.step = "proof"
  /\ To("cleanup after failure")
  /\ UNCHANGED <<tables, requests, queue, cluster, cascaded, changes>>

Cleaning == run # Idle /\ run.step \in {"cleanup", "cleanup after failure"}
Verdict == IF run.step = "cleanup" THEN "done" ELSE "failed"

\* cleanup_unassigned_vpn_secret, after a deployment without a VPN, if there is still no
\* assignment.
CleanUp ==
  /\ Cleaning
  /\ vpnSecret' = IF run.vpn = None /\ assigned = None THEN None ELSE vpnSecret
  /\ Finished(Verdict)
  /\ UNCHANGED <<tables, requests, queue, release, claim, cascaded, changes>>

\* remove_app_with_stop: Helm's uninstall, which may keep the claim, and then the
\* namespace with all there is in it. Either may fail.
RemoveApp ==
  /\ run # Idle /\ run.step = "check" /\ run.op.kind = "delete"
  /\ \/ release' = None /\ vpnSecret' = None /\ claim' = "none" /\ Finished("done")
     \/ release' = None /\ claim' \in {claim, "none"} /\ Finished("failed") /\ UNCHANGED vpnSecret
     \/ Finished("failed") /\ UNCHANGED cluster
  /\ UNCHANGED <<tables, requests, queue, cascaded, changes>>

\* A check or a call fails.
FailOperation ==
  /\ run # Idle
  /\ Finished("failed")
  /\ UNCHANGED <<tables, requests, queue, cluster, cascaded, changes>>

Requested ==
  \E c \in Admins :
    \/ \E p \in Providers : BeginAssign(c, p)
    \/ \E config \in Configs \cup {"omitted"}, vpn \in Providers \cup {None, "keep"} :
         BeginInstall(c, config, vpn)
    \/ BeginRemove(c) \/ CommitVpn(c) \/ CommitInstall(c)
    \/ FailRequest(c)

Execute ==
  \/ ClaimOperation \/ CheckPins \/ ResolveVpn \/ ReplaceSecret \/ SecretFails
  \/ RunHelm \/ HelmFails \/ MarkFresh \/ MarkFails \/ CleanUp \/ RemoveApp \/ FailOperation

Next ==
  \/ Requested \/ Execute \/ RetryOperation \/ SyncChart \/ CommitDeleteProvider
  \/ \E kind \in {"install", "update", "delete"} : EnqueueOperation(kind)
  \/ \E i \in 1 .. MaxOps : CancelQueued(i)
  \/ \E p \in Providers, status \in {"enabled", "disabled"} : SetProvider(p, status)
  \/ \E p \in Providers : BeginDeleteProvider(p)

Spec == Init /\ [][Next]_deployVars

-----------------------------------------------------------------------------
(* Correctness.                                                            *)

MaybeProvider == Providers \cup {None}
Charts == 1 .. MaxChanges + 1
SavedRows == [config : Configs, version : Charts, fresh : BOOLEAN]
NoneAssumption == None \notin SavedRows
Ops == [id : 1 .. MaxOps, kind : {"wizard", "install", "update", "delete"},
        pin : SavedRows \cup {None}, vpn : MaybeProvider, pinsVpn : BOOLEAN]

\* Types of the variables; only an install of the wizard can have the proof.
TypeOK ==
  /\ provider \in [Providers -> {"absent", "disabled", "enabled"}]
  /\ assigned \in MaybeProvider /\ vpnSecret \in MaybeProvider
  /\ assigned # None => provider[assigned] # "absent"
  /\ saved \in SavedRows \cup {None} /\ chart \in Charts
  /\ \A i \in DOMAIN queue : queue[i] \in Ops
  /\ run = Idle \/ (run.op \in Ops /\ run.vpn \in MaybeProvider
                    /\ (run.proven => run.op.kind = "wizard" /\ saved # None))
  /\ newest.id \in 0 .. MaxOps
  /\ retryable \in Ops \cup {None} /\ deleting \in MaybeProvider
  /\ release \in [vpn : MaybeProvider, confirmed : BOOLEAN] \cup {None}
  /\ claim \in {"none", "made", "legacy"}
  /\ changes \in 0 .. MaxChanges

\* Once the operation queued last is done, an installed app has the VPN it is assigned,
\* with the credentials of that provider, and none if it is assigned none.
SettledFollowsAssignment ==
  (~Active /\ newest.status = "done" /\ release # None /\ ~cascaded)
    => release.vpn = assigned /\ vpnSecret = assigned

\* Neither the proof of fresh private config nor the confirmation made from it is ever
\* held while the claim has data from before ("never treated as proof of new private data").
ProofIsEarned ==
  ((saved # None /\ saved.fresh) \/ (release # None /\ release.confirmed)) => claim # "legacy"

\* Every step keeps it: a claim is older than saved storage only from the start, and while
\* it is, nothing that is saved, queued, executed, released or asked for is marked fresh.
Marks == IF claim = "legacy" THEN {FALSE} ELSE BOOLEAN
KeptRows == [config : Configs, version : Charts, fresh : Marks]
KeptOps ==
  {op \in [id : Nat, kind : {"wizard", "install", "update", "delete"},
           pin : KeptRows \cup {None}, vpn : MaybeProvider, pinsVpn : BOOLEAN] :
     op.kind = "wizard" => op.pin # None}

Statuses == {"none", "queued", "cancelled", "done", "failed"}
Steps == {"check", "resolve", "secret", "helm", "proof", "cleanup", "cleanup after failure"}

SavedKept ==
  /\ claim \in {"none", "made", "legacy"}
  /\ changes \in 0 .. MaxChanges /\ chart \in 1 .. changes + 1
  /\ assigned \in MaybeProvider /\ saved \in KeptRows \cup {None}
QueueKept ==
  /\ newest \in [id : Nat, status : Statuses]
  /\ queue \in Seq(KeptOps) /\ retryable \in KeptOps \cup {None}
AskedKept ==
  /\ DOMAIN calling = Admins
  /\ \A c \in Admins :
       /\ calling[c].kind \in {"assign", "remove"} => calling[c].to \in MaybeProvider
       /\ calling[c].kind = "install" =>
            /\ calling[c].config \in Configs /\ calling[c].version \in Charts
            /\ calling[c].fresh \in Marks /\ calling[c].vpn \in MaybeProvider \cup {"keep"}
RunKept ==
  run # Idle =>
    /\ run \in [step : Steps, op : KeptOps, vpn : MaybeProvider, proven : Marks]
    /\ run.step = "proof" => run.proven
    /\ run.proven => saved # None
ReleaseKept == release \in [vpn : MaybeProvider, confirmed : Marks] \cup {None}

DeployInv == SavedKept /\ QueueKept /\ AskedKept /\ RunKept /\ ReleaseKept

\* Every step keeps it, too: operations are taken in the order they are numbered in, the one
\* that is executed has resolved the assignment that is there unless another was queued since,
\* and what it applied is there until it ends.
Numbered ==
  /\ \A i \in DOMAIN queue : queue[i].id <= newest.id /\ \A j \in 1 .. i - 1 : queue[j].id < queue[i].id
  /\ run # Idle => run.op.id <= newest.id /\ \A i \in DOMAIN queue : run.op.id < queue[i].id
  /\ newest.status = "done" => queue = <<>> /\ run = Idle
Applied == {"proof", "cleanup", "cleanup after failure"}
AppliedNow == run # Idle /\ run.step \in Applied => release.vpn = run.vpn
NewestResolved ==
  run # Idle /\ run.op.id = newest.id /\ ~cascaded =>
    /\ run.step \in {"secret", "helm"} \cup Applied => run.vpn = assigned
    /\ run.step \in {"helm"} \cup Applied /\ run.vpn # None => vpnSecret = run.vpn
DoneFollows ==
  newest.status = "done" /\ release # None /\ ~cascaded => release.vpn = assigned /\ vpnSecret = assigned

SettledInv == DeployInv /\ Numbered /\ AppliedNow /\ NewestResolved /\ DoneFollows
=============================================================================
