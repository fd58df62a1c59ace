------------------------ MODULE OperationLifecycle -------------------------
(***************************************************************************)
(* What the app-operation queue promises of every operation, with workers, *)
(* transactions, crashes and recovery left out: a user may hold it back or *)
(* call it off while it waits; once started it is executed at most once    *)
(* and ends exactly once; a requested stop makes it end as cancelled; its  *)
(* outcome is audited once.                                                *)
(***************************************************************************)
EXTENDS Naturals

CONSTANT Ids  \* operations

VARIABLES
  state,    \* where the operation is
  stop,     \* a stop was requested while it ran
  runs,     \* how often its external calls were started
  outcome,  \* what the audit log will say of it ("none": nothing yet)
  audits    \* how often the audit log says so

vars == <<state, stop, runs, outcome, audits>>

Started == {"running", "succeeded", "failed", "cancelled", "retried"}

Init ==
  /\ state = [id \in Ids |-> "absent"]
  /\ stop = [id \in Ids |-> FALSE]
  /\ runs = [id \in Ids |-> 0]
  /\ outcome = [id \in Ids |-> "none"]
  /\ audits = [id \in Ids |-> 0]

Move(id, from, to) ==
  /\ state[id] \in from
  /\ state' = [state EXCEPT ![id] = to]

Queue(id) ==
  /\ Move(id, {"absent"}, "queued")
  /\ UNCHANGED <<stop, runs, outcome, audits>>

\* A failed operation is replaced by a new one; that it failed stays on record.
Retry(old, id) ==
  /\ state[old] = "failed" /\ state[id] = "absent"
  /\ state' = [state EXCEPT ![old] = "retried", ![id] = "queued"]
  /\ UNCHANGED <<stop, runs, outcome, audits>>

Control(id) ==
  /\ \/ Move(id, {"queued"}, "paused")
     \/ Move(id, {"paused"}, "queued")
     \/ Move(id, {"queued", "paused"}, "cancelled")
  /\ UNCHANGED <<stop, runs, outcome, audits>>

Start(id) ==
  /\ Move(id, {"queued"}, "running")
  /\ UNCHANGED <<stop, runs, outcome, audits>>

RequestStop(id) ==
  /\ state[id] = "running" /\ ~stop[id]
  /\ stop' = [stop EXCEPT ![id] = TRUE]
  /\ UNCHANGED <<state, runs, outcome, audits>>

\* The one time its external calls are made. A worker that was taken for dead may
\* make them after the operation was already declared indeterminate.
Run(id) ==
  /\ state[id] \in Started /\ runs[id] = 0
  /\ runs' = [runs EXCEPT ![id] = 1]
  /\ UNCHANGED <<state, stop, outcome, audits>>

\* The terminal statuses and outcomes a running operation can end with.
Endings(id) ==
  IF stop[id] THEN {<<"cancelled", "indeterminate">>}
  ELSE {<<"failed", "failed">>, <<"failed", "indeterminate">>}
       \cup (IF runs[id] = 1 THEN {<<"succeeded", "succeeded">>} ELSE {})

Finish(id) ==
  \E e \in Endings(id) :
    /\ Move(id, {"running"}, e[1])
    /\ outcome[id] = "none"
    /\ outcome' = [outcome EXCEPT ![id] = e[2]]
    /\ UNCHANGED <<stop, runs, audits>>

Audit(id) ==
  /\ outcome[id] # "none" /\ audits[id] = 0
  /\ audits' = [audits EXCEPT ![id] = 1]
  /\ UNCHANGED <<state, stop, runs, outcome>>

Next ==
  \E id \in Ids :
    \/ Queue(id) \/ Control(id) \/ Start(id) \/ RequestStop(id) \/ Run(id)
    \/ Finish(id) \/ Audit(id)
    \/ \E old \in Ids : Retry(old, id)

Spec == Init /\ [][Next]_vars
=============================================================================
