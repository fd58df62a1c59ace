------------------------------ MODULE StateVersions -----------------------------
(***************************************************************************)
(* The chart versions in the state row of one app.  Every backend and      *)
(* worker refreshes the available version from its own charts, reconciling *)
(* and finishing operations write the installed one, and each computes     *)
(* "update available" from both: no transaction spans reading the row and  *)
(* writing it, only a condition on what was read.                          *)
(***************************************************************************)
EXTENDS VersionRows

CONSTANTS
  Callers  \* calls at a time, of the backends and the worker

VARIABLES
  state,          \* the app's row in app_states, or Nothing
  queued,         \* the operations queued so far
  call            \* of each caller: the call that has read the row, or Nothing

versionVars == <<state, queued, call>>

Idle(p) == call[p] = Nothing
Enter(p, c) == call' = [call EXCEPT ![p] = c]
Leave(p) == Enter(p, Nothing)

\* versions_differ: there is an update if both are known and not the same.
VersionsDiffer(installed, available) ==
  installed # Nothing /\ available # Nothing /\ installed # available

Init ==
  /\ state = Nothing
  /\ queued = 0
  /\ call = [p \in Callers |-> Nothing]

-----------------------------------------------------------------------------
(* Refreshing the available version *)

\* What a refresh reads of the row, and compares when it writes.
Compared(r) == [installed |-> r.installed, available |-> r.available]

\* The chart the process finds for the app, or none, and the row as it is.
BeginRefresh(p) ==
  /\ Idle(p) /\ state # Nothing
  /\ \E found \in Seen :
       Enter(p, [does |-> "refresh", found |-> found, before |-> Compared(state)])
  /\ UNCHANGED <<state, queued>>

\* A chart that is not found is no evidence that there is none any more.
Refreshed(c) ==
  LET available == IF c.found = Nothing THEN c.before.available ELSE c.found
  IN [state EXCEPT !.available = available,
                 !.update = VersionsDiffer(c.before.installed, available)]

\* Mutant of Refreshed: a chart that is not found is gone.
RefreshedAsFound(c) ==
  [state EXCEPT !.available = c.found, !.update = VersionsDiffer(c.before.installed, c.found)]

\* The update is conditional on both versions; when it misses, the row is read again.
Refresh(p) ==
  /\ ~Idle(p) /\ call[p].does = "refresh"
  /\ IF Compared(state) = call[p].before
     THEN state' = Refreshed(call[p]) /\ Leave(p)
     ELSE Enter(p, [call[p] EXCEPT !.before = Compared(state)]) /\ UNCHANGED state
  /\ UNCHANGED queued

-----------------------------------------------------------------------------
(* Operations and reconciling *)

\* Queueing an operation gives the row its id, or makes the row, in one transaction.
QueueOperation ==
  /\ queued < MaxOperations
  /\ queued' = queued + 1
  /\ IF state = Nothing
     THEN \E found \in Seen :
            state' = [installed |-> Nothing, available |-> found, update |-> FALSE,
                    operation |-> queued']
     ELSE state' = [state EXCEPT !.operation = queued']
  /\ UNCHANGED call

\* What an upsert reads of the row, if there is one, and compares when it writes.
Observed(r) ==
  IF r = Nothing THEN Nothing ELSE [operation |-> r.operation, available |-> r.available]

\* Both versions are observed before the row is read; an operation that has finished says
\* which it is, reconciling does not.
BeginUpsert(p) ==
  /\ Idle(p)
  /\ \E id \in {Nothing} \cup 1..queued, found \in Seen, installed \in Seen :
       /\ IF id # Nothing /\ state # Nothing /\ state.operation # id
          THEN UNCHANGED call
          ELSE Enter(p, [does |-> "upsert", id |-> id, found |-> found,
                         installed |-> installed, before |-> Observed(state)])
  /\ UNCHANGED <<state, queued>>

\* Mutant of Fits: only the operation is compared.
FitsOperation(c) == state.operation = c.before.operation

\* The operation, if any, and the available version must be those that were read.
Fits(c) == Observed(state) = c.before

\* Only the installed version is written: what is available is not this process's to say.
Update(p) ==
  LET c == call[p] IN
  /\ ~Idle(p) /\ c.does = "upsert" /\ c.before # Nothing
  /\ IF Fits(c)
     THEN /\ state' = [state EXCEPT
                      !.installed = c.installed,
                      !.update = VersionsDiffer(c.installed, c.before.available),
                      !.operation = IF c.id = Nothing THEN @ ELSE c.id]
          /\ Leave(p)
     ELSE /\ UNCHANGED state
          /\ IF c.id # Nothing /\ c.id # state.operation
             THEN Leave(p)
             ELSE Enter(p, [c EXCEPT !.before = Observed(state)])
  /\ UNCHANGED queued

\* Without a row one is inserted, with what was found; an insert that comes second fails.
Insert(p) ==
  LET c == call[p] IN
  /\ ~Idle(p) /\ c.does = "upsert" /\ c.before = Nothing
  /\ state' = IF state # Nothing THEN state
            ELSE [installed |-> c.installed, available |-> c.found,
                  update |-> VersionsDiffer(c.installed, c.found), operation |-> c.id]
  /\ Leave(p)
  /\ UNCHANGED queued

\* A process stops: its conditional update was sent or it was not.
Crash(p) == Leave(p) /\ UNCHANGED <<state, queued>>

Next ==
  \/ QueueOperation
  \/ \E p \in Callers :
       \/ BeginRefresh(p) \/ Refresh(p)
       \/ BeginUpsert(p) \/ Update(p) \/ Insert(p)
       \/ Crash(p)

Spec == Init /\ [][Next]_versionVars

-----------------------------------------------------------------------------
TypeOK ==
  /\ state \in Rows \cup {Nothing}
  /\ queued \in 0..MaxOperations
  /\ call \in [Callers -> Refreshes \cup Upserts \cup {Nothing}]

\* "Update available" is what the versions in the row say, however many processes write one
\* or the other (chart_sync.rs:75, app_manager.rs:1902).
FlagFits == state # Nothing => state.update = VersionsDiffer(state.installed, state.available)

\* Of a step: a version that is known to be available stays known (app_manager.rs:828).
KeepsAvailable == (state # Nothing /\ state.available # Nothing) => state'.available # Nothing
=============================================================================
