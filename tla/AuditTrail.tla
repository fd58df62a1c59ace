----------------------------- MODULE AuditTrail -----------------------------
(***************************************************************************)
(* The audit log and its retention: an administrator clears it, and so     *)
(* does the scheduler of the leader every day - of the old one and of the  *)
(* new, around a change of leader.  Each deletes what is old and records   *)
(* how much in one transaction.                                            *)
(***************************************************************************)
EXTENDS Naturals, FiniteSets

CONSTANTS
  Events,    \* ids for rows of the log (bound)
  Clearers,  \* requests and schedulers that clear the log
  Retentions \* numbers of days that are asked for

VARIABLES
  log,      \* the rows that are there: by id, whether it is old, and what it says was deleted
  unlogged, \* the ids that no row had yet
  clearing, \* the rows a clearer's open transaction deletes
  cleared   \* rows that are gone

auditVars == <<log, unlogged, clearing, cleared>>

Idle == [op |-> "idle"]

Init ==
  /\ log = [e \in {} |-> {}]
  /\ unlogged = Events
  /\ clearing = [c \in Clearers |-> Idle]
  /\ cleared = {}

-----------------------------------------------------------------------------
(* validate_retention and parse_audit_retention_days: a request outside    *)
(* the range is refused, and a scheduler takes the default for it.         *)
RetentionDays == 1 .. 3650
DefaultDays == 90
ScheduledDays(days) == IF days \in RetentionDays THEN days ELSE DefaultDays

With(id, row) == [e \in DOMAIN log \cup {id} |-> IF e = id THEN row ELSE log[e]]

\* log_on_transaction, of any handler that audits what it did.
LogEvent(id) ==
  /\ id \in unlogged
  /\ log' = With(id, [old |-> FALSE, says |-> {}])
  /\ unlogged' = unlogged \ {id}
  /\ UNCHANGED <<clearing, cleared>>

\* Its timestamp passes the cutoff.
GrowOld(id) ==
  /\ id \in DOMAIN log /\ ~log[id].old
  /\ log' = [log EXCEPT ![id].old = TRUE]
  /\ UNCHANGED <<unlogged, clearing, cleared>>

OldRows == {id \in DOMAIN log : log[id].old}
Locked == UNION {clearing[c].deletes : c \in {d \in Clearers : clearing[d] # Idle}}

\* The DELETE waits for the rows another transaction has deleted, until that one ends.
ClearOldLogs(c, days) ==
  /\ clearing[c] = Idle
  /\ days \in RetentionDays
  /\ OldRows \cap Locked = {}
  /\ clearing' = [clearing EXCEPT ![c] = [op |-> "clearing", deletes |-> OldRows]]
  /\ UNCHANGED <<log, unlogged, cleared>>

\* The event that tells how many, and the commit.
RecordAndCommit(c, id) ==
  /\ clearing[c] # Idle
  /\ id \in unlogged
  /\ LET row == [old |-> FALSE, says |-> clearing[c].deletes]
     IN log' = [e \in (DOMAIN log \cup {id}) \ clearing[c].deletes |->
                  IF e = id THEN row ELSE log[e]]
  /\ cleared' = cleared \cup {<<e, log[e].says>> : e \in clearing[c].deletes}
  /\ unlogged' = unlogged \ {id}
  /\ clearing' = [clearing EXCEPT ![c] = Idle]

\* Mutant of the next: the DELETE is not in the transaction of the record.
AbortRecordOnly(c) ==
  /\ clearing[c] # Idle
  /\ log' = [e \in DOMAIN log \ clearing[c].deletes |-> log[e]]
  /\ cleared' = cleared \cup {<<e, log[e].says>> : e \in clearing[c].deletes}
  /\ clearing' = [clearing EXCEPT ![c] = Idle]
  /\ UNCHANGED unlogged

\* The insert fails, or the process stops: nothing is deleted.
Abort(c) ==
  /\ clearing[c] # Idle
  /\ clearing' = [clearing EXCEPT ![c] = Idle]
  /\ UNCHANGED <<log, unlogged, cleared>>

Next ==
  \/ \E id \in Events : LogEvent(id) \/ GrowOld(id)
  \/ \E c \in Clearers :
       \/ \E days \in Retentions : ClearOldLogs(c, days) \/ ClearOldLogs(c, ScheduledDays(days))
       \/ \E id \in Events : RecordAndCommit(c, id)
       \/ Abort(c)

Spec == Init /\ [][Next]_auditVars

-----------------------------------------------------------------------------
(* What an administrator reads: a page of the rows that pass the filters.  *)
PerPage(asked) == IF asked < 1 THEN 1 ELSE IF asked > 100 THEN 100 ELSE asked
Offset(page, asked) == ((IF page < 1 THEN 1 ELSE page) - 1) * PerPage(asked)
TotalPages(total, asked) ==
  total \div PerPage(asked) + IF total % PerPage(asked) # 0 THEN 1 ELSE 0
OldEvents == Cardinality(OldRows)

-----------------------------------------------------------------------------
\* Types of the variables.
TypeOK ==
  /\ DOMAIN log \subseteq Events \ unlogged
  /\ \A id \in DOMAIN log : log[id] \in [old : BOOLEAN, says : SUBSET Events]
  /\ unlogged \subseteq Events
  /\ \A c \in Clearers :
       clearing[c] = Idle \/ clearing[c] \in [op : {"clearing"}, deletes : SUBSET Events]
  /\ cleared \subseteq Events \X SUBSET Events

Gone == {g[1] : g \in cleared}
\* The deletions that were ever recorded, by the rows that record them.
Records == {<<id, log[id].says>> : id \in DOMAIN log} \cup cleared

\* Nothing leaves the audit log unrecorded, and nothing is counted twice, whoever clears it
\* at the same time: what is gone is what the records say was deleted, each row in one of
\* them. ("Atomically delete expired rows and write an attributed audit event".)
EveryDeletionRecorded ==
  /\ Gone = UNION {r[2] : r \in Records}
  /\ \A r, s \in Records : r # s => r[2] \cap s[2] = {}

\* Every step keeps it: ids are given once, and of two that clear the log at the same time
\* neither deletes a row of the other.
AuditInv ==
  /\ DOMAIN clearing = Clearers
  /\ DOMAIN log \cap unlogged = {}
  /\ \A g \in cleared : g = <<g[1], g[2]>> /\ g[1] \notin unlogged \cup DOMAIN log
  /\ \A c \in Clearers : clearing[c] # Idle => clearing[c].deletes \subseteq DOMAIN log
  /\ \A c, d \in Clearers : clearing[c] # Idle /\ clearing[d] # Idle /\ c # d =>
       clearing[c].deletes \cap clearing[d].deletes = {}
  /\ EveryDeletionRecorded
=============================================================================
