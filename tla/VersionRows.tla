------------------------------- MODULE VersionRows ------------------------------
(* What the state row of an app holds of its versions, and what a call that *)
(* changes it has read before.                                              *)
EXTENDS Naturals

CONSTANTS
  Nothing,        \* no version, no operation, no row
  Versions,       \* of the app's chart: Nothing is none of them
  MaxOperations   \* bound: operations queued

Seen == {Nothing} \cup Versions    \* what a chart directory or Helm can say
Ids == {Nothing} \cup 1..MaxOperations
Rows == [installed : Seen, available : Seen, update : BOOLEAN, operation : Ids]
Refreshes == [does : {"refresh"}, found : Seen, before : [installed : Seen, available : Seen]]
Upserts == [does : {"upsert"}, id : Ids, found : Seen, installed : Seen,
            before : [operation : Ids, available : Seen] \cup {Nothing}]

ASSUME NothingAssumption ==
  Nothing \notin Versions \cup 1..MaxOperations \cup Rows \cup Refreshes \cup Upserts
ASSUME BoundAssumption == MaxOperations \in Nat
=================================================================================
