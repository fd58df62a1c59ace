\* Installs and deletes with the reconcile loop, and one failure.
CONSTANTS
  Apps = {a1}
  Workers = {w1}
  Clients = {c1}
  Loopers = {w1}
  Kinds = {"install", "delete"}
  MaxOps = 2
  MaxControls = 0
  MaxFaults = 1
SPECIFICATION FairSpec
INVARIANTS DesiredFollowsLastOperation
PROPERTIES NewerIntentKept OperationsEnd AuditDelivered ObservedConverges
