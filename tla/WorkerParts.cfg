\* PodWatch: two namespaces, with every failure.  WorkerLocks: the order "read guards before
\* the Helm lock", without reconcile_app.  HaScaling: three nodes, two releases, two database
\* instances.  HelmProcess: one helper, pipes that are full at once.
CONSTANTS
  Namespaces = {n1, n2}
  Pods = {p1}
  Unknown = Unknown
  MaxChanges = 2
  MaxBreaks = 1
  MaxFailures = 1
  MaxRestarts = 1
  Tasks = {"operations", "ha", "chart_sync"}
  Reconciling = FALSE
  Nodes = {m1, m2, m3}
  Releases = {"cert-manager", "kubarr-worker"}
  OwnRelease = "kubarr-worker"
  Instances = {i1, i2}
  NoNode = NoNode
  MaxFaults = 1
  Helpers = {h1}
  Room = 1
  OutputLimit = 1
  MaxOutput = 2
SPECIFICATION FairSpec
INVARIANTS TypeOK WatchIsFaithful  
PROPERTIES WorkFinishes SizeShrinksForLoss PassesSettle
CHECK_DEADLOCK FALSE
