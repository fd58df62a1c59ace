\* A new database instance has its volume before it has the data.
CONSTANTS
  Nodes = {n1, n2, n3}
  Releases = {"cert-manager", "kubarr-worker"}
  OwnRelease = "kubarr-worker"
  Instances = {i1, i2}
  NoNode = NoNode
  MaxChanges = 2
  MaxFaults = 0
SPECIFICATION Spec
SYMMETRY NodeSymmetry
INVARIANTS CopyKept
