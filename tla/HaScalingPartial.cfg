\* A release fails to grow, and then a node is not Ready.
CONSTANTS
  Nodes = {n1, n2, n3}
  Releases = {"cert-manager", "kubarr-worker"}
  OwnRelease = "kubarr-worker"
  Instances = {i1, i2}
  NoNode = NoNode
  MaxChanges = 2
  MaxFaults = 1
SPECIFICATION Spec
PROPERTIES ReleasesShrinkForLoss
