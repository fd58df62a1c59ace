\* Two clients that enqueue, retry, pause, resume and cancel against one worker.
CONSTANTS
  Apps = {a1}
  Workers = {w1}
  Clients = {c1, c2}
  Loopers = {}
  Kinds = {"restart"}
  MaxOps = 3
  MaxControls = 2
  MaxFaults = 0
SPECIFICATION Spec
SYMMETRY ClientSymmetry
INVARIANTS StopLeadsToCancel RetriedOnce
