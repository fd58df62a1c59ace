\* Two workers live at the same time; an operation and its retry, or two; one failure.
CONSTANTS
  Apps = {a1}
  Workers = {w1, w2}
  Clients = {c1}
  Loopers = {}
  Kinds = {"install"}
  MaxOps = 2
  MaxControls = 1
  MaxFaults = 1
SPECIFICATION Spec
SYMMETRY WorkerSymmetry
INVARIANTS NeverReplayed OutcomeMatchesStatus OutcomeIsHonest
PROPERTIES LifecycleKept
