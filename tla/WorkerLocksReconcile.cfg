\* All tasks as they are.
CONSTANTS
  Tasks = {"operations", "reconcile", "ha", "chart_sync"}
  Reconciling = TRUE
SPECIFICATION Spec
INVARIANTS NoCircularWait
