\* A worker takes over from another.
CONSTANTS
  Namespaces = {n1, n2}
  Pods = {p1}
  Unknown = Unknown
  MaxChanges = 1
  MaxBreaks = 0
  MaxFailures = 0
  MaxRestarts = 1
SPECIFICATION Spec
INVARIANTS AnswersMatch
