\* One page and a channel that holds one message: a reader that falls behind.
CONSTANTS
  Machines = {m1}
  Namespaces = {n1}
  Pages = {g1}
  Absent = Absent
  Window = 1
  Capacity = 1
  MaxBytes = 0
  MaxTicks = 3
SPECIFICATION FairSpec
PROPERTIES ConnectedIsFed
CHECK_DEADLOCK FALSE  \* what is bounded ends
