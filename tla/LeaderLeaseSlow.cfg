\* The answer to an attempt to acquire can take as long as the Lease lasts.
CONSTANTS
  Workers = {w1, w2}
  NoOne = NoOne
  LeaseDuration = 6
  RenewEvery = 2
  RenewDeadline = 4
  MaxCall = 6
  MaxFaults = 1
SPECIFICATION Spec
SYMMETRY WorkerSymmetry
INVARIANTS GivesUpBeforeTakeover
