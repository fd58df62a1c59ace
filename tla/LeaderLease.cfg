\* Two replicas, in ticks of 2.5 s; an attempt to acquire is answered within one.
CONSTANTS
  Workers = {w1, w2}
  NoOne = NoOne
  LeaseDuration = 6
  RenewEvery = 2
  RenewDeadline = 4
  MaxCall = 1
  MaxFaults = 2
SPECIFICATION FairSpec
INVARIANTS OnlyHolderLeads
PROPERTIES LiveLeaseNotStolen VacancyEnds
