SPECIFICATION FairSpec
CONSTANTS
  Caller = {c1, c2, c3}
  NoCaller = NoCaller
  HasTtl = TRUE
  FaultSets <- MCFaultSets
PROPERTIES RemovedByOwnerOrExpired NoFailureAfterHolding ImplementsLease Termination
