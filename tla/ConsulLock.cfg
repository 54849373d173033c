SPECIFICATION FairSpec
CONSTANTS
  c1 = c1
  c2 = c2
  Caller = {c1, c2}
  Lock = {c1, c2}
  Object <- MCObject
  Faults = {"fail", "lose", "watch", "crash"}
INVARIANTS TypeOK Exclusive CancelledHasCause OnlyCancelledKeeps
PROPERTIES WorksUnderLease BlockReturns Freed
