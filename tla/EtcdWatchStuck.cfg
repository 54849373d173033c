SPECIFICATION FairSpec
CONSTANTS
  w1 = w1  w2 = w2  k1 = k1  k2 = k2
  Watch = {w1, w2}
  Key = {k1, k2}
  Wants <- MCWants
  NoStop = {w2}
  MaxEvents = 3
  Limit = 1
  Faults = {"close"}
PROPERTIES CloseCleansUp
CHECK_DEADLOCK FALSE
