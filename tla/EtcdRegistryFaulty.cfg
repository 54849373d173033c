SPECIFICATION FairSpec
CONSTANTS
  n1 = n1  n2 = n2  b1 = b1  b2 = b2  web80 = web80
  None = None
  Node = {n1, n2}
  Id = {web80}
  IdPrefix <- Alone
  Beat = {b1, b2}
  TTL = 2
  Faults = {"put", "lost", "grant", "crash", "slow"}
INVARIANTS TypeOK StaleBound ListedIsComplete AliveIsListed
PROPERTIES ListsItsMembers CloseEndsBeats
