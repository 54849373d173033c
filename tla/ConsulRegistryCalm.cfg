SPECIFICATION Spec
CONSTANTS
  n1 = n1  n2 = n2  a1 = a1  i1 = i1  i2 = i2  i3 = i3
  b1 = b1  b2 = b2  b3 = b3  web = web  api = api  db = db
  None = None
  Node = {n1, n2}
  Agent = {a1}
  AgentOf <- SameAgent
  Id = {i1, i2, i3}
  Service = {web, api, db}
  ServiceOf <- ThreeServices
  IdsOf <- OneAndTwo
  Vague = {i2}
  Beat = {b1, b2, b3}
  ConsulApi = {TRUE, FALSE}
  Uses = {"close"}
  Faults = {"lost", "crash"}
SYMMETRY BeatSymmetry
INVARIANTS OneHeartbeat AliveIsRegistered
PROPERTIES EndLeavesNothing
