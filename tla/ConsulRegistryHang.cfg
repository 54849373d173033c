SPECIFICATION FairSpec
CONSTANTS
  n1 = n1  n2 = n2  a1 = a1  i1 = i1  i2 = i2  i3 = i3
  b1 = b1  b2 = b2  b3 = b3  web = web  api = api  db = db
  None = None
  Node = {n1}
  Agent = {a1}
  AgentOf <- OneNode
  Id = {i1}
  Service = {web, api}
  ServiceOf <- OneId
  IdsOf <- AllIds
  Vague = {}
  Beat = {b1}
  ConsulApi = {FALSE}
  Uses = {"close"}
  Faults = {}
PROPERTIES CloseReturns
