SPECIFICATION Spec
CONSTANTS
  n1 = n1  n2 = n2  b1 = b1  b2 = b2  web80 = web80
  None = None
  Node = {n1}
  Id = {web80}
  IdPrefix <- Alone
  Beat = {b1}
  TTL = 8
  Faults = {"put"}
PROPERTIES RenewedInTime
