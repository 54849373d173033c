SPECIFICATION Spec
CONSTANTS
  c1 = c1  c2 = c2  g1 = g1  g2 = g2  v1 = v1
  Client = {c1, c2}
  Caller = {g1, g2}
  Value = {v1}
  DIR_TAG = DIR_TAG
  Name <- MCName
  NamePrefix <- MCNamePrefix
  ClientOf <- TwoStores
  Roots <- OneRoot
  PutKeys <- DeepKeys
  LiteKeys <- InnerKey
  MarkKeys <- OuterKey
  DeleteKeys <- DeepDeletes
  PrefixKeys <- DeepPrefixes
  Faults = {"fail", "lost", "crash"}
INVARIANTS TypeOK TreeClosed
PROPERTIES NeverHidden BrowsesAsATree
