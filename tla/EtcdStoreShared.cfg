SPECIFICATION Spec
CONSTANTS
  c1 = c1  c2 = c2  g1 = g1  g2 = g2  v1 = v1
  Client = {c1}
  Caller = {g1, g2}
  Value = {v1}
  DIR_TAG = DIR_TAG
  Name <- MCName
  NamePrefix <- MCNamePrefix
  ClientOf <- SharedStore
  Roots <- BesideRoots
  PutKeys <- ShortKeys
  LiteKeys = {}
  MarkKeys <- OuterKey
  DeleteKeys <- OuterKey
  PrefixKeys <- ShortPrefixes
  Faults = {"fail"}
INVARIANTS TreeClosed
PROPERTIES NeverHidden CallsShorten
