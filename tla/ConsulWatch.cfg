\* Writes are bounded, and a callback that sends to nobody blocks for ever.
CHECK_DEADLOCK FALSE
SPECIFICATION FairSpec
CONSTANTS
  Keys = 3
  Prefixes = {{1, 2}, {1, 2, 3}}
  MaxIndex = 6
  Limit = 2
INVARIANTS TypeOK UpdatesTold KeyIsExact
PROPERTIES EventuallyTold SendEndsBlocking
