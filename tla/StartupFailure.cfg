SPECIFICATION LiveSpec
CONSTANTS
  Items = {"i1", "i2"}
  Workers = {w1}
  Sweep = sweep
  MaxStarts = 1
  Triggered = {}
  NULL = NULL
  BAD = BAD
  Feed <- MCFeed
  Lists <- MCLists
  Faults <- MCFaults
CHECK_DEADLOCK FALSE
PROPERTIES StartupFailureEnds
