SPECIFICATION LiveSpec
CONSTANTS
  Items = {"i1", "i2"}
  Workers = {w1}
  Sweep = sweep
  MaxStarts = 1
  Triggered = {"i1"}
  NULL = NULL
  BAD = BAD
  Feed <- MCFeed
  Lists <- MCLists
  Faults <- MCFaults
CHECK_DEADLOCK FALSE
INVARIANTS StreamsAreOneAnswer RowsAsServed PoolClosedLast
PROPERTIES StreamsCatchUp EveryDueItemTried SignalEnds
