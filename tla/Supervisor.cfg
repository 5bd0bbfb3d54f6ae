SPECIFICATION FairSpec
CONSTANTS
  MaxRequests = 2
  MaxLaunches = 2
  NULL = NULL
INVARIANTS
  OneOfEach
  IdlePhaseIsTrue
  DatabaseStopsLast
PROPERTIES
  EveryOperationEnds
CHECK_DEADLOCK FALSE
