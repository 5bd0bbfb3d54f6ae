SPECIFICATION FairSpec
CONSTANTS
  Tokens = {t1}
  Polls = {p1, p2}
  MaxPages = 2
  MaxFaults = 1
  NULL = NULL
INVARIANTS
  OneFinalStatus
PROPERTIES
  SentAgainOnlyAfterFailure
  WaitingEnds
