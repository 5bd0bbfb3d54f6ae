SPECIFICATION Spec
CONSTANTS
  tPending = tPending
  NULL = NULL
  AccountIds = {a1, a2}
  TxnIds = {tPending, tPosted, tRival}
  Versions = {1, 2}
  Predecessor <- PredecessorOf
  MaxEvents = 3
  MaxBatches = 3
SYMMETRY Interchangeable
INVARIANTS
  LedgerFollowsFeed
  PendingLinksExact
  MissingMatchesListing
  ReplayOnlyRelinks
PROPERTY StampsWrittenOnce
