SPECIFICATION Spec
CONSTANTS
  Syncers = {s1, s2}
  ReauthStatuses = {"login_required"}
  MaxAttempts = 2
  MaxEvents = 2
  NULL = NULL
SYMMETRY SyncerSymmetry
INVARIANTS
  TypeOK
  SyncOwnsItem
  RunsTileHistory
  CredentialCheck
PROPERTY ImplementsAtomicFeed
