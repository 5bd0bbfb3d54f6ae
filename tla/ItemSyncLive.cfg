SPECIFICATION FairSpec
CONSTANTS
  Syncers = {s1}
  ReauthStatuses = {"login_required"}
  MaxAttempts = 2
  MaxEvents = 2
  NULL = NULL
PROPERTIES
  EverySyncEnds
  RemovalCompletes
