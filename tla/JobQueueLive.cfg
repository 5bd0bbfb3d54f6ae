SPECIFICATION FairSpec
CONSTANTS
  Items = {i1}
  JobIds = {j1, j2}
  Workers = {w1}
  Kinds = {"manual", "automatic"}
  Callers = {api, scheduler}
  Scheduler = scheduler
  ReauthStatus = "login_required"
  MaxFollowUps = 1
  MaxFaults = 1
  NULL = NULL
PROPERTIES
  EveryJobEnds
  ItemsKeepSyncing
