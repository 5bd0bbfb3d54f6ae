SPECIFICATION Spec
CONSTANTS
  Items = {i1}
  JobIds = {j1, j2}
  Workers = {w1, w2}
  Kinds = {"manual", "automatic"}
  Callers = {api, scheduler}
  Scheduler = scheduler
  ReauthStatus = "login_required"
  MaxFollowUps = 1
  MaxFaults = 2
  NULL = NULL
SYMMETRY Interchangeable
INVARIANTS
  WorkersOwnJobs
  OneQueuedJobPerItem
