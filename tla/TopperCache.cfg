SPECIFICATION CacheSpec
CONSTANTS
  c1 = c1
  c2 = c2
  c3 = c3
  k1 = k1
  k2 = k2
  k3 = k3
  Nobody = Nobody
  Callers = {c1, c2, c3}
  Paths = {k1, k2, k3}
  TTL = 2
  QueryTimeout = 1
  Cap = 2
  MaxTime = 4
  MaxCommits = 1
SYMMETRY CacheSymmetry
INVARIANTS
  StalenessBounded
PROPERTY ReadsNeverGoBack
