SPECIFICATION Spec
CONSTANTS
  Projects = {p1}
  Lists = {l1, l2}
  Requests = {r1, r2, r3}
  PoolSize = 2
  CACHE_ENABLED = TRUE
  None = None
INVARIANTS
  TypeOK
  CleanInvalidation
  ConnectionsReturned
PROPERTY
  RequestsEnd
