SPECIFICATION Spec
CONSTANTS
  Jobs = {j1, j2, j3}
  Workers = {w1, w2}
  Clients = {c1, c2}
  Urgent = {j1}
  MaxRetries = 2
  RedisConfigured = FALSE
  MaxRevivals = 2
  MaxCrashes = 1
  NoJob = NoJob
INVARIANTS TypeOK ClaimIsExclusive AttemptsBounded OnlyCrashesStrand
PROPERTIES OnlyRequestsRace DelayHonoured KeepsPromise
