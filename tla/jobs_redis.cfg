SPECIFICATION FairSpec
CONSTANTS
  Jobs = {j1, j2}
  Workers = {w1, w2}
  Clients = {c1}
  Urgent = {j1}
  MaxRetries = 2
  RedisConfigured = TRUE
  MaxRevivals = 0
  MaxCrashes = 0
  NoJob = NoJob
INVARIANTS OnlyCrashesStrand ClaimIsExclusive AttemptsBounded
PROPERTIES EveryJobSettles KeepsPromise
