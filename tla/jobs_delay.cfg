SPECIFICATION Spec
CONSTANTS
  Jobs = {j1, j2}
  Workers = {w1}
  Clients = {c1}
  Urgent = {j1}
  MaxRetries = 2
  RedisConfigured = TRUE
  MaxRevivals = 0
  MaxCrashes = 0
  NoJob = NoJob
PROPERTIES DelayHonoured
