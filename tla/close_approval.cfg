SPECIFICATION FairSpec
CONSTANTS
  Days = {1, 2}
  Jobs = {j1}
  Requests = {r1, r2}
  LockIds = {1, 2, 3}
  Months <- MonthsDef
  JobSpans <- JobSpansDef
  Kinds = {"close", "findings"}
  MaxCrashes = 1
  NoJob = NoJob
INVARIANTS TypeOK OneLockPerJob CloseIsLocked VerdictIsOne OnlyCrashesStall
PROPERTIES VerdictIsFinal EveryVerdictEnds EveryJobIsOffered
CHECK_DEADLOCK FALSE
