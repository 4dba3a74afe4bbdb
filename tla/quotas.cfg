SPECIFICATION MCSpec
CONSTANTS
  Call = {c1, c2}
  MaxFailed = 2
  Window = 2
  LockFor = 2
  Retention = 2
  Horizon = 3
  MaxRows = 3
  Caller = {r1, r2}
  Gap = 3
  DirectoryGap = 2
  Lifetime = 2
  MaxAttempts = 2
  Cooldowns = {3, 4}
  LimiterHorizon = 6
  MaxGrants = 3
  MaxPauses = 2
  Option = {1, 2}
  Handler = {c1, c2}
  MaxDrafts = 2
  MaxDay = 1
SYMMETRY Symmetric
INVARIANTS
  MCTypeOK
  GuessesAreJudged
  QuotaIsKept
PROPERTIES
  LockHolds
  DraftsActAsShown
CHECK_DEADLOCK FALSE
