SPECIFICATION MCSpec
CONSTANTS
  Slot = {1, 2}
  LocationOf <- TwoPlaces
  Spare = 3
  MaxTables = 3
  Submit = {f1}
  MaxChanges = 2
  Called = {1, 2}
  MaxQuestions = 2
  MaxVisits = 1
  Reserved = {b1, b2}
  Endpoint = {e1, e2}
  Keep = 1
  MaxSubs = 2
  MaxSends = 1
  MaxLate = 1
  Mine = {1, 2}
  MaxTokens = 1
  Noted = {1, 2}
  Owned = {1}
  MaxNotes = 2
  MaxLoads = 2
  PageLength = 1
  Before = 2
  MaxRecords = 3
  MaxPages = 2
  Hour = {"today", "later"}
  Tonight = "today"
  MaxRevisions = 2
  MaxPlanLoads = 2
  MaxPresses = 1
INVARIANTS
  MCTypeOK
  CallStaysShown
  PushIsHeld
  ListIsTrue
PROPERTIES
  BookedWherePressed
  AccessIsKept
  NoticeStays
  PlanOnlyAdvances
CHECK_DEADLOCK FALSE
