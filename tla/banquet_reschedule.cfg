SPECIFICATION Spec
CONSTANTS
  Booking = {b1, b2}
  Table = {t1, t2}
  Bookable = {t1, t2}
  Guest = {g1}
  NoGuest = NoGuest
  NoTable = NoTable
  NoRequest = NoRequest
  NotRead = NotRead
  LastDay = 1
  DayLen = 3
  Openings = {0, 2}
  Durations = {1}
  Cleanup = 1
  Grace = 1
  Delays = {2}
  Targets <- ZoneOnly
  Spans <- MCSpans
  MaxRejections = 1
  MaxBlocks = 0
  StaffStatus = {}
SYMMETRY Symmetric
INVARIANT NoSharedTable
CHECK_DEADLOCK FALSE
