SPECIFICATION Spec
CONSTANTS
  Booking = {b1, b2}
  Table = {t1, t2}
  Bookable = {t1, t2}
  Guest = {g1}
  NoGuest = NoGuest
  NoTable = NoTable
  NoRequest = NoRequest
  NotRead = NotRead
  LastDay = 2
  DayLen = 2
  Openings = {0}
  Durations = {1}
  Cleanup = 1
  Grace = 1
  Delays = {2}
  Targets <- ZoneOnly
  Spans <- MCSpans
  MaxRejections = 0
  MaxBlocks = 0
  StaffStatus = {}
SYMMETRY Symmetric
INVARIANTS
  OneActivePerGuest
PROPERTIES
  ArrivedUndisturbed
  ReleasedHeldTable
CHECK_DEADLOCK FALSE
