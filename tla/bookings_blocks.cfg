SPECIFICATION FairSpec
CONSTANTS
  Booking = {b1}
  Table = {t1, t2}
  Bookable = {t1, t2}
  Guest = {g1}
  NoGuest = NoGuest
  NoTable = NoTable
  NoRequest = NoRequest
  NotRead = NotRead
  LastDay = 2
  DayLen = 3
  Openings = {1}
  Durations = {1}
  Cleanup = 1
  Grace = 1
  Delays = {2}
  Targets <- EachTable
  Spans <- LateSpans
  MaxRejections = 1
  MaxBlocks = 1
  StaffStatus = {"closed"}
PROPERTIES
  ClosedIsFinal
  UnavailableStaysEmpty
  PastBookingsEnd
CHECK_DEADLOCK FALSE
