SPECIFICATION MCSpec
CONSTANTS
  Handler = {p1, p2}
  Booking = {b1, b2}
  Table = {1, 2, 3}
  Kind = {"create", "block", "waiterTransfer", "plannedTransfer", "approveChange", "rejectChange", "askChange", "transition", "approveTime", "close"}
  Pool = 3
  MaxRequests = 4
  NoJob = NoJob
  NoOwner = NoOwner
  Editor = {e1, e2}
  Run = {r1, r2}
  Forms = {{"adminCanManageOnlineBooking", "adminCanManageRestaurant", "adminCanChangeSiteMode", "adminCanEditRestaurantSettings"}, {"texts", "closeTime"}}
  Times = {0, 1}
  DayLen = 2
  LastDay = 1
  MaxHandled = 1
SYMMETRY Symmetric
INVARIANTS
  MCTypeOK
  HangsAreKnown
  RemindersAreTrue
PROPERTIES
  PlacedAtomically
CHECK_DEADLOCK FALSE
