SPECIFICATION MCSpec
CONSTANTS
  Booking = {b1}
  NoBooking = NoBooking
  Table = {t1, t2}
  Waiter = {s1, s2}
  NoWaiter = NoWaiter
  Call = {k1, k2}
  MaxMoves = 1
  MaxTime = 3
  HookahBooking = {h1}
  NoHookahBooking = NoHookahBooking
  Staff = {s1}
  NoStaff = NoStaff
  HookahCall = {k1}
  Request = {p1}
  Eta = {1}
  HookahMaxTime = 1
  Person = {s1}
  Nobody = Nobody
INVARIANT
  TransferCarriesNothing
CHECK_DEADLOCK FALSE
