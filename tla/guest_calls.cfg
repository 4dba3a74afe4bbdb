SPECIFICATION MCSpec
CONSTANTS
  Booking = {b1, b2}
  NoBooking = NoBooking
  Table = {t1, t2}
  Waiter = {s1, s2}
  NoWaiter = NoWaiter
  Call = {k1, k2}
  MaxMoves = 1
  MaxTime = 3
  HookahBooking = {h1}
  NoHookahBooking = NoHookahBooking
  Staff = {s1, s2}
  NoStaff = NoStaff
  HookahCall = {k1, k2}
  Request = {b1, b2}
  Eta = {1}
  HookahMaxTime = 2
  Person = {s1, s2}
  Nobody = Nobody
SYMMETRY Symmetric
INVARIANTS
  MCTypeOK
  OneCallPerVisit
  ActiveCallsAreSound
PROPERTIES
  CallsMoveOn
  HookahCallsMoveOn
  CompletedForCause
  PressesAreBound
CHECK_DEADLOCK FALSE
