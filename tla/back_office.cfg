SPECIFICATION MCSpec
CONSTANTS
  Bill = {b1}
  Table = {t1, t2}
  Elsewhere = {}
  t1 = t1
  t2 = t2
  r1 = r1
  r2 = r2
  Register = {r1, r2}
  RegisterOf <- OneEach
  Seatings <- Single
  Marks = {"free"}
  Delivery = {d1}
  NoPrint = NoPrint
  MaxVersion = 2
  Runner = {w1, w2}
  Operation = {o1}
  NoHolder = NoHolder
  MaxRevision = 3
  Member = {m1, m2}
  AtOnce = 2
  Password = {p1, p2}
  Telegram = {g1}
  MaxFailures = 2
  LockTime = 1
  InviteTime = 0
  LastTime = 2
  MaxInvites = 1
  MaxAsked = 3
INVARIANTS
  MCTypeOK
  CommandsAreSafe
  SessionsAreSafe
PROPERTIES
  OpensFromLatest
  ObservationResumes
CHECK_DEADLOCK FALSE
