SPECIFICATION Spec
CONSTANTS
  Bill = {b1, b2}
  Table = {t1}
  Elsewhere = {t2}
  t1 = t1
  t2 = t2
  r1 = r1
  r2 = r2
  Register = {r1}
  RegisterOf <- OneForBoth
  Seatings <- Single
  Marks = {"free"}
  Delivery = {d1}
  NoPrint = NoPrint
  MaxVersion = 2
SYMMETRY BillSymmetry
INVARIANTS
  LedgerHolds
PROPERTIES
  FreedOnEvidence
  UpToDateSettles
