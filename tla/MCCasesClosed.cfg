SPECIFICATION Spec
CONSTANTS
  Case = {k1}
  Owner = owner
  Admin = admin
  Specialist = {s1, s2}
  Reader = {owner}
  Slot = {r1, r2}
  MaxMessages = 3
PROPERTY ClosedIsNotAssigned
CHECK_DEADLOCK FALSE
