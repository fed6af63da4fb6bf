SPECIFICATION Spec
CONSTANTS
  Checkout = {p1}
  Client = {c1}
  Hook = {h1, h2}
  Subscribed = {"completed", "completed_unpaid", "async_succeeded", "async_failed", "expired"}
  Roles = {"USER", "ADMIN"}
  LastDay = 0
  Period = 1
  Faults = {"db", "crash", "forget", "redeliver"}
SYMMETRY MCSymmetry
INVARIANTS
  TypeOK
  PaymentsAgree
  PremiumIsBought
PROPERTY PaymentsAreSettledOnce
CHECK_DEADLOCK FALSE
