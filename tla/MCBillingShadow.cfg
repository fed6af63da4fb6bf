SPECIFICATION Spec
CONSTANTS
  Checkout = {p1}
  Client = {c1}
  Hook = {h1}
  Subscribed = {"completed"}
  Roles = {"USER"}
  LastDay = 0
  Period = 1
  Faults = {}
INVARIANT PremiumIsServed
CHECK_DEADLOCK FALSE
