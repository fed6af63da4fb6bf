SPECIFICATION FairSpec
CONSTANTS
  Checkout = {p1}
  Client = {c1}
  Hook = {h1}
  Subscribed = {"completed", "completed_unpaid", "async_succeeded"}
  Roles = {"USER"}
  LastDay = 0
  Period = 1
  Faults = {"db"}
PROPERTY PendingUpdates
CHECK_DEADLOCK FALSE
