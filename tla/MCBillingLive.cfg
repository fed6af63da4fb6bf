SPECIFICATION FairSpec
CONSTANTS
  Checkout = {p1}
  Client = {c1}
  Hook = {h1}
  Subscribed = {"completed", "completed_unpaid", "async_succeeded", "sub_active", "sub_deleted", "invoice_paid"}
  Roles = {"USER"}
  LastDay = 1
  Period = 1
  Faults = {}
PROPERTIES
  PremiumLapsesForACause
  ChargedIsActivated
  RoleIsRepaired
CHECK_DEADLOCK FALSE
