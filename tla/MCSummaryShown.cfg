SPECIFICATION AccountSpec
CONSTANTS
  Topics = {"reports"}
  Call = {c1, c2}
  Profile <- MCProfile
  Address = {"e1", "e2"}
  MaxRow = 2
  MaxToken = 3
  MaxMail = 1
  StateLife = 1
  CodeLife = 0
  TicketLife = 1
  MailLife = 0
  LastTick = 1
  MaxMount = 2
  Scenarios <- MCScenarios
  ReportScenarios <- MCStored
  Languages = {"ru"}
  Browser = {"b1", "b2"}
  Sending = {r1, r2}
  TargetCountry = {"DE"}
  TargetCity = {"Berlin"}
  PreferenceScenarios <- MCPreferenceScenarios
INVARIANT StoredSummaryIsShown
CHECK_DEADLOCK FALSE
