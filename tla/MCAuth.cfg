SPECIFICATION AccountSpec
CONSTANTS
  Topics = {"auth", "reports", "preferences"}
  Call = {c1, c2}
  Profile <- MCProfile
  Address = {"e1", "e2"}
  MaxRow = 2
  MaxToken = 3
  MaxMail = 1
  StateLife = 1
  CodeLife = 0
  TicketLife = 1
  MailLife = 0
  LastTick = 1
  MaxMount = 2
  Scenarios <- MCScenarios
  ReportScenarios <- MCReports
  Languages = {"ru"}
  Browser = {"b1", "b2"}
  Sending = {r1, r2}
  TargetCountry = {"DE"}
  TargetCity = {"Berlin"}
  PreferenceScenarios <- MCPreferenceScenarios
SYMMETRY MCSymmetry
INVARIANTS
  TypesOK
  VerifiedByProof
  CodeIsForItsHolder
  PageFollowsCode
  ExportedSummaryIsGenuine
  ThemesAgree
PROPERTY TokensAreOneTime
CHECK_DEADLOCK FALSE
