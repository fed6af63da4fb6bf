SPECIFICATION ReadinessSpec
CONSTANTS
  Customer = {"c"}
  SeedSkills <- MCSeedSkills
  Aliases <- MCAliases
  SeedTransfers <- MCSeedTransfers
  PlanRows <- MCPlanRows
  CatalogRows <- MCCatalogRows
  KeptTables = {"demand"}
  NewName = "x"
  SeedBounds <- MCSeedBounds
  Topics = {"wizard"}
  CatalogOrders <- MCCatalogOrders
  SkillName <- MCSkillName
  SkillType <- MCSkillType
  NameContains <- MCNameContains
  MaxYears = 50
  ProfileId = {"p1", "p2", "p3"}
  NewProfile = "new"
  CitiesOf <- MCCitiesOf
  DefaultPlaces <- MCDefaultPlaces
  WizardScenarios <- MCWizardScenarios
  Desired = {"dev"}
  Homes = {"UA"}
  Pack <- MCPack
  Choice <- MCChoice
  Irrelevant = {"French"}
  Local = {"German"}
  Transfers <- MCTransfers
  Orders <- MCOrders
  Tuning = {"STANDARD", "CONSERVATIVE"}
  MatchProfile <- MCMatchProfile
  Import <- MCImport
  Allowed = {0, 1}
  Requested = {0, 2, 25}
  MaxRequested = 20
  Take = 60
  MaxSaves = 1
  EuCountry = {"DE", "PL"}
  NonEuCountry = {"UA"}
  OtherCountry = {"XX"}
  ItRole = {"DevOps Engineer"}
  OtherRole = {"Nurse"}
  Values <- MCValues
  Place <- MCPlace
  SeedRows <- MCRows
  Cities <- MCCities
  Source <- MCSource
  FinScenarios <- MCFinScenarios
  Case = {k1}
  Owner = owner
  Admin = admin
  Specialist = {s1, s2}
  Reader = {owner}
  Slot = {r1, r2}
  MaxMessages = 3
PROPERTY OtherCityUsesAverage
CHECK_DEADLOCK FALSE
