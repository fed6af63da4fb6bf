----------------------------- MODULE MCReadiness ----------------------------
(* A behaviour works on the questionnaire, on one of the three engines, on *)
(* the matching of vacancies, on a case or on the seed, which share no     *)
(* state: `topic` says on which, and the others stay as they begin.        *)
EXTENDS ProfileWizard, Scoring, JobMatches, LegalReadiness, FinancialReadiness, Cases, Seed

CONSTANT Topics
VARIABLE topic

profileVars == <<wizardVars, scoringVars, matchVars, legalVars, financialVars>>
readinessVars == <<topic, profileVars, vars, seedVars>>

First(S) == CHOOSE x \in S : TRUE

ReadinessInit ==
  /\ topic \in Topics
  /\ WizardInit /\ ScoringInit /\ MatchInit /\ LegalInit /\ FinancialInit /\ Init /\ SeedInit
  /\ topic # "wizard" => wizardScenario = First(WizardScenarios)
  /\ topic # "legal" => /\ {facts.currentCountry, facts.targetCountry} = {First(Country)}
                        /\ facts.desiredRole = First(ItRole)
  /\ topic # "financial" => finScenario = First(FinScenarios)
  /\ topic # "matching" => profile = First(MatchProfile)
  /\ topic # "seed" => seedBudget = First(SeedBounds)

ReadinessNext ==
  \/ topic = "wizard" /\ WizardNext /\ UNCHANGED <<topic, scoringVars, matchVars, legalVars, financialVars, vars, seedVars>>
  \/ topic = "scoring" /\ ScoringNext /\ UNCHANGED <<topic, wizardVars, matchVars, legalVars, financialVars, vars, seedVars>>
  \/ topic = "matching" /\ MatchNext /\ UNCHANGED <<topic, wizardVars, scoringVars, legalVars, financialVars, vars, seedVars>>
  \/ topic = "legal" /\ LegalNext /\ UNCHANGED <<topic, wizardVars, scoringVars, matchVars, financialVars, vars, seedVars>>
  \/ topic = "financial" /\ FinancialNext /\ UNCHANGED <<topic, wizardVars, scoringVars, matchVars, legalVars, vars, seedVars>>
  \/ topic = "cases" /\ Next /\ UNCHANGED <<topic, profileVars, seedVars>>
  \/ topic = "seed" /\ SeedNext /\ UNCHANGED <<topic, profileVars, vars>>

ReadinessSpec == ReadinessInit /\ [][ReadinessNext]_readinessVars

(* Each part keeps its types.                                              *)
TypesOK ==
  WizardTypeOK /\ ScoringTypeOK /\ MatchTypeOK /\ LegalTypeOK /\ FinancialTypeOK /\ TypeOK
  /\ SeedTypeOK

(* A roadmap is built in the order its dependencies demand, and its length *)
(* is that of the longest chain of them.                                   *)
RoadmapIsSound == RoadmapRespectsDependencies /\ CriticalPathIsLongestChain

(* Nothing a user improves makes an answer worse: levels that are raised,  *)
(* and none lowered, leave no new gap, no longer way and no lower fit      *)
(* (computeAnalysis), and a move that is simpler or safer is never judged  *)
(* riskier, by the legal rules (resolveOverallRisk) or the financial ones  *)
(* (resolveRiskLevel).                                                     *)
ImprovingNeverHurts ==
  [][RaisedLevelsHurtNothing /\ SimplerMoveIsNoRiskier /\ SaferFinancesAreNoRiskier
    ]_<<result, legalReport, report>>

-----------------------------------------------------------------------------
MCSymmetry == Permutations(Specialist) \cup Permutations(Slot)

MCSkillName == [java |-> "java", react |-> "react", german |-> "german", aws |-> "aws"]
MCSkillType ==
  [java |-> "HARD_SKILL", react |-> "HARD_SKILL", german |-> "LANGUAGE", aws |-> "CERTIFICATION"]
MCCatalogOrders == {<<"java", "react", "german", "aws">>, <<"aws", "react", "java", "german">>}
MCNameContains == {<<"reactjs", "react">>, <<"javareact", "react">>, <<"javareact", "java">>}
MCCitiesOf == [DE |-> {"Berlin"}, GB |-> {"London"}]
Place_(c, t) == [country |-> c, city |-> t]
MCDefaultPlaces == {Place_(Empty, Empty), Place_("DE", "Berlin")}
MCRow ==
  [country |-> "DE", city |-> "Berlin", role |-> "dev", home |-> "UA", years |-> 3, amount |-> 0,
   months |-> NoAmount, competencies |-> {[id |-> "german", field |-> "hardSkillLevel", value |-> "BASIC"]}]
MCSkill(n, c, h) == [name |-> n, confidence |-> c, hint |-> h]
MCTexts ==
  {[ai |-> <<[role |-> Empty, years |-> NoYears, home |-> "UA",
              skills |-> <<MCSkill("reactjs", 90, "ADVANCED"), MCSkill("german", 60, "BASIC"),
                           MCSkill("javareact", 80, "CONFIDENT"), MCSkill("cobol", 90, "NONE")>>]>>,
    role |-> "dev", years |-> 7, home |-> Empty, mentions |-> {"react", "german"}],
   [ai |-> <<>>, role |-> Empty, years |-> NoYears, home |-> Empty, mentions |-> {"aws"}]}
MCWizardScenarios ==
  {[of |-> NewProfile, rows |-> <<>>, texts |-> MCTexts, choices |-> 3, fails |-> 0],
   [of |-> NewProfile, rows |-> <<>>, texts |-> {}, choices |-> 3, fails |-> 1],
   [of |-> "p1", rows |-> [p \in {"p1"} |-> MCRow], texts |-> MCTexts, choices |-> 1, fails |-> 1]}
MCPack ==
  [Linux |-> "CORE", Docker |-> "CORE", Kubernetes |-> "CORE", Terraform |-> "CORE",
   AWS |-> "IMPORTANT", Azure |-> "IMPORTANT", English |-> "IMPORTANT", German |-> "CONTEXTUAL",
   French |-> "CONTEXTUAL"]
    @@ ("AWS Certified" :> "OPTIONAL")
MCChoice ==
  [Linux |-> {"NONE"}, Docker |-> {"NONE", "CONFIDENT"},
   Kubernetes |-> {"NONE", "BASIC"}, Terraform |-> {"NONE"},
   AWS |-> {"NONE", "ADVANCED"}, Azure |-> {"NONE"},
   English |-> {"NONE", "B2"}, German |-> {"NONE"}, French |-> {"NONE"}]
    @@ ("AWS Certified" :> {"NONE"})
MCTransfers ==
  {<<<<"Docker", "Kubernetes", 35>>, <<"AWS", "Azure", 60>>>>,
   <<<<"AWS", "Azure", 60>>, <<"Docker", "Kubernetes", 35>>>>}
MCOrders ==
  {<<"Kubernetes", "Docker", "Linux", "Terraform", "AWS", "Azure", "German", "English", "French",
     "AWS Certified">>,
   <<"AWS", "French", "Linux", "Docker", "Kubernetes", "AWS Certified", "Azure", "Terraform",
     "English", "German">>}

MCLevels(linux, aws, certified) ==
  [Linux |-> linux, AWS |-> aws, German |-> "NONE"] @@ ("AWS Certified" :> certified)
MCMatchProfile ==
  {[country |-> "DE", role |-> "ops", levels |-> MCLevels("CONFIDENT", "NONE", "NONE")],
   [country |-> "DE", role |-> "ops", levels |-> MCLevels("BASIC", "PRACTICAL", "IN_PROGRESS")],
   [country |-> "NL", role |-> "qa", levels |-> MCLevels("BASIC", "NONE", "NONE")]}
Vacancy(k, c, r, n) == [key |-> k, country |-> c, role |-> r, needs |-> n]
MCImport ==
  [first |-> <<Vacancy("v1", "DE", "ops", {"Linux"}),
               Vacancy("v2", "DE", "ops", {"AWS", "AWS Certified", "German"})>>,
   second |-> <<Vacancy("v1", "DE", "qa", {"AWS"}),
                Vacancy("v3", "DE", "ops", {"Linux", "AWS"})>>]

MCValues ==
  [savings |-> {0, 500000, 1200000}, salary |-> {100000, 250000}, budget |-> {200000},
   currency |-> {"USD", "EUR"}, dependents |-> {0, 1}, lifestyle |-> {"FRUGAL", "STANDARD"},
   months |-> {3, 6, 12}, place |-> {<<"DE", "Berlin">>, <<"DE", None>>, <<"GB", "London">>}]
MCPlace == <<"DE", "Berlin">>
CostRow(c, t, k, n) == [country |-> c, city |-> t, category |-> k, usd |-> n]
MCRows ==
  {CostRow("DE", "Berlin", "RENT", 110000), CostRow("DE", "Berlin", "FOOD", 35000),
   CostRow("PL", "Warsaw", "RENT", 70000), CostRow("PL", "Warsaw", "UTILITIES", 18000)}
MCCities == <<<<"DE", "Berlin">>, <<"GB", "London">>, <<"PL", "Warsaw">>>>
MCIndex == [RENT |-> 40, FOOD |-> 30, UTILITIES |-> 20, TRANSPORT |-> 25]
MCSource ==
  [DE |-> [name |-> "Germany", monthly |-> 2000, index |-> MCIndex],
   GB |-> [name |-> "United Kingdom", monthly |-> 2600, index |-> MCIndex]]
MCFinScenarios ==
  {[fields |-> DOMAIN MCValues \ {"place"}, syncs |-> FALSE],
   [fields |-> {"place", "savings"}, syncs |-> TRUE]}

MCSeedSkill(n, parent) == [name |-> n, parent |-> parent]
MCSeedSkills ==
  <<MCSeedSkill("Node.js", ""), MCSeedSkill("Express", "Node.js"), MCSeedSkill("NestJS", "Express")>>
MCAliases == <<<<"node", "Node.js">>>>
MCSeedTransfers == <<<<"Node.js", "NestJS">>>>
MCPlanRows == <<<<"plan", "FREE">>, <<"entitlement", "PDF_EXPORT">>>>
MCCatalogRows == <<<<"demand", "Docker">>, <<"cost", "RENT">>>>
MCSeed(payments, visits, renames, changes, days) ==
  [runs |-> 2, payments |-> payments, visits |-> visits, renames |-> renames,
   changes |-> changes, days |-> days]
MCSeedBounds ==
  {MCSeed(1, 0, 0, 0, 1), MCSeed(0, 1, 0, 0, 0), MCSeed(0, 0, 2, 0, 0), MCSeed(0, 0, 0, 1, 0)}

=============================================================================
