------------------------- MODULE FinancialReadiness -------------------------
(***************************************************************************)
(* The financial readiness of a saved profile (apps/api/src/financial-     *)
(* readiness/) and the synchronisation of the cost-of-living rows it reads *)
(* (apps/api/src/cost-of-living/).  An evaluation looks for prices in      *)
(* three reads; the synchronisation replaces the rows of a city in one     *)
(* transaction, retries, and goes on to the next city.                     *)
(* Amounts are in cents, runways in 1/10 month.                            *)
(***************************************************************************)
EXTENDS Integers, Sequences, FiniteSets, FiniteSetsExt, TLC

CONSTANTS
  Values,         \* field of the wizard -> what may be sent for it
  Place,          \* the target <<country code, city>> of the profile at first
  SeedRows,       \* CostOfLivingData rows of the seed
  Cities,         \* TARGET_CITY_BY_COUNTRY as a sequence of <<code, city>>
  Source,         \* country code -> [name, monthly, index] of WhereNext (external)
  FinScenarios    \* which fields change, and whether prices are synchronised

None == "none"
Blank == -1                               \* null in a column of an amount
Category == {"RENT", "FOOD", "UTILITIES", "TRANSPORT"}
NoAsk == [at |-> "idle"]
NoReport == [source |-> "none"]
NoSync == [at |-> "idle"]
MaxAttempts == 3                          \* MAX_SYNC_RETRIES + 1

VARIABLES
  finScenario,
  answers,        \* the financial columns of the RelocationProfile row
  costs,          \* CostOfLivingData, as a set
  cache,          \* whether WhereNextService holds the costOfLiving dataset
  colSync,        \* ColSyncService.sync under way
  lastRun,        \* status of runHistory[0]
  asking,         \* the evaluation under way
  report          \* the evaluation answered last

financialVars == <<finScenario, answers, costs, cache, colSync, lastRun, asking, report>>

-----------------------------------------------------------------------------
(* The arithmetic of the engine.                                           *)

RateToUsd == [USD |-> 1000, EUR |-> 1080, GBP |-> 1270, CAD |-> 730, PLN |-> 250, UAH |-> 24]
LifestyleTwentieths == [FRUGAL |-> 17, STANDARD |-> 20, COMFORTABLE |-> 25]

(* What may be sent for a field, by the decorators of CreateProfileDto.    *)
AcceptedAnswers ==
  [savings |-> Nat \cup {Blank}, salary |-> Nat \cup {Blank}, budget |-> Nat \cup {Blank},
   currency |-> DOMAIN RateToUsd, dependents |-> 0 .. 10,
   lifestyle |-> DOMAIN LifestyleTwentieths, months |-> 1 .. 24]

ASSUME FinancialAssumption ==
  /\ DOMAIN Values \subseteq DOMAIN AcceptedAnswers \cup {"place"}
  /\ \A f \in DOMAIN Values \ {"place"} : Values[f] \subseteq AcceptedAnswers[f]
  /\ \A s \in FinScenarios : s.fields \subseteq DOMAIN Values
  /\ IsFiniteSet(SeedRows)
  /\ \A r \in SeedRows : r.category \in Category /\ r.usd \in Nat
  /\ \A k \in DOMAIN Source : /\ Source[k].monthly \in Nat
                              /\ Source[k].index \in [Category -> Nat]
                              /\ \E c \in Category : Source[k].index[c] # 0

Rounded(n, d) == (n + d \div 2) \div d

ToUsd(amount, currency) ==
  IF amount = Blank THEN Blank ELSE Rounded(amount * RateToUsd[currency], 1000)

OrZero(amount) == IF amount = Blank THEN 0 ELSE amount

(* Averages by category; a category without a row counts nothing.          *)
Average(rows, c) ==
  LET of == {r \in rows : r.category = c}
  IN IF of = {} THEN 0 ELSE Rounded(MapThenSumSet(LAMBDA r : r.usd, of), Cardinality(of))

Total(rows) == MapThenSumSet(LAMBDA c : Average(rows, c), Category)

MonthlyEstimate(a, base) ==
  Rounded(base * LifestyleTwentieths[a.lifestyle] * (4 + a.dependents), 80)

Need(a, base) == Max({MonthlyEstimate(a, base), OrZero(ToUsd(a.budget, a.currency))})

Runway(a, base) ==
  IF a.savings = Blank \/ Need(a, base) = 0 THEN Blank
  ELSE Rounded(10 * ToUsd(a.savings, a.currency), Need(a, base))

MinimumRunwayMonths == 6

(* Seeded fault: a short search needs no minimum.                          *)
RecommendedForSearch(a, base) == Need(a, base) * a.months

Recommended(a, base) == Need(a, base) * Max({a.months, MinimumRunwayMonths})

(* Seeded fault: the comparison is the wrong way round.                    *)
SalaryIsCovered(salary, need) == salary # Blank /\ salary <= need

SalaryCovers(salary, need) == salary # Blank /\ salary >= need

TriggeredRules(a, base) ==
  LET runway == Runway(a, base)
      salary == ToUsd(a.salary, a.currency)
  IN {r \in {"NO_SAVINGS", "BELOW_THREE", "THREE_TO_SIX", "SALARY_COVERS", "NO_SALARY",
             "DEPENDENTS"} :
       CASE r = "NO_SAVINGS"    -> OrZero(ToUsd(a.savings, a.currency)) = 0
         [] r = "BELOW_THREE"   -> runway # Blank /\ runway < 30
         [] r = "THREE_TO_SIX"  -> runway # Blank /\ runway >= 30 /\ runway < 60
         [] r = "SALARY_COVERS" -> SalaryCovers(salary, Need(a, base))
         [] r = "NO_SALARY"     -> salary = Blank
         [] r = "DEPENDENTS"    -> a.dependents > 0}

StartScore(rules) ==
  IF rules \cap {"NO_SAVINGS", "BELOW_THREE"} # {} THEN 3
  ELSE IF "THREE_TO_SIX" \in rules THEN 2 ELSE 1

ScoreShift(rules) ==
  Cardinality(rules \cap {"NO_SALARY", "DEPENDENTS"}) - Cardinality(rules \cap {"SALARY_COVERS"})

(* Seeded fault: nothing keeps the sum below the highest level.            *)
ClampedBelow(rules) == Max({1, StartScore(rules) + ScoreShift(rules)})

RiskScore(rules) == Max({1, Min({3, StartScore(rules) + ScoreShift(rules)})})

Evaluation(a, source, base) ==
  LET rules == TriggeredRules(a, base)
  IN [source |-> source, answers |-> a, base |-> base, rules |-> rules,
      recommended |-> Recommended(a, base), risk |-> RiskScore(rules)]

-----------------------------------------------------------------------------
(* What the wizard sends of a form left as it is.                          *)
FirstAnswers ==
  [savings |-> Blank, salary |-> Blank, budget |-> Blank, currency |-> "USD",
   dependents |-> 0, lifestyle |-> "STANDARD", months |-> 6, place |-> Place]

FinancialInit ==
  /\ finScenario \in FinScenarios
  /\ answers = FirstAnswers
  /\ costs = SeedRows
  /\ cache = FALSE
  /\ colSync = NoSync
  /\ lastRun = None
  /\ asking = NoAsk
  /\ report = NoReport

(* The wizard sends what is entered; ProfileService.update drops a field   *)
(* that is empty, so that a cleared answer keeps its value.  Bound: one    *)
(* field changes between evaluations.                                      *)
SaveAnswers ==
  /\ asking = NoAsk
  /\ report # NoReport => report.answers = answers
  /\ \E f \in finScenario.fields : \E v \in Values[f] :
       answers' = [answers EXCEPT ![f] = v]
  /\ UNCHANGED <<finScenario, costs, cache, colSync, lastRun, asking, report>>

(* evaluateForProfile reads the profile, then the prices.                  *)
Evaluate ==
  /\ asking = NoAsk
  /\ asking' = [at |-> IF answers.place[2] = None THEN "country" ELSE "city", answers |-> answers]
  /\ UNCHANGED <<finScenario, answers, costs, cache, colSync, lastRun, report>>

(* Of loadCostEstimate, the read at one level: its rows, or the next.      *)
ReadPrices(at, rows, next) ==
  /\ asking.at = at
  /\ IF rows # {} \/ next = None
       THEN /\ report' = Evaluation(asking.answers, at, Total(rows))
            /\ asking' = NoAsk
       ELSE /\ asking' = [asking EXCEPT !.at = next]
            /\ UNCHANGED report
  /\ UNCHANGED <<finScenario, answers, costs, cache, colSync, lastRun>>

ReadCity ==
  ReadPrices("city", {r \in costs : r.country = asking.answers.place[1]
                                    /\ r.city = asking.answers.place[2]}, "country")

ReadCountry ==
  ReadPrices("country", {r \in costs : r.country = asking.answers.place[1]}, "global")

ReadGlobal == ReadPrices("global", costs, None)

-----------------------------------------------------------------------------
(* The prices.                                                             *)

(* refreshAll at the start and every hour; a failed request leaves what is *)
(* there, so that only the first success shows.                            *)
RefreshAll ==
  /\ finScenario.syncs /\ ~cache
  /\ cache' = TRUE
  /\ UNCHANGED <<finScenario, answers, costs, colSync, lastRun, asking, report>>

StartColSync ==
  /\ finScenario.syncs /\ colSync = NoSync
  /\ IF cache THEN /\ colSync' = [at |-> 1, attempt |-> 1, updated |-> 0, skipped |-> 0,
                                  errors |-> 0]
                   /\ UNCHANGED lastRun
              ELSE /\ lastRun' = "failed"
                   /\ UNCHANGED colSync
  /\ UNCHANGED <<finScenario, answers, costs, cache, asking, report>>

City(i) == Cities[i][2]
Data(i) == Source[Cities[i][1]]

Share(d, c) ==
  LET sum == MapThenSumSet(LAMBDA k : d.index[k], Category)
  IN Rounded(d.index[c] * d.monthly, sum)

(* The rows the synchronisation writes: under the name of the country.     *)
NewRows(i) ==
  {[country |-> Data(i).name, city |-> City(i), category |-> c, usd |-> 100 * Share(Data(i), c)] :
     c \in Category}

Running == colSync # NoSync /\ colSync.at <= Len(Cities)

Known(i) == Cities[i][1] \in DOMAIN Source

Onwards(s) == [s EXCEPT !.at = @ + 1, !.attempt = 1]

SkipCity ==
  /\ Running /\ ~Known(colSync.at)
  /\ colSync' = Onwards([colSync EXCEPT !.skipped = @ + 1])
  /\ UNCHANGED <<finScenario, answers, costs, cache, lastRun, asking, report>>

(* Seeded fault: the delete commits on its own, and the insert fails.      *)
ReplacedOrEmptied(i) ==
  {{r \in costs : r.city # City(i)}, {r \in costs : r.city # City(i)} \cup NewRows(i)}

(* What the transaction leaves when it commits.                            *)
Replaced(i) == {{r \in costs : r.city # City(i)} \cup NewRows(i)}

SyncCity ==
  /\ Running /\ Known(colSync.at)
  /\ costs' \in Replaced(colSync.at)
  /\ colSync' = Onwards([colSync EXCEPT !.updated = @ + 1])
  /\ UNCHANGED <<finScenario, answers, cache, lastRun, asking, report>>

(* The database fails, before the commit or only in the answer; an error   *)
(* that looks transient is tried again.                                    *)
FailCity ==
  /\ Running /\ Known(colSync.at)
  /\ costs' \in {costs} \cup Replaced(colSync.at)
  /\ \/ /\ colSync.attempt < MaxAttempts
        /\ colSync' = [colSync EXCEPT !.attempt = @ + 1]
     \/ colSync' = Onwards([colSync EXCEPT !.skipped = @ + 1, !.errors = @ + 1])
  /\ UNCHANGED <<finScenario, answers, cache, lastRun, asking, report>>

FinishColSync ==
  /\ colSync # NoSync /\ colSync.at > Len(Cities)
  /\ lastRun' = IF colSync.errors > 0 /\ colSync.updated = 0 THEN "failed"
                ELSE IF colSync.errors + colSync.skipped > 0 THEN "partial" ELSE "success"
  /\ colSync' = NoSync
  /\ UNCHANGED <<finScenario, answers, costs, cache, asking, report>>

FinancialNext ==
  \/ SaveAnswers \/ Evaluate \/ ReadCity \/ ReadCountry \/ ReadGlobal
  \/ RefreshAll \/ StartColSync \/ SkipCity \/ SyncCity \/ FailCity \/ FinishColSync

FinancialSpec == FinancialInit /\ [][FinancialNext]_financialVars

-----------------------------------------------------------------------------
(* The prices of a month come to an amount.                                *)
BaseIsAmount == report # NoReport => report.base \in Nat

(* Answers are ones that may be entered; a sync counts every city once.    *)
FinancialTypeOK ==
  /\ \A f \in finScenario.fields : answers[f] \in Values[f] \cup {FirstAnswers[f]}
  /\ \A r \in costs : r.category \in Category /\ r.usd \in Nat
  /\ colSync # NoSync => /\ colSync.attempt \in 1 .. MaxAttempts
                         /\ colSync.updated + colSync.skipped = colSync.at - 1
                         /\ colSync.errors <= colSync.skipped
  /\ lastRun \in {None, "failed", "partial", "success"}
  /\ report # NoReport => report.risk \in 1 .. 3
  /\ BaseIsAmount

Cheaper(x, y) == LifestyleTwentieths[x] <= LifestyleTwentieths[y]

(* b describes a financially safer move than a.                            *)
Safer(a, b) ==
  /\ OrZero(ToUsd(b.savings, b.currency)) >= OrZero(ToUsd(a.savings, a.currency))
  /\ a.salary # Blank => b.salary # Blank
  /\ OrZero(ToUsd(b.salary, b.currency)) >= OrZero(ToUsd(a.salary, a.currency))
  /\ OrZero(ToUsd(b.budget, b.currency)) <= OrZero(ToUsd(a.budget, a.currency))
  /\ b.dependents <= a.dependents /\ Cheaper(b.lifestyle, a.lifestyle)

(* At the same prices, more savings or income, a smaller budget, fewer     *)
(* dependents or a cheaper life never raise the risk, whatever rules fire  *)
(* together (financial-rule-registry.ts, resolveRiskLevel).                *)
SaferFinancesAreNoRiskier ==
  (report # NoReport /\ report' # report /\ report'.base = report.base
     /\ Safer(report.answers, report'.answers)) => report'.risk <= report.risk

(* Who has saved what the report recommends is not warned of a short       *)
(* runway, whatever the rounding and however short the search for a job.   *)
RecommendedSavingsSuffice ==
  (/\ report # NoReport
   /\ OrZero(ToUsd(report.answers.savings, report.answers.currency)) > 0
   /\ ToUsd(report.answers.savings, report.answers.currency) >= report.recommended)
     => report.rules \cap {"NO_SAVINGS", "BELOW_THREE", "THREE_TO_SIX"} = {}

(* No step takes a price away from a city that has one: neither a failed   *)
(* attempt of the synchronisation nor one that is tried again leaves the   *)
(* city without its rows (the transaction of ColSyncService.sync).         *)
CityKeepsItsPrices ==
  [][\A r \in costs : \E q \in costs' : q.city = r.city /\ q.category = r.category]_costs

=============================================================================
