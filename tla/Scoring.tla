------------------------------ MODULE Scoring -------------------------------
(***************************************************************************)
(* How ready a profile is for a role in a country: the analysis that a job *)
(* runs (apps/api/src/scoring/analysis-workflow.service.ts) on the         *)
(* requirements of the seed (prisma/seed.ts), with the arithmetic of       *)
(* scoring.service.ts.  The user saves levels and an administrator changes *)
(* the tuning while an analysis is between its reads.                      *)
(* Scores are in 1/10000, multipliers in 1/100, weights in 1/10000,        *)
(* matches and fits in 1/1000, months in 1/10.                             *)
(***************************************************************************)
EXTENDS Integers, Sequences, FiniteSets, SequencesExt, FiniteSetsExt, Lists

CONSTANTS
  Pack,             \* what a role asks for: competency name -> priority
  Choice,           \* the levels a user may choose for each competency
  Irrelevant,       \* languages of no use in the target country
  Local,            \* the language of the target country, if it has one of its own
  Transfers,        \* the orders in which it returns the SkillTransferability rows,
                    \* each <<source, target, percent>>
  Orders,           \* the orders in which the database returns requirements
  Tuning            \* the tuning profiles an administrator chooses from

Competency == DOMAIN Choice
Language == {"English", "German", "French", "Spanish", "Polish"}
Certificate == {"AWS Certified", "Azure Certified", "IELTS", "Goethe-Zertifikat"}

TypeOf(c) == CASE c \in Language    -> "LANGUAGE"
               [] c \in Certificate -> "CERTIFICATION"
               [] OTHER             -> "HARD_SKILL"

LevelNames(type) ==
  CASE type = "LANGUAGE"      -> {"NONE", "A1", "A2", "B1", "B2", "C1", "C2"}
    [] type = "CERTIFICATION" -> {"NONE", "PLANNED", "IN_PROGRESS", "OBTAINED", "EXPIRED"}
    [] OTHER                  -> {"NONE", "BASIC", "PRACTICAL", "CONFIDENT", "ADVANCED"}

(* A competency without a row is at NONE; the query returns every          *)
(* requirement of the role once.  No seeded transfer builds on another.    *)
ASSUME ScoringAssumption ==
  /\ DOMAIN Pack \subseteq Competency /\ IsFiniteSet(DOMAIN Pack)
  /\ \A c \in DOMAIN Pack : Pack[c] \in {"CORE", "IMPORTANT", "OPTIONAL", "CONTEXTUAL"}
  /\ \A c \in Competency : "NONE" \in Choice[c] /\ Choice[c] \subseteq LevelNames(TypeOf(c))
  /\ Transfers # {} /\ \A e \in Transfers : e \in Seq(Competency \X Competency \X Nat)
  /\ \A e, g \in Transfers : ToSet(e) = ToSet(g)
  /\ \A e \in Transfers : \A i, j \in DOMAIN e : e[i][2] # e[j][1]
  /\ \A o \in Orders : /\ o \in Seq(DOMAIN Pack) /\ ToSet(o) = DOMAIN Pack
                        /\ \A i, j \in DOMAIN o : o[i] = o[j] => i = j
  /\ "STANDARD" \in Tuning /\ Tuning \subseteq {"CONSERVATIVE", "STANDARD", "AGGRESSIVE"}

NoResult == [of |-> "none"]
NoTask == [at |-> "idle"]
NoSnapshot == -1

VARIABLES
  levels,           \* UserCompetency rows of the profile; NONE without one
  tuning,           \* ScoringTuningService.activeProfile
  vacancies,        \* totalVacancies of the country's latest MarketSnapshot
  task,             \* the analysis under way
  result            \* the AnalysisResult stored last

scoringVars == <<levels, tuning, vacancies, task, result>>

-----------------------------------------------------------------------------
(* The tables of the service.                                              *)

HardOrder == <<"NONE", "BASIC", "PRACTICAL", "CONFIDENT", "ADVANCED">>
LanguageOrder == <<"NONE", "A1", "A2", "B1", "B2", "C1", "C2">>
CertificateOrder == <<"NONE", "PLANNED", "IN_PROGRESS", "OBTAINED">>

LevelScore ==
  [NONE |-> 0, BASIC |-> 2500, PRACTICAL |-> 5000, CONFIDENT |-> 7500, ADVANCED |-> 10000,
   A1 |-> 1500, A2 |-> 3000, B1 |-> 5000, B2 |-> 7000, C1 |-> 8500, C2 |-> 10000,
   PLANNED |-> 2500, EXPIRED |-> 2500, IN_PROGRESS |-> 5000, OBTAINED |-> 10000]

OrderOf(type) == CASE type = "LANGUAGE"      -> LanguageOrder
                   [] type = "CERTIFICATION" -> CertificateOrder
                   [] OTHER                  -> HardOrder

StepHours(type) == CASE type = "LANGUAGE"      -> <<80, 100, 160, 220, 300, 380>>
                     [] type = "CERTIFICATION" -> <<10, 30, 50>>
                     [] OTHER                  -> <<20, 60, 80, 120>>

(* The requirement the seed writes for a name of the role's pack.          *)
Requirement(c) ==
  LET p == Pack[c]
      rank == [CORE |-> 1, IMPORTANT |-> 2, OPTIONAL |-> 3, CONTEXTUAL |-> 4][p]
  IN [competency |-> c, type |-> TypeOf(c), priority |-> p,
      role |-> <<"CORE", "RELATED", "WEAKLY_RELATED", "WEAKLY_RELATED">>[rank],
      demand |-> <<450, 240, 75, 24>>[rank],    \* frequency * importance, in 1/1000
      level |-> CASE TypeOf(c) = "HARD_SKILL" ->
                       <<"CONFIDENT", "PRACTICAL", "BASIC", "BASIC">>[rank]
                  [] c = "English"                -> "B2"
                  [] TypeOf(c) = "CERTIFICATION"  -> "OBTAINED"
                  [] OTHER -> IF p = "CONTEXTUAL" /\ c \notin Local THEN "A1" ELSE "A2",
      score |-> IF TypeOf(c) = "CERTIFICATION"
                  THEN <<10000, 7500, 5000, 5000>>[rank] ELSE 0]

(* The three profiles of scoring.config.ts; the severity that uses their   *)
(* thresholds is neither stored nor shown and is left out.                 *)
Multiplier(t) ==
  [CONSERVATIVE |-> [CORE |-> 100, IMPORTANT |-> 60, OPTIONAL |-> 15, CONTEXTUAL |-> 5],
   STANDARD     |-> [CORE |-> 100, IMPORTANT |-> 75, OPTIONAL |-> 25, CONTEXTUAL |-> 10],
   AGGRESSIVE   |-> [CORE |-> 100, IMPORTANT |-> 90, OPTIONAL |-> 35, CONTEXTUAL |-> 15]][t]

RoleMultiplier(t) ==
  [CONSERVATIVE |-> [CORE |-> 100, RELATED |-> 45, WEAKLY_RELATED |-> 10, IRRELEVANT |-> 0],
   STANDARD     |-> [CORE |-> 100, RELATED |-> 60, WEAKLY_RELATED |-> 20, IRRELEVANT |-> 0],
   AGGRESSIVE   |-> [CORE |-> 100, RELATED |-> 75, WEAKLY_RELATED |-> 30, IRRELEVANT |-> 0]][t]

OptimisticPercent(t) == [CONSERVATIVE |-> 75, STANDARD |-> 70, AGGRESSIVE |-> 65][t]

-----------------------------------------------------------------------------
(* computeAnalysis, for the levels l under the tuning t.                   *)

(* A skill is worth what a related one transfers to it, if that is more.   *)
Carried(s, e) == [s EXCEPT ![e[2]] = Max({@, (s[e[1]] * e[3]) \div 100})]

Transferred(edges, own) ==
  LET upTo[n \in 0 .. Len(edges)] ==
        IF n = 0 THEN own ELSE Carried(upTo[n - 1], edges[n])
  IN upTo[Len(edges)]

CurrentScore(edges, l) ==
  LET own  == [c \in Competency |-> LevelScore[l[c]]]
      hard == Transferred(edges, [c \in Competency |->
                                    IF TypeOf(c) = "HARD_SKILL" THEN own[c] ELSE 0])
  IN [c \in Competency |-> IF TypeOf(c) = "HARD_SKILL" THEN Max({own[c], hard[c]}) ELSE own[c]]

RequiredScore(r) ==
  IF r.type = "CERTIFICATION" THEN r.score ELSE LevelScore[r.level]

Match(current, required) ==
  IF required > 0 THEN Min({(current * 1000) \div required, 1000}) ELSE 1000

Weight(r, t) ==
  (r.demand * Multiplier(t)[r.priority] * RoleMultiplier(t)[r.role] + 500) \div 1000

Excluded(r) ==
  \/ r.type = "LANGUAGE" /\ r.competency \in Irrelevant
  \/ r.role = "IRRELEVANT"

Primary(r) ==
  r.priority \in {"CORE", "IMPORTANT"} /\ r.role \in {"CORE", "RELATED"}

RecommendationType(r, match) ==
  CASE Excluded(r)                    -> "EXCLUDED_AS_IRRELEVANT"
    [] ~Excluded(r) /\ match < 1000   -> IF Primary(r) THEN "ACTIONABLE_GAP"
                                                       ELSE "OPTIONAL_IMPROVEMENT"
    [] ~Excluded(r) /\ match >= 1000  -> IF Primary(r) THEN "OPTIONAL_IMPROVEMENT"
                                                       ELSE "MARKET_CONTEXT"

IndexIn(order, level) ==
  LET named == IF level = "EXPIRED" THEN "IN_PROGRESS" ELSE level
  IN IF named \in ToSet(order) THEN CHOOSE i \in DOMAIN order : order[i] = named ELSE 1

EstimateHours(type, from, to) ==
  LET order == OrderOf(type)
      steps == IndexIn(order, from) .. IndexIn(order, to) - 1
  IN MapThenSumSet(LAMBDA i : StepHours(type)[i], steps)

Item(r, l, current, t) ==
  LET match == Match(current[r.competency], RequiredScore(r))
      kind  == RecommendationType(r, match)
  IN [competency |-> r.competency, match |-> match, weight |-> Weight(r, t), kind |-> kind,
      hours |-> IF kind = "ACTIONABLE_GAP"
                  THEN EstimateHours(r.type, l[r.competency], r.level) ELSE 0]

ByWeight(gaps) == Descending(gaps, [i \in DOMAIN gaps |-> gaps[i].weight])

(* Seeded fault: what already matches counts no more.                      *)
FitScoreOfOpen(items) ==
  LET counted == {i \in DOMAIN items : items[i].kind # "EXCLUDED_AS_IRRELEVANT"
                                      /\ items[i].match < 1000}
      total   == MapThenSumSet(LAMBDA i : items[i].weight, counted)
      sum     == MapThenSumSet(LAMBDA i : items[i].match * items[i].weight, counted)
  IN IF total = 0 THEN 1000 ELSE (2 * sum + total) \div (2 * total)

FitScore(items) ==
  LET counted == {i \in DOMAIN items : items[i].kind # "EXCLUDED_AS_IRRELEVANT"}
      total   == MapThenSumSet(LAMBDA i : items[i].weight, counted)
      sum     == MapThenSumSet(LAMBDA i : items[i].match * items[i].weight, counted)
  IN IF total = 0 THEN 0 ELSE (2 * sum + total) \div (2 * total)

-----------------------------------------------------------------------------
(* The roadmap: the gaps in an order that respects what builds on what.    *)

BuildsOn(c) == CASE c = "Kubernetes" -> {"Docker", "Linux"}
                 [] c = "Terraform"  -> {"AWS", "Azure"}
                 [] c = "Docker"     -> {"Linux"}
                 [] OTHER            -> {}

Names(gaps) == {gaps[i].competency : i \in DOMAIN gaps}

DependsOn(c, gaps) == BuildsOn(c) \cap Names(gaps)

(* One round of the loop of buildRoadmap: the head of the queue is placed, *)
(* and what waited only for it joins the queue.                            *)
PlaceNext(s, gaps) ==
  IF s.queue = <<>> THEN s
  ELSE LET cur  == Head(s.queue)
           left == [c \in Names(gaps) |->
                      s.incoming[c] - (IF cur.competency \in DependsOn(c, gaps) THEN 1 ELSE 0)]
           free == Picked(gaps, {i \in DOMAIN gaps :
                                   /\ cur.competency \in DependsOn(gaps[i].competency, gaps)
                                   /\ left[gaps[i].competency] = 0})
       IN [queue |-> Tail(s.queue) \o free, incoming |-> left, ordered |-> Append(s.ordered, cur)]

(* Seeded fault: the gaps are listed by weight alone.                      *)
RoadmapByWeight(gaps) ==
  LET ordered == ByWeight(gaps)
  IN [i \in DOMAIN ordered |->
        [competency |-> ordered[i].competency, hours |-> ordered[i].hours,
         dependsOn |-> DependsOn(ordered[i].competency, gaps)]]

Begun(gaps) ==
  LET incoming == [c \in Names(gaps) |-> Cardinality(DependsOn(c, gaps))]
  IN [queue |-> ByWeight(Picked(gaps, {i \in DOMAIN gaps : incoming[gaps[i].competency] = 0})),
      incoming |-> incoming, ordered |-> <<>>]

Placed(gaps) ==
  LET after[n \in 0 .. Len(gaps)] == IF n = 0 THEN Begun(gaps) ELSE PlaceNext(after[n - 1], gaps)
  IN after[Len(gaps)].ordered

BuildRoadmap(gaps) ==
  LET ordered == Placed(gaps)
      cyclic  == Len(ordered) # Len(gaps)
      final   == IF cyclic THEN ByWeight(gaps) ELSE ordered
  IN [i \in DOMAIN final |->
        [competency |-> final[i].competency, hours |-> final[i].hours,
         dependsOn |-> IF cyclic THEN {} ELSE DependsOn(final[i].competency, gaps)]]

Hours(steps) == MapThenSumSet(LAMBDA i : steps[i].hours, DOMAIN steps)

StepOf(steps, c) == steps[CHOOSE i \in DOMAIN steps : steps[i].competency = c]

(* Seeded fault: what a dependency itself depends on is forgotten.         *)
OneDeepPathHours(steps) ==
  Max({0} \cup {steps[i].hours + Max({0} \cup {StepOf(steps, d).hours : d \in steps[i].dependsOn}) :
                  i \in DOMAIN steps})

CriticalPathHours(steps) ==
  LET names == {steps[i].competency : i \in DOMAIN steps}
      dfs[c \in names] ==
        StepOf(steps, c).hours
          + Max({0} \cup {dfs[d] : d \in StepOf(steps, c).dependsOn \cap names})
  IN Max({0} \cup {dfs[c] : c \in names})

WeeklyHours == 8

Months(hours) == (200 * hours + 43 * WeeklyHours) \div (2 * 43 * WeeklyHours)

ComputeAnalysis(order, edges, l, t) ==
  LET current == CurrentScore(edges, l)
      items   == [i \in DOMAIN order |-> Item(Requirement(order[i]), l, current, t)]
      gaps    == Picked(items, {i \in DOMAIN items : items[i].kind = "ACTIONABLE_GAP"})
      steps   == BuildRoadmap(gaps)
      path    == CriticalPathHours(steps)
  IN [of |-> l, tuning |-> t, fit |-> FitScore(items), steps |-> steps,
      realistic |-> Hours(steps), optimistic |-> (Hours(steps) * OptimisticPercent(t)) \div 10,
      path |-> path, months |-> Months(path)]

Confidence(n) == CASE n < 40 -> "CRITICAL" [] n >= 40 /\ n < 100 -> "LOW" [] OTHER -> "HIGH"

-----------------------------------------------------------------------------
ScoringInit ==
  /\ levels = [c \in Competency |-> "NONE"]
  /\ tuning = "STANDARD"
  /\ vacancies = NoSnapshot
  /\ task = NoTask
  /\ result = NoResult

(* Bound: the profile is saved again only after an analysis has read it.   *)
WasRead == levels = (IF task # NoTask THEN task.levels
                     ELSE IF result # NoResult THEN result.of ELSE levels)

(* ProfileService.update: in one transaction the rows are deleted and      *)
(* created again; one competency differs.                                  *)
SaveCompetencies ==
  /\ WasRead
  /\ \E c \in Competency : \E v \in Choice[c] \ {levels[c]} :
       levels' = [levels EXCEPT ![c] = v]
  /\ UNCHANGED <<tuning, vacancies, task, result>>

(* Bound: it is changed only when an analysis is about to read it.         *)
SetActiveProfile ==
  /\ task.at = "compute"
  /\ \E t \in Tuning \ {tuning} : tuning' = t
  /\ UNCHANGED <<levels, vacancies, task, result>>

LoadProfile ==
  /\ task = NoTask
  /\ task' = [at |-> "requirements", levels |-> levels]
  /\ UNCHANGED <<levels, tuning, vacancies, result>>

(* Requirements and transfers come without ORDER BY.  A country without a  *)
(* snapshot gets an empty one on the way.                                  *)
LoadInputs ==
  /\ task.at = "requirements"
  /\ \E o \in Orders, e \in Transfers :
       task' = [at |-> "compute", levels |-> task.levels, order |-> o, transfers |-> e]
  /\ vacancies' = IF vacancies = NoSnapshot THEN 0 ELSE vacancies
  /\ UNCHANGED <<levels, tuning, result>>

ComputeAndSave ==
  /\ task.at = "compute"
  /\ result' = Put(ComputeAnalysis(task.order, task.transfers, task.levels, tuning),
                   "confidence", Confidence(vacancies))
  /\ task' = NoTask
  /\ UNCHANGED <<levels, tuning, vacancies>>

ScoringNext ==
  SaveCompetencies \/ SetActiveProfile \/ LoadProfile \/ LoadInputs \/ ComputeAndSave

ScoringSpec == ScoringInit /\ [][ScoringNext]_scoringVars

-----------------------------------------------------------------------------
(* Levels are chosen ones and an analysis works on a profile that existed. *)
ScoringTypeOK ==
  /\ \A c \in Competency : levels[c] \in Choice[c]
  /\ tuning \in Tuning
  /\ vacancies \in {NoSnapshot} \cup Nat
  /\ task # NoTask => \A c \in Competency : task.levels[c] \in Choice[c]
  /\ result # NoResult => /\ result.fit \in 0 .. 1000
                          /\ result.optimistic <= 10 * result.realistic

AtLeast(l, k) ==
  \A c \in Competency : /\ IndexIn(OrderOf(TypeOf(c)), l[c]) >= IndexIn(OrderOf(TypeOf(c)), k[c])
                        /\ LevelScore[l[c]] >= LevelScore[k[c]]

(* A user who raises levels, and none lower, finds in the next analysis no *)
(* new gap, no longer way, and under the same tuning no lower fit, in      *)
(* whatever order the database returned the rows (computeAnalysis).  With  *)
(* equal levels this says that two analyses agree.                         *)
RaisedLevelsHurtNothing ==
  (result # NoResult /\ result' # result /\ AtLeast(result'.of, result.of)) =>
    /\ {s.competency : s \in ToSet(result'.steps)} \subseteq
         {s.competency : s \in ToSet(result.steps)}
    /\ result'.path <= result.path /\ result'.months <= result.months
    /\ result'.tuning = result.tuning => result'.fit >= result.fit

(* The roadmap lists every gap once, after all that it depends on, and     *)
(* each takes some hours: no gap shows a step of nothing although levels   *)
(* and transferred scores are read from different places.                  *)
RoadmapRespectsDependencies ==
  result # NoResult =>
    LET s == result.steps IN
      /\ \A i, j \in DOMAIN s : s[i].competency \in s[j].dependsOn => i < j
      /\ \A i, j \in DOMAIN s : s[i].competency = s[j].competency => i = j
      /\ \A i \in DOMAIN s : s[i].hours > 0

Chains(s) ==
  LET Leads(i, j) == s[i].competency \in s[j].dependsOn
  IN {<<i>> : i \in DOMAIN s} \cup
     {c \in (DOMAIN s) \X (DOMAIN s) : Leads(c[1], c[2])} \cup
     {c \in (DOMAIN s) \X (DOMAIN s) \X (DOMAIN s) : Leads(c[1], c[2]) /\ Leads(c[2], c[3])}

ChainHours(s, chain) == MapThenSumSet(LAMBDA i : s[chain[i]].hours, DOMAIN chain)

(* The months promised to the user come from the longest chain of steps    *)
(* that build on each other: computeCriticalPathHours against all chains.  *)
CriticalPathIsLongestChain ==
  result # NoResult =>
    result.path = Max({0} \cup {ChainHours(result.steps, ch) : ch \in Chains(result.steps)})

=============================================================================
