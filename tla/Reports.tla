------------------------------ MODULE Reports -------------------------------
(***************************************************************************)
(* Reports on the analyses of one profile: the summaries that a language   *)
(* model writes (apps/api/src/reports/reports.service.ts and apps/api/src/ *)
(* ai/), which plan may have them (billing/entitlement.service.ts), and    *)
(* what an export contains.  Summaries are generated by background jobs,   *)
(* two at once if they are asked for twice, while an administrator changes *)
(* the routing and the plan of the owner changes.  Layout, and the figures *)
(* that a report takes over from the analysis and from the two readiness   *)
(* engines, are left out.                                                  *)
(***************************************************************************)
EXTENDS Integers, Sequences, FiniteSets, SequencesExt

CONSTANT
  ReportScenarios   \* [models, policies, plans, analyses, jobs, requests, faults]: the models
                    \*   of each provider that has a key, the defaults an administrator and
                    \*   the plans an owner changes between; bounds on the analyses, the
                    \*   jobs that generate and the requests for a summary on their way
                    \*   at once; whether requests of the page may fail

(* AI_PROVIDERS.  The chain of a provider names no model twice, and MOCK   *)
(* has one without a key.                                                  *)
AiProvider == {"OPENAI", "OPENROUTER", "MOCK"}

ASSUME ReportAssumption ==
  \A s \in ReportScenarios :
    /\ s.policies \subseteq AiProvider /\ s.analyses \in Nat \ {0}
    /\ \A p \in AiProvider :
         s.models[p] \in Seq(STRING) /\ \A k, l \in DOMAIN s.models[p] :
                                        s.models[p][k] = s.models[p][l] => k = l
    /\ s.models["MOCK"] # <<>>

NoSummary == [of |-> 0]
NoJob == [at |-> "idle", of |-> 0]

VARIABLES
  reportScenario,
  policy,           \* defaults.REASONING of AiRoutingService
  plan,             \* the code of the plan in force
  analyses,         \* how many AnalysisResult rows the profile has, numbered as created
  summaries,        \* analysis -> its AnalysisAiSummary row
  generating        \* the jobs: what generateAndPersistAiSummary has at hand

reportVars == <<reportScenario, policy, plan, analyses, summaries, generating>>

Analysis == 1 .. reportScenario.analyses
Generation == reportScenario.jobs

-----------------------------------------------------------------------------
(* What a plan includes, of the features a report needs.                   *)
Features == [FREE |-> {}, PREMIUM |-> {"AI_DETAILED_REPORT", "PDF_EXPORT"}]

CanUse(feature) == feature \in Features[plan]

(* MOCK is tried last, and alone when it is the default.                   *)
ProviderOrder(primary) ==
  IF primary = "MOCK" THEN <<"MOCK">>
  ELSE <<primary, IF primary = "OPENAI" THEN "OPENROUTER" ELSE "OPENAI", "MOCK">>

(* None of a provider without a key; OpenRouter has up to two, asked one   *)
(* after the other.                                                        *)
Models(provider) == reportScenario.models[provider]

(* The k-th model of the i-th provider.                                    *)
Try(order, i, k) == [by |-> order[i], model |-> Models(order[i])[k]]

(* The first provider from the i-th on that is set up.                     *)
FirstFrom(order, i) ==
  CHOOSE j \in i .. Len(order) :
    Models(order[j]) # <<>> /\ \A h \in i .. j - 1 : Models(order[h]) = <<>>

(* A job that has come to the i-th provider, or to the next after it.      *)
AskFrom(a, order, i, failed) ==
  [at |-> "ask", of |-> a, order |-> order, provider |-> FirstFrom(order, i), chain |-> 1,
   failed |-> failed]

(* The row: whose text it is, and (history) the tries that failed before.  *)
SummaryOf(j) ==
  LET used == Try(j.order, j.provider, j.chain)
  IN [of |-> j.of, by |-> used.by, model |-> used.model, failed |-> j.failed,
      requested |-> j.order[1], attempted |-> SubSeq(j.order, 1, j.provider),
      fallback |-> used.by # j.order[1]]

(* A row that was there before: of the latest analysis, by the first       *)
(* provider that is set up.                                                *)
Earlier == SummaryOf(AskFrom(analyses, ProviderOrder(policy), 1, {}))

ReportInit ==
  /\ reportScenario \in ReportScenarios
  /\ policy \in reportScenario.policies
  /\ plan \in reportScenario.plans
  /\ analyses \in {0, 1}
  /\ summaries \in {[a \in Analysis |-> NoSummary]} \cup
       {[a \in Analysis |-> IF a = analyses THEN Earlier ELSE NoSummary]}
  /\ generating = [g \in Generation |-> NoJob]

-----------------------------------------------------------------------------
(* createReportGenerationJob, once its job is created: the runner begins.  *)
Begun(g, a) == [generating EXCEPT ![g] = [at |-> "begun", of |-> a]]

Running(g) == generating[g].at \notin {"idle", "done", "failed"}

(* By another page of the owner.                                           *)
GenerateElsewhere(g) ==
  /\ generating[g] = NoJob /\ CanUse("AI_DETAILED_REPORT")
  /\ \E a \in 1 .. analyses : generating' = Begun(g, a)
  /\ UNCHANGED <<reportScenario, policy, plan, analyses, summaries>>

(* The analysis is loaded and the snapshot built; the order of providers   *)
(* is settled when the enrichment begins.                                  *)
BuildSnapshot(g) ==
  /\ generating[g].at = "begun"
  /\ generating' = [generating EXCEPT ![g] = AskFrom(@.of, ProviderOrder(policy), 1, {})]
  /\ UNCHANGED <<reportScenario, policy, plan, analyses, summaries>>

Asking(g) == generating[g].at = "ask"

(* summarizeReport of a provider: it answers in time and with all that is  *)
(* required.                                                               *)
AnswerModel(g) ==
  /\ Asking(g)
  /\ generating' = [generating EXCEPT ![g].at = "store"]
  /\ UNCHANGED <<reportScenario, policy, plan, analyses, summaries>>

(* ... or it throws, and the next model of the chain is asked, if any, or  *)
(* the next provider.  MOCK does neither wait nor throw, so that the last  *)
(* resort after the loop is not reached.                                   *)
RefuseModel(g) ==
  LET j == generating[g]
      failed == j.failed \cup {Try(j.order, j.provider, j.chain)}
  IN /\ Asking(g) /\ j.order[j.provider] # "MOCK"
     /\ generating' = [generating EXCEPT ![g] =
          IF j.chain < Len(Models(j.order[j.provider]))
          THEN [j EXCEPT !.chain = @ + 1, !.failed = failed]
          ELSE AskFrom(j.of, j.order, j.provider + 1, failed)]
  /\ UNCHANGED <<reportScenario, policy, plan, analyses, summaries>>

(* The upsert: of two that were generated at once the later one stays.     *)
StoreSummary(g) ==
  /\ generating[g].at = "store"
  /\ summaries' = [summaries EXCEPT ![generating[g].of] = SummaryOf(generating[g])]
  /\ generating' = [generating EXCEPT ![g] = [at |-> "done", of |-> @.of]]
  /\ UNCHANGED <<reportScenario, policy, plan, analyses>>

(* A statement fails, and with it the job; a job may be asked for again.   *)
FailGeneration(g) ==
  /\ generating[g].at \in {"begun", "store"}
  /\ generating' = [generating EXCEPT ![g] = [at |-> "failed", of |-> @.of]]
  /\ UNCHANGED <<reportScenario, policy, plan, analyses, summaries>>

-----------------------------------------------------------------------------
SetDefaultProvider ==
  /\ policy' \in reportScenario.policies \ {policy}
  /\ UNCHANGED <<reportScenario, plan, analyses, summaries, generating>>

ChangePlan ==
  /\ plan' \in reportScenario.plans \ {plan}
  /\ UNCHANGED <<reportScenario, policy, analyses, summaries, generating>>

(* An analysis is stored (Scoring).                                        *)
FinishAnalysis ==
  /\ analyses + 1 \in Analysis
  /\ analyses' = analyses + 1
  /\ UNCHANGED <<reportScenario, policy, plan, summaries, generating>>

GenerationStep(g) ==
  BuildSnapshot(g) \/ AnswerModel(g) \/ RefuseModel(g) \/ StoreSummary(g) \/ FailGeneration(g)

ReportNext ==
  \/ SetDefaultProvider \/ ChangePlan \/ FinishAnalysis
  \/ \E g \in Generation : GenerateElsewhere(g) \/ GenerationStep(g)

-----------------------------------------------------------------------------
(* What an export contains: the snapshot, or for the variant "ai-summary"  *)
(* the stored row, with the figures of the snapshot around it; without a   *)
(* row that variant is refused.                                            *)
Refused == [variant |-> "none"]
SnapshotFile(a) == [variant |-> "snapshot", of |-> a]
SummaryFile(a, row) == [variant |-> "ai-summary", of |-> a, summary |-> row]

(* Seeded fault: the page asks for no summary that is not there.           *)
RenderedAnyway(a, variant) ==
  IF variant = "snapshot" THEN SnapshotFile(a) ELSE SummaryFile(a, summaries[a])

Rendered(a, variant) ==
  IF variant = "snapshot" THEN SnapshotFile(a)
  ELSE IF summaries[a] = NoSummary THEN Refused
  ELSE SummaryFile(a, summaries[a])

Required(format, variant) ==
  (IF format = "pdf" THEN {"PDF_EXPORT"} ELSE {}) \cup
  (IF variant = "ai-summary" THEN {"AI_DETAILED_REPORT"} ELSE {})

(* getHtml and getPdf.                                                     *)
Exported(a, format, variant) ==
  IF \A f \in Required(format, variant) : CanUse(f) THEN Rendered(a, variant) ELSE Refused

-----------------------------------------------------------------------------
ReportTypeOK ==
  /\ analyses \in {0} \cup Analysis
  /\ \A a \in Analysis : summaries[a] # NoSummary => a <= analyses
  /\ \A g \in Generation :
       LET j == generating[g]
       IN Asking(g) => j.provider \in DOMAIN j.order /\ j.chain \in DOMAIN Models(j.order[j.provider])

(* The tries before the k-th model of the i-th provider.                   *)
TriesBefore(order, i, k) ==
  (UNION {{Try(order, h, l) : l \in DOMAIN Models(order[h])} : h \in 1 .. i - 1}) \cup
  {Try(order, i, l) : l \in 1 .. k - 1}

(* A summary is of its analysis, and written by the first provider, in an  *)
(* order an administrator has set, that worked: each before it was asked   *)
(* with all of its models and failed, or has no key, and no other failed.  *)
Genuine(a, row) ==
  LET order == ProviderOrder(row.requested)
  IN /\ row.of = a
     /\ row.requested \in reportScenario.policies
     /\ row.fallback = (row.by # row.requested)
     /\ [by |-> row.by, model |-> row.model] \notin row.failed
     /\ \E i \in DOMAIN order : \E k \in DOMAIN Models(order[i]) :
          /\ [by |-> row.by, model |-> row.model] = Try(order, i, k)
          /\ row.attempted = SubSeq(order, 1, i)
          /\ row.failed = TriesBefore(order, i, k)

=============================================================================
