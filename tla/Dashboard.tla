----------------------------- MODULE Dashboard ------------------------------
(***************************************************************************)
(* The dashboard of a profile (Dashboard.tsx of either application) with   *)
(* the analysis it shows, the summary of it and its exports.  Each request *)
(* is answered when it may, nothing withdraws one whose answer is wanted   *)
(* no more, and a change of the selection or of the language is seen by    *)
(* effects.  How the two panels follow a job is Panel; here a job that is  *)
(* followed may be lost sight of.                                          *)
(***************************************************************************)
EXTENDS Reports

CONSTANT
  Languages         \* preferredReportLanguage, as a user may have stored it

None == 0
Closed == [open |-> FALSE]
NoRequest == [at |-> "none"]

VARIABLES
  dash,             \* the page: see OpenDashboard
  language,         \* UserPreference.preferredReportLanguage
  loading,          \* the requests of the first effect, one after the other
  opening,          \* results asked for: an analysis, or None for the latest one
  fetches,          \* requests for a summary, in the order they were made
  starting,         \* generateAiSummary, up to its job
  exporting         \* exportReport under way: the file that was rendered

dashVars == <<dash, language, loading, opening, fetches, starting, exporting>>

DashInit ==
  /\ ReportInit
  /\ dash = Closed
  /\ language \in Languages
  /\ loading = NoRequest /\ starting = NoRequest /\ exporting = Refused
  /\ opening = {}
  /\ fetches = <<>>

-----------------------------------------------------------------------------
(* The page opens, and is left with everything it waits for.  told is the  *)
(* last analysis whose job it has seen end.                                *)
OpenDashboard ==
  /\ dash = Closed
  /\ dash' = [open |-> TRUE, selected |-> None, lang |-> "en", summary |-> NoSummary,
              features |-> {}, follows |-> None, told |-> analyses]
  /\ loading' = [at |-> "results", answered |-> FALSE]
  /\ UNCHANGED <<language, opening, fetches, starting, exporting, reportVars>>

CloseDashboard ==
  /\ dash.open
  /\ dash' = Closed
  /\ loading' = NoRequest /\ starting' = NoRequest /\ exporting' = Refused
  /\ opening' = {}
  /\ fetches' = <<>>
  /\ UNCHANGED <<language, reportVars>>

-----------------------------------------------------------------------------
(* Effects.  One resets the summary when the selection or the language     *)
(* changes; the other asks for the summary when the selection changes.     *)

Reset(d) == [d EXCEPT !.summary = NoSummary]

Fetch(a, from) == [of |-> a, from |-> from]

(* setResult and setSelectedAnalysisId; the panel of the report job begins *)
(* anew with another selection.                                            *)
SelectIn(d, a) ==
  IF a = d.selected THEN dash' = d /\ UNCHANGED fetches
  ELSE /\ Len(fetches) < reportScenario.requests
       /\ dash' = [Reset(d) EXCEPT !.selected = a, !.follows = None]
       /\ fetches' = Append(fetches, Fetch(a, "selection"))

Select(a) == SelectIn(dash, a)

PreferLanguage(lang) ==
  dash' = IF lang = dash.lang THEN dash ELSE [Reset(dash) EXCEPT !.lang = lang]

-----------------------------------------------------------------------------
(* The first effect: the latest result, (history and matches, left out,)   *)
(* the plan, the preferences.                                              *)

(* The server answers, or the request fails.                               *)
ReadLoading ==
  /\ loading # NoRequest /\ ~loading.answered
  /\ \E ok \in BOOLEAN :
       /\ ok \/ reportScenario.faults
       /\ loading' = [at |-> loading.at, answered |-> TRUE, ok |-> ok, read |->
            CASE loading.at = "results" -> analyses
              [] loading.at = "billing" -> Features[plan]
              [] OTHER                  -> IF language = "ru" THEN "ru" ELSE "en"]
  /\ UNCHANGED <<dash, language, opening, fetches, starting, exporting, reportVars>>

Arrived(at) == loading # NoRequest /\ loading.at = at /\ loading.answered

AskNext(at) == loading' = [at |-> at, answered |-> FALSE]

ReceiveResults ==
  /\ Arrived("results")
  /\ IF loading.ok /\ loading.read # None THEN Select(loading.read) ELSE UNCHANGED <<dash, fetches>>
  /\ AskNext("billing")
  /\ UNCHANGED <<language, opening, starting, exporting, reportVars>>

ReceiveBilling ==
  /\ Arrived("billing")
  /\ dash' = [dash EXCEPT !.features = IF loading.ok THEN loading.read ELSE {}]
  /\ AskNext("preferences")
  /\ UNCHANGED <<language, opening, fetches, starting, exporting, reportVars>>

ReceivePreferences ==
  /\ Arrived("preferences")
  /\ IF loading.ok THEN PreferLanguage(loading.read) ELSE UNCHANGED dash
  /\ loading' = NoRequest
  /\ UNCHANGED <<language, opening, fetches, starting, exporting, reportVars>>

-----------------------------------------------------------------------------
(* Other results.  Nothing marks an answer as old that was overtaken by    *)
(* the end of an analysis or by another click (of which one at a time is   *)
(* modelled).                                                              *)

OpenHistoricalResult ==
  /\ dash.open /\ opening \subseteq {None}
  /\ \E a \in 1 .. analyses : opening' = opening \cup {a}
  /\ UNCHANGED <<dash, language, loading, fetches, starting, exporting, reportVars>>

(* The answer; for the latest result, as it then is.                       *)
ReceiveResult ==
  /\ \E a \in opening :
       /\ opening' = opening \ {a}
       /\ \/ Select(IF a = None THEN analyses ELSE a)
          \/ reportScenario.faults /\ UNCHANGED <<dash, fetches>>
  /\ UNCHANGED <<language, loading, starting, exporting, reportVars>>

(* onCompleted of the panel of the analysis job.                           *)
ReceiveAnalysis ==
  /\ dash.open /\ dash.told < analyses
  /\ LET a == dash.told + 1
     IN SelectIn([dash EXCEPT !.told = a], a)
  /\ opening' = opening \cup {None}
  /\ UNCHANGED <<language, loading, starting, exporting, reportVars>>

-----------------------------------------------------------------------------
(* The summary: asked for by the effect, and when a followed job ends.     *)

(* Read where the server reads it: nothing for a plan without summaries.   *)
(* The effect then shows nothing; the end of a job leaves what is shown if *)
(* its request fails.                                                      *)
ReadSummary(i) ==
  LET f == fetches[i]
  IN /\ f.from # "server"
     /\ \E ok \in {TRUE} \cup {~reportScenario.faults} :
          fetches' =
            IF ok /\ CanUse("AI_DETAILED_REPORT")
            THEN [fetches EXCEPT ![i] = [from |-> "server", read |-> summaries[f.of]]]
            ELSE IF f.from = "selection" THEN [fetches EXCEPT ![i] = [from |-> "server", read |-> NoSummary]]
            ELSE RemoveAt(fetches, i)
     /\ UNCHANGED <<dash, language, loading, opening, starting, exporting, reportVars>>

ReceiveSummary(i) ==
  /\ fetches[i].from = "server"
  /\ dash' = [dash EXCEPT !.summary = fetches[i].read]
  /\ fetches' = RemoveAt(fetches, i)
  /\ UNCHANGED <<language, loading, opening, starting, exporting, reportVars>>

-----------------------------------------------------------------------------
(* Generating it.                                                          *)

ClickGenerate ==
  /\ dash.open /\ dash.selected # None
  /\ dash.follows = None /\ starting = NoRequest
  /\ "AI_DETAILED_REPORT" \in dash.features
  /\ starting' = [at |-> "asked", of |-> dash.selected]
  /\ UNCHANGED <<dash, language, loading, opening, fetches, exporting, reportVars>>

(* The server looks at the plan for itself; the page follows the job it is *)
(* given, whatever is selected by then.                                    *)
PostGenerate(g) ==
  /\ starting # NoRequest /\ generating[g] = NoJob
  /\ IF CanUse("AI_DETAILED_REPORT")
     THEN generating' = Begun(g, starting.of) /\ dash' = [dash EXCEPT !.follows = g]
     ELSE UNCHANGED <<generating, dash>>
  /\ starting' = NoRequest
  /\ UNCHANGED <<language, loading, opening, fetches, exporting,
                 reportScenario, policy, plan, analyses, summaries>>

(* loadActiveReportJob.                                                    *)
RestoreReportJob(g) ==
  /\ dash.open /\ dash.follows = None /\ Running(g) /\ generating[g].of = dash.selected
  /\ dash' = [dash EXCEPT !.follows = g]
  /\ UNCHANGED <<language, loading, opening, fetches, starting, exporting, reportVars>>

ReportJobEnds(g) ==
  /\ dash.open /\ dash.follows = g /\ ~Running(g)
  /\ dash' = [dash EXCEPT !.follows = None]
  /\ IF generating[g].at = "done"
     THEN Len(fetches) < reportScenario.requests /\ fetches' = Append(fetches, Fetch(generating[g].of, "job"))
     ELSE UNCHANGED fetches
  /\ UNCHANGED <<language, loading, opening, starting, exporting, reportVars>>

-----------------------------------------------------------------------------
(* Exporting.                                                              *)

(* exportReport, from either tab (the user may be on either at any time),  *)
(* up to the rendered file ...                                             *)
ClickExport(format, variant) ==
  /\ dash.open /\ dash.selected # None /\ exporting = Refused
  /\ Required(format, variant) \subseteq dash.features
  /\ variant = "ai-summary" => dash.summary # NoSummary /\ dash.follows = None /\ starting = NoRequest
  /\ exporting' = Exported(dash.selected, format, variant)
  /\ UNCHANGED <<dash, language, loading, opening, fetches, starting, reportVars>>

(* ... which is saved.  Nothing that happens meanwhile changes the file;   *)
(* DashNext lets nothing happen meanwhile.                                 *)
SaveExport ==
  /\ exporting # Refused
  /\ exporting' = Refused
  /\ UNCHANGED <<dash, language, loading, opening, fetches, starting, reportVars>>

-----------------------------------------------------------------------------
DashStep ==
  \/ OpenDashboard \/ CloseDashboard
  \/ ReadLoading \/ ReceiveResults \/ ReceiveBilling \/ ReceivePreferences
  \/ OpenHistoricalResult \/ ReceiveResult \/ ReceiveAnalysis
  \/ \E i \in DOMAIN fetches : ReadSummary(i) \/ ReceiveSummary(i)
  \/ ClickGenerate
  \/ \E g \in Generation : PostGenerate(g) \/ RestoreReportJob(g) \/ ReportJobEnds(g)
  \/ \E format \in {"html", "pdf"}, variant \in {"snapshot", "ai-summary"} : ClickExport(format, variant)

DashNext ==
  \/ SaveExport
  \/ exporting = Refused /\ DashStep
  \/ exporting = Refused /\ ReportNext /\ UNCHANGED dashVars

DashSpec == DashInit /\ [][DashNext]_<<dashVars, reportVars>>

-----------------------------------------------------------------------------
DashTypeOK ==
  /\ ReportTypeOK
  /\ dash.open => dash.selected <= analyses /\ dash.told <= analyses
  /\ ~dash.open => fetches = <<>> /\ opening = {} /\ loading = NoRequest

(* Whatever jobs overlap, however providers fail and plans and routing     *)
(* change meanwhile, an export of the variant "ai-summary" holds a summary *)
(* of the very analysis it is an export of, and that summary says truly    *)
(* who wrote it and who was asked before.                                  *)
ExportedSummaryIsGenuine ==
  exporting.variant = "ai-summary" => Genuine(exporting.of, exporting.summary)

(* The page says of a summary it does not have that it "is unavailable     *)
(* right now" (Dashboard.tsx:772): where none is being generated, once all *)
(* requests are answered, it has the one stored for the analysis it shows. *)
StoredSummaryIsShown ==
  dash.open /\ "AI_DETAILED_REPORT" \in dash.features /\ reportScenario.plans = {"PREMIUM"} /\
  ~reportScenario.faults /\ loading = NoRequest /\ opening = {} /\ fetches = <<>> /\
  dash.selected # None /\ (\A g \in Generation : generating[g] = NoJob)
    => (summaries[dash.selected] # NoSummary => dash.summary # NoSummary)

=============================================================================
