------------------------------- MODULE MCAuth -------------------------------
(***************************************************************************)
(* Three parts that share no state: `topic` says on which a behaviour      *)
(* works, and the others stay as they begin.                               *)
(*   "auth": Auth with two people at the providers, one whose GitHub       *)
(*     account may hide its address, one who signs in with the same        *)
(*     address at Google.                                                  *)
(*   "reports": a dashboard with two analyses and late answers; with a job *)
(*     besides; with two jobs that generate at once; with routing that     *)
(*     changes; with requests that fail and a plan that changes.           *)
(*   "preferences": two browsers that hold any themes at first.            *)
(***************************************************************************)
EXTENDS Auth, Dashboard, Preferences, TLC

CONSTANT Topics
VARIABLE topic

accountVars == <<topic, vars, reportVars, dashVars, preferenceVars>>

AccountInit ==
  /\ topic \in Topics
  /\ Init /\ DashInit /\ PreferencesInit
  /\ topic # "auth" => events = CHOOSE e \in {s.events : s \in Scenarios} : TRUE
  /\ topic # "reports" => /\ reportScenario = CHOOSE s \in ReportScenarios : Cardinality(s.plans) = 1
                          /\ analyses = 0
  /\ topic # "preferences" =>
       LET s == CHOOSE s \in PreferenceScenarios : s.failures > 0
       IN scheme = s.scheme /\ budget.failures = s.failures

AccountNext ==
  \/ topic = "auth" /\ Next /\ UNCHANGED <<topic, reportVars, dashVars, preferenceVars>>
  \/ topic = "reports" /\ DashNext /\ UNCHANGED <<topic, vars, preferenceVars>>
  \/ topic = "preferences" /\ PreferencesNext /\ UNCHANGED <<topic, vars, reportVars, dashVars>>

AccountSpec == AccountInit /\ [][AccountNext]_accountVars

(* Each part keeps its types.                                              *)
TypesOK == TypeOK /\ DashTypeOK /\ PreferencesTypeOK

-----------------------------------------------------------------------------
MCProfile ==
  {[provider |-> "github", id |-> "a", email |-> "e1", verified |-> TRUE],
   [provider |-> "github", id |-> "a", email |-> Nobody, verified |-> FALSE],
   [provider |-> "google", id |-> "b", email |-> "e1", verified |-> FALSE],
   [provider |-> "google", id |-> "c", email |-> "e1", verified |-> TRUE]}

MCLinkedRow == NewRow("e2", [NoIds EXCEPT !["google"] = "b"], FALSE)
(* Registered, and the API stopped before the mail.                        *)
MCRegisteredRow == NewRow("e2", NoIds, FALSE)

MCScenarios ==
  {[users |-> <<MCRegisteredRow>>, events |-> {"register"}],
   [users |-> <<>>, events |-> {"block", "unblock", "delete"}]} \cup
  {[users |-> <<MCLinkedRow>>, events |-> E] :
    E \in {{"link", "restart"}, {"unlink"}, {"resend"}}}

MCSymmetry == Permutations(Call) \cup Permutations(Sending)

MCModels(openRouter) == [OPENAI |-> <<>>, OPENROUTER |-> openRouter, MOCK |-> <<"mock">>]
MCReport(models, policies, plans, n, jobs, requests, faults) ==
  [models |-> MCModels(models), policies |-> policies, plans |-> plans, analyses |-> n,
   jobs |-> jobs, requests |-> requests, faults |-> faults]
MCReports ==
  {MCReport(<<>>, {"MOCK"}, {"PREMIUM"}, 2, {}, 2, FALSE),
   MCReport(<<>>, {"MOCK"}, {"PREMIUM"}, 2, {1}, 1, FALSE),
   MCReport(<<"m1">>, {"OPENROUTER"}, {"PREMIUM"}, 1, {1, 2}, 1, FALSE),
   MCReport(<<"m1", "m2">>, {"OPENAI", "MOCK"}, {"PREMIUM"}, 1, {1}, 1, FALSE),
   MCReport(<<"m1", "m2">>, {"OPENAI"}, {"FREE", "PREMIUM"}, 1, {1}, 1, TRUE)}
MCStored == {MCReport(<<"m1">>, {"OPENROUTER"}, {"PREMIUM"}, 1, {1}, 1, FALSE)}

MCPreferences(f, signIns, forms, edits, failures) ==
  [scheme |-> f, signIns |-> signIns, toggles |-> 1, forms |-> forms, edits |-> edits,
   failures |-> failures]
MCUnset == [b \in Browser |-> Unset]
(* With four visits and saves of forms, two saves are under way at once.   *)
MCPreferenceScenarios ==
  {MCPreferences([b1 |-> "dark", b2 |-> Unset], 2, 2, 1, 0), MCPreferences(MCUnset, 1, 4, 1, 0),
   MCPreferences(MCUnset, 1, 2, 0, 1)}

=============================================================================
