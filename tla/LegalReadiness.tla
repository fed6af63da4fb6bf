--------------------------- MODULE LegalReadiness ---------------------------
(***************************************************************************)
(* The legal readiness of a saved profile: the rules of                    *)
(* apps/api/src/legal-readiness/legal-rule-registry.ts and what            *)
(* legal-knowledge-engine.service.ts makes of those that fire.  Texts      *)
(* (questions, advice, articles) are left out.                             *)
(***************************************************************************)
EXTENDS Integers, FiniteSets, FiniteSetsExt

CONSTANTS
  EuCountry,        \* EU_COUNTRIES
  NonEuCountry,     \* KNOWN_NON_EU_COUNTRIES
  OtherCountry,     \* codes in neither list
  ItRole, OtherRole \* roles that looksLikeItRole accepts, and others

Country == EuCountry \cup NonEuCountry \cup OtherCountry
Answer == {"yes", "no", "unset"}
Question == {"hasExistingWorkAuthorization", "hasJobOffer", "hasRecognizedDegree",
             "hasFormalEducation", "relocationWithFamily"}

NoLegalReport == [risk |-> "none"]

VARIABLES
  facts,          \* the legal columns of the RelocationProfile row
  legalReport     \* the evaluation answered last, with the facts it is of

legalVars == <<facts, legalReport>>

Region(c) == IF c \in EuCountry THEN "EU"
             ELSE IF c \in NonEuCountry THEN "NON_EU" ELSE "UNKNOWN"

Unknown(f) == "UNKNOWN" \in {Region(f.currentCountry), Region(f.targetCountry)}

ToEuFrom(f, region) == Region(f.currentCountry) = region /\ Region(f.targetCountry) = "EU"

(* The rules whose condition holds.                                        *)
LegalRules(f) ==
  {r \in {"EU_INTERNAL", "NON_EU_TO_EU", "AUTHORIZATION", "NO_JOB_OFFER", "BLUE_CARD",
          "IT_SPECIAL_CASE", "FAMILY", "UNKNOWN_COUNTRY"} :
    CASE r = "EU_INTERNAL"     -> ToEuFrom(f, "EU")
      [] r = "NON_EU_TO_EU"    -> ToEuFrom(f, "NON_EU")
      [] r = "AUTHORIZATION"   -> f.hasExistingWorkAuthorization = "yes"
      [] r = "NO_JOB_OFFER"    -> Region(f.targetCountry) = "EU" /\ f.hasJobOffer = "no"
      [] r = "BLUE_CARD"       -> /\ f.targetCountry = "DE" /\ f.hasJobOffer = "yes"
                                  /\ \/ f.hasRecognizedDegree = "yes"
                                     \/ f.hasFormalEducation = "yes"
      [] r = "IT_SPECIAL_CASE" -> /\ f.targetCountry = "DE" /\ f.desiredRole \in ItRole
                                  /\ f.hasJobOffer = "yes" /\ f.hasRecognizedDegree = "no"
      [] r = "FAMILY"          -> f.relocationWithFamily = "yes"
      [] r = "UNKNOWN_COUNTRY" -> Unknown(f)}

Base(r) == CASE r = "NON_EU_TO_EU" -> 3
             [] r = "FAMILY"       -> 2
             [] OTHER              -> 1

(* Seeded fault: the rule on families replaces the level of the others.    *)
FamilyReplacesBase(rules) ==
  IF "FAMILY" \in rules THEN 1 ELSE Max({1} \cup {Base(r) : r \in rules})

Highest(rules) == Max({1} \cup {Base(r) : r \in rules})

Shift(rules) == Cardinality(rules \cap {"NO_JOB_OFFER"}) - Cardinality(rules \cap {"AUTHORIZATION"})

Score(f, rules) ==
  LET clamped == Max({1, Min({3, Highest(rules) + Shift(rules)})})
  IN IF f.relocationWithFamily = "yes" THEN Max({clamped, 2}) ELSE clamped

OverallRisk(f, rules) ==
  IF "UNKNOWN_COUNTRY" \in rules THEN "UNKNOWN" ELSE <<"LOW", "MODERATE", "HIGH">>[Score(f, rules)]

VisaCheckLikelyRequired(f, rules) ==
  \/ rules \cap {"NON_EU_TO_EU", "UNKNOWN_COUNTRY"} # {}
  \/ "EU_INTERNAL" \notin rules /\ (Unknown(f) \/ ToEuFrom(f, "NON_EU"))

Routes(rules) ==
  rules \cap {"NON_EU_TO_EU", "BLUE_CARD", "IT_SPECIAL_CASE"}

LegalEvaluation(f) ==
  LET rules == LegalRules(f)
  IN [of |-> f, risk |-> OverallRisk(f, rules), visa |-> VisaCheckLikelyRequired(f, rules),
      routes |-> Routes(rules)]

-----------------------------------------------------------------------------
(* A profile as it is created: countries and role are required.            *)
LegalInit ==
  /\ \E from, to \in Country, role \in ItRole \cup OtherRole :
       facts = [q \in Question \cup {"currentCountry", "targetCountry", "desiredRole"} |->
                  CASE q = "currentCountry" -> from
                    [] q = "targetCountry"  -> to
                    [] q = "desiredRole"    -> role
                    [] OTHER                -> "unset"]
  /\ legalReport = NoLegalReport

(* One answer is saved; a question once answered cannot be unanswered,     *)
(* since ProfileService.update drops what is not sent.  Bound: one answer  *)
(* changes between evaluations.                                            *)
SaveFacts ==
  /\ legalReport # NoLegalReport => legalReport.of = facts
  /\ \/ \E q \in Question, v \in {"yes", "no"} : facts' = [facts EXCEPT ![q] = v]
     \/ \E c \in Country : \E q \in {"currentCountry", "targetCountry"} :
          facts' = [facts EXCEPT ![q] = c]
  /\ UNCHANGED legalReport

EvaluateLegal ==
  /\ legalReport' = LegalEvaluation(facts)
  /\ UNCHANGED facts

LegalNext == SaveFacts \/ EvaluateLegal

LegalSpec == LegalInit /\ [][LegalNext]_legalVars

-----------------------------------------------------------------------------
(* A report is of facts that a profile can hold, and has one of the levels. *)
LegalTypeOK ==
  /\ \A q \in Question : facts[q] \in Answer
  /\ {facts.currentCountry, facts.targetCountry} \subseteq Country
  /\ legalReport # NoLegalReport => legalReport.risk \in {"LOW", "MODERATE", "HIGH", "UNKNOWN"}

RiskRank(risk) == [LOW |-> 1, MODERATE |-> 2, HIGH |-> 3, UNKNOWN |-> 4][risk]

(* g answers what makes a move simpler at least as well as f.              *)
Simpler(f, g) ==
  /\ g.currentCountry = f.currentCountry /\ g.targetCountry = f.targetCountry
  /\ f.hasExistingWorkAuthorization = "yes" => g.hasExistingWorkAuthorization = "yes"
  /\ g.hasJobOffer = "no" => f.hasJobOffer = "no"
  /\ g.relocationWithFamily = "yes" => f.relocationWithFamily = "yes"

(* Between the same countries, gaining an authorization or an offer, or    *)
(* leaving without the family, never raises the risk and never demands a   *)
(* visa check that was not demanded, whatever rules fire together and      *)
(* although the score is clamped before the floor for families is set.     *)
SimplerMoveIsNoRiskier ==
  (legalReport # NoLegalReport /\ legalReport' # legalReport
     /\ Simpler(legalReport.of, legalReport'.of)) =>
    /\ RiskRank(legalReport'.risk) <= RiskRank(legalReport.risk)
    /\ legalReport'.visa => legalReport.visa

=============================================================================
