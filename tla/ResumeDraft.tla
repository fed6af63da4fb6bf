----------------------------- MODULE ResumeDraft ----------------------------
(***************************************************************************)
(* What a resume is made into: ResumeProfileDraftService reads the answer  *)
(* of a language model and the text itself, prefers the former, and maps   *)
(* the skills to competencies of the catalog.                              *)
(* Names are normalized ones (letters and digits only), so that several    *)
(* competencies may have one name.                                         *)
(***************************************************************************)
EXTENDS Integers, Sequences, SequencesExt, Lists

CONSTANTS
  CatalogOrders,   \* the orders in which findMany may return the competencies: it names none
  SkillName, SkillType,  \* the name and the type of each competency
  NameContains,        \* pairs <<k, l>> of different names where k contains l
  MaxYears         \* 50 in the code

Empty == ""
NoYears == -1
NoKey == -2      \* the answer has no such key

Hint == {"NONE", "BASIC", "PRACTICAL", "CONFIDENT", "ADVANCED"}

(* The answer of a model, read with its confidences clamped, and what is   *)
(* looked for in the text itself.                                          *)
Skill == [name : STRING, confidence : Nat, hint : Hint]
AiAnswer == [role : STRING, years : Int, home : STRING, skills : Seq(Skill)]
ReadText(t) == t.ai \in Seq(AiAnswer) /\ t.years \in {NoYears} \cup 0 .. MaxYears

ASSUME DraftAssumption ==
  /\ MaxYears \in Nat
  /\ SkillName \in [DOMAIN SkillType -> STRING]
  /\ CatalogOrders \subseteq Seq(DOMAIN SkillType)

LevelsOf(type) ==
  CASE type = "LANGUAGE" -> {"NONE", "A1", "A2", "B1", "B2", "C1", "C2"}
    [] type = "CERTIFICATION" -> {"NONE", "PLANNED", "IN_PROGRESS", "OBTAINED", "EXPIRED"}
    [] OTHER -> Hint

LevelOfHint(type, hint) ==
  CASE type = "LANGUAGE" -> [NONE |-> "NONE", BASIC |-> "A2", PRACTICAL |-> "B1",
                             CONFIDENT |-> "B2", ADVANCED |-> "C1"][hint]
    [] type = "CERTIFICATION" -> [NONE |-> "NONE", BASIC |-> "PLANNED", PRACTICAL |-> "IN_PROGRESS",
                                  CONFIDENT |-> "OBTAINED", ADVANCED |-> "OBTAINED"][hint]
    [] OTHER -> hint

-----------------------------------------------------------------------------
(* The two readings.  Confidences are in percent; those of role, years and *)
(* country are shown and decide nothing.                                   *)

ClampedYears(n) == IF n < 0 THEN 0 ELSE IF n > MaxYears THEN MaxYears ELSE n

(* A number field the model leaves at null is read as Number(""), which is *)
(* zero.                                                                   *)
YearsOfAnswer(raw) ==
  CASE raw = NoKey -> NoYears
    [] raw = NoYears -> 0
    [] OTHER -> ClampedYears(raw)

(* Every competency whose name, of three letters or more, is in the text.  *)
SkillsInText(text, catalog) ==
  LET named == Picked(catalog, {i \in DOMAIN catalog : SkillName[catalog[i]] \in text.mentions})
  IN [i \in DOMAIN named |->
        [name |-> SkillName[named[i]], confidence |-> 74, hint |-> "PRACTICAL"]]

(* Seeded fault: entries that mean the same are kept beside each other.    *)
EveryOne(s, f) == s

(* A Map filled with set() when the key is new or the confidence greater:  *)
(* one entry per key, in the order of the first.                           *)
BestOf(s, f) ==
  LET same(i)  == {j \in DOMAIN s : s[j][f] = s[i][f]}
      best(i)  == CHOOSE j \in same(i) : \A k \in same(i) :
                    s[k].confidence < s[j].confidence
                      \/ (s[k].confidence = s[j].confidence /\ j <= k)
      heads    == {i \in DOMAIN s : \A j \in same(i) : i <= j}
  IN Picked([i \in DOMAIN s |-> s[best(i)]], heads)

-----------------------------------------------------------------------------
(* From skills to competencies.                                            *)

Named(catalog, name) == Picked(catalog, {i \in DOMAIN catalog : SkillName[catalog[i]] = name})

Similar(catalog, name) ==
  Picked(catalog, {i \in DOMAIN catalog :
    \/ <<SkillName[catalog[i]], name>> \in NameContains
    \/ <<name, SkillName[catalog[i]]>> \in NameContains})

(* The first competency of that name; else the first one of which either   *)
(* name contains the other, at 78 percent of the confidence; else none.    *)
Resolved(skill, catalog) ==
  LET map(c, percent) ==
        <<[id |-> c, type |-> SkillType[c], confidence |-> skill.confidence * percent,
           level |-> LevelOfHint(SkillType[c], skill.hint)]>>
  IN IF Named(catalog, skill.name) # <<>> THEN map(Named(catalog, skill.name)[1], 100)
     ELSE IF Similar(catalog, skill.name) # <<>> THEN map(Similar(catalog, skill.name)[1], 78)
     ELSE <<>>

MapSkills(skills, catalog) ==
  BestOf(FlattenSeq([i \in DOMAIN skills |-> Resolved(skills[i], catalog)]), "id")

(* parseToProfileDraft.  text.ai holds no answer, or one: both providers   *)
(* may be missing, fail, or return what is not JSON.                       *)
DraftOf(text, catalog) ==
  LET found  == SkillsInText(text, catalog)
      answer == IF text.ai = <<>> THEN [role |-> Empty, years |-> NoKey, home |-> Empty, skills |-> <<>>]
                ELSE text.ai[1]
      years  == YearsOfAnswer(answer.years)
  IN [role         |-> IF answer.role # Empty THEN answer.role ELSE text.role,
      years        |-> IF years # NoYears THEN years ELSE text.years,
      home         |-> IF answer.home # Empty THEN answer.home ELSE text.home,
      competencies |-> MapSkills(BestOf(answer.skills \o found, "name"), catalog)]

=============================================================================
