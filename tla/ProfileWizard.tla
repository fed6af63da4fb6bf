---------------------------- MODULE ProfileWizard ---------------------------
(***************************************************************************)
(* The questionnaire (ProfileWizard.tsx, the same file in both             *)
(* applications) and the rows it is saved to (ProfileService): the         *)
(* preferences and the profile it begins with, the draft of a resume, the  *)
(* choices of the user, and a request that may be lost on its way back.    *)
(* The page for a profile and the page for a new one are one component: a  *)
(* link from one to the other keeps its state.                             *)
(* Next and Back choose the fields on the screen and are left out;         *)
(* handleSubmit checks again what they check.  One amount stands for the   *)
(* three optional ones, the months of the search for the other fields with *)
(* a default.                                                              *)
(***************************************************************************)
EXTENDS ResumeDraft, FiniteSets

CONSTANTS
  ProfileId,
  NewProfile,        \* the route /wizard, without an id
  CitiesOf,          \* suggestedCities of each target country
  DefaultPlaces,     \* [country, city] pairs UserPreference may hold, one of them empty
  WizardScenarios,   \* [of, rows, texts, choices, fails]: the profile the page is opened for, the
                     \*   rows there are, resumes at hand, and bounds on what the user chooses and
                     \*   on requests that fail
  Desired, Homes     \* what desiredRole and currentCountry are chosen from

VARIABLES
  wizardScenario,
  stored,            \* RelocationProfile rows with their UserCompetency rows
  page,              \* [of, loading, prefill, choices]: the route, what is asked for, what was chosen
  form,              \* the fields of the questionnaire
  cv,                \* [stage, review]: the dialog for a resume
  parsing,           \* the texts of RESUME_PROFILE_PARSE jobs under way
  saving             \* [at, to, data, fails]: the request to save

wizardVars == <<wizardScenario, stored, page, form, cv, parsing, saving>>

NoId == "nobody"        \* no profile
OtherCity == "other"      \* OTHER_CITY_VALUE
NoAmount == -1            \* an amount left open, in the form and in the row
NoPage == "left"
NoReview == [role |-> Empty, years |-> 0, home |-> Empty, competencies |-> <<>>]

Competencies == DOMAIN SkillName

FieldOf(type) ==
  CASE type = "LANGUAGE" -> "languageLevel"
    [] type = "CERTIFICATION" -> "certificationStatus"
    [] OTHER -> "hardSkillLevel"

DefaultLevel(type) ==
  CASE type = "LANGUAGE" -> "A2" [] type = "CERTIFICATION" -> "NONE" [] OTHER -> "BASIC"

EmptyForm ==
  [country |-> Empty, city |-> Empty, role |-> Empty, home |-> Empty, years |-> 0,
   amount |-> NoAmount, months |-> 6, selected |-> <<>>]

(* A row that the questionnaire may find: a competency once, with a value  *)
(* of the column it is in.                                                 *)
IsRow(row) ==
  /\ DOMAIN row = {"country", "city", "role", "home", "years", "amount", "months", "competencies"}
  /\ row.country # Empty /\ row.role # Empty /\ row.years \in 0 .. MaxYears
  /\ IsFiniteSet(row.competencies)
  /\ \A c \in row.competencies :
       /\ c.id \in Competencies
       /\ c.field = FieldOf(SkillType[c.id]) => c.value \in LevelsOf(SkillType[c.id])
       /\ \A d \in row.competencies : c.id = d.id => c = d

ASSUME WizardAssumption ==
  \A s \in WizardScenarios :
    /\ s.of = NewProfile \/ s.of \in DOMAIN s.rows
    /\ DOMAIN s.rows \subseteq ProfileId
    /\ \A p \in DOMAIN s.rows : IsRow(s.rows[p])
    /\ \A t \in s.texts : ReadText(t)

(* What the page for a profile makes of its row.  The API takes any level  *)
(* for any competency; one that is not of its type is replaced.            *)
FormOf(row) ==
  LET chosen(c) == [id |-> c.id, type |-> SkillType[c.id],
                    level |-> IF c.field = FieldOf(SkillType[c.id]) THEN c.value
                              ELSE DefaultLevel(SkillType[c.id])]
      kept == SetToSeq(row.competencies)
  IN [country |-> row.country, city |-> row.city, role |-> row.role, home |-> row.home,
      years |-> row.years, amount |-> row.amount,
      months |-> IF row.months = NoAmount THEN 6 ELSE row.months,
      selected |-> [i \in DOMAIN kept |-> chosen(kept[i])]]

(* What handleSubmit sends: a city that is empty or not listed, and an     *)
(* amount left open, are undefined and not in the JSON.                    *)
Payload(f) ==
  [country |-> f.country, city |-> IF f.city = OtherCity THEN Empty ELSE f.city, role |-> f.role,
   home |-> f.home, years |-> f.years, amount |-> f.amount, months |-> f.months,
   competencies |-> [i \in DOMAIN f.selected |->
                       [id |-> f.selected[i].id, field |-> FieldOf(f.selected[i].type),
                        value |-> f.selected[i].level]]]

Idle(n) == [at |-> "idle", to |-> NoId, data |-> Payload(EmptyForm), fails |-> n]

-----------------------------------------------------------------------------
WizardInit ==
  /\ wizardScenario \in WizardScenarios
  /\ stored = wizardScenario.rows
  /\ page = [of      |-> wizardScenario.of,
             loading |-> IF wizardScenario.of = NewProfile THEN NoId ELSE wizardScenario.of,
             prefill |-> IF wizardScenario.of = NewProfile THEN "asked" ELSE "idle",
             choices |-> 0]
  /\ form = EmptyForm
  /\ cv = [stage |-> "closed", review |-> NoReview]
  /\ parsing = <<>>
  /\ saving = Idle(0)

(* The link to /wizard in the header of the page for a profile: requests   *)
(* under way stay under way, and what they return is taken for the form.   *)
OpenNewProfile ==
  /\ page.of \in ProfileId /\ cv.stage = "closed"
  /\ page' = [page EXCEPT !.of = NewProfile, !.prefill = "asked"]
  /\ UNCHANGED <<wizardScenario, stored, form, cv, parsing, saving>>

ReceiveProfile ==
  /\ page.of # NoPage /\ page.loading # NoId
  /\ form' = FormOf(stored[page.loading])
  /\ page' = [page EXCEPT !.loading = NoId]
  /\ UNCHANGED <<wizardScenario, stored, cv, parsing, saving>>

(* The form stays as it is, and may be filled in and saved.                *)
FailToLoad ==
  /\ page.of # NoPage /\ page.loading # NoId
  /\ saving.fails < wizardScenario.fails
  /\ saving' = [saving EXCEPT !.fails = @ + 1]
  /\ page' = [page EXCEPT !.loading = NoId]
  /\ UNCHANGED <<wizardScenario, stored, form, cv, parsing>>

(* The defaults fill in what is empty by then, each of the two by itself.  *)
ReceivePreferences ==
  /\ page.of # NoPage /\ page.prefill = "asked"
  /\ \E d \in DefaultPlaces :
       form' = [form EXCEPT !.country = IF @ = Empty THEN d.country ELSE @,
                            !.city    = IF @ = Empty THEN d.city ELSE @]
  /\ page' = [page EXCEPT !.prefill = "done"]
  /\ UNCHANGED <<wizardScenario, stored, cv, parsing, saving>>

-----------------------------------------------------------------------------
(* The user.                                                               *)

Usable == page.of # NoPage /\ page.loading = NoId /\ cv.stage = "closed"

(* Bound on what is chosen.                                                *)
Chooses == page.choices < wizardScenario.choices

Chosen == page' = [page EXCEPT !.choices = @ + 1]

Fill(f) ==
  /\ Usable /\ Chooses /\ Chosen
  /\ form' = f
  /\ UNCHANGED <<wizardScenario, stored, cv, parsing, saving>>

ChooseCountry ==
  \E c \in DOMAIN CitiesOf : Fill([form EXCEPT !.country = c, !.city = Empty])

ChooseCity ==
  /\ form.country # Empty
  /\ \E t \in CitiesOf[form.country] \cup {OtherCity, Empty} : Fill([form EXCEPT !.city = t])

EnterAmount == \E n \in {NoAmount, 0} : Fill([form EXCEPT !.amount = n])

DescribeJob ==
  \E r \in Desired : \E h \in Homes : Fill([form EXCEPT !.role = r, !.home = h])

IsSelected(c) == \E i \in DOMAIN form.selected : form.selected[i].id = c

WithDefault(c) ==
  Append(form.selected, [id |-> c, type |-> SkillType[c], level |-> DefaultLevel(SkillType[c])])

(* The list offers the competencies of role and country and the selected   *)
(* ones, the second dialog all others, with a button disabled once added.  *)
Toggle ==
  \E c \in Competencies :
    Fill([form EXCEPT !.selected = IF IsSelected(c) THEN Picked(@, {i \in DOMAIN @ : @[i].id # c})
                                   ELSE WithDefault(c)])

SetLevel ==
  \E i \in DOMAIN form.selected : \E v \in LevelsOf(form.selected[i].type) :
    Fill([form EXCEPT !.selected[i].level = v])

-----------------------------------------------------------------------------
(* The dialog for a resume.  How it follows its job is in Panel; closed,   *)
(* it does not.                                                            *)

(* A job under way is found again.                                         *)
OpenCvModal ==
  /\ Usable
  /\ cv' = [stage |-> IF parsing = <<>> THEN "upload" ELSE "processing", review |-> NoReview]
  /\ UNCHANGED <<wizardScenario, stored, page, form, parsing, saving>>

CloseCvModal ==
  /\ cv.stage # "closed"
  /\ cv' = [stage |-> "closed", review |-> NoReview]
  /\ UNCHANGED <<wizardScenario, stored, page, form, parsing, saving>>

(* Also the retry of a job that failed.                                    *)
StartCvParseJob ==
  /\ cv.stage \in {"upload", "processing"} /\ parsing = <<>> /\ Chooses /\ Chosen
  /\ \E t \in wizardScenario.texts : parsing' = <<t>>
  /\ cv' = [cv EXCEPT !.stage = "processing"]
  /\ UNCHANGED <<wizardScenario, stored, form, saving>>

(* What the draft does not know is taken from the form.                    *)
Review(d) ==
  [role  |-> IF d.role # Empty THEN d.role ELSE form.role,
   years |-> IF d.years # NoYears THEN d.years ELSE form.years,
   home  |-> IF d.home # Empty THEN d.home ELSE form.home,
   competencies |-> [i \in DOMAIN d.competencies |->
                       [id |-> d.competencies[i].id, type |-> d.competencies[i].type,
                        level |-> d.competencies[i].level, enabled |-> TRUE]]]

CompleteParsing ==
  /\ parsing # <<>>
  /\ \E o \in CatalogOrders :
       cv' = IF cv.stage = "closed" THEN cv
             ELSE [stage |-> "review", review |-> Review(DraftOf(parsing[1], o))]
  /\ parsing' = <<>>
  /\ UNCHANGED <<wizardScenario, stored, page, form, saving>>

FailParsing ==
  /\ parsing # <<>>
  /\ parsing' = <<>>
  /\ UNCHANGED <<wizardScenario, stored, page, form, cv, saving>>

UploadAnother ==
  /\ cv.stage = "review"
  /\ cv' = [stage |-> "upload", review |-> NoReview]
  /\ UNCHANGED <<wizardScenario, stored, page, form, parsing, saving>>

EditReview ==
  /\ cv.stage = "review" /\ Chooses /\ Chosen
  /\ \E i \in DOMAIN cv.review.competencies :
       \/ cv' = [cv EXCEPT !.review.competencies[i].enabled = ~@]
       \/ \E v \in LevelsOf(cv.review.competencies[i].type) :
            cv' = [cv EXCEPT !.review.competencies[i].level = v]
  /\ UNCHANGED <<wizardScenario, stored, form, parsing, saving>>

(* What was selected before is replaced.                                   *)
ApplyCvDraftToQuestionary ==
  /\ cv.stage = "review"
  /\ LET found   == cv.review.competencies
         enabled == Picked(found, {i \in DOMAIN found : found[i].enabled})
     IN form' = [form EXCEPT !.role  = IF cv.review.role # Empty THEN cv.review.role ELSE @,
                             !.years = cv.review.years,
                             !.home  = IF cv.review.home # Empty THEN cv.review.home ELSE @,
                             !.selected = [i \in DOMAIN enabled |->
                                [id |-> enabled[i].id, type |-> enabled[i].type,
                                 level |-> enabled[i].level]]]
  /\ cv' = [stage |-> "closed", review |-> NoReview]
  /\ UNCHANGED <<wizardScenario, stored, page, parsing, saving>>

-----------------------------------------------------------------------------
(* Saving.                                                                 *)

HandleSubmit ==
  /\ Usable /\ saving.at = "idle"
  /\ form.country # Empty /\ form.role # Empty /\ form.home # Empty
  /\ saving' = [saving EXCEPT !.at = "sent", !.to = page.of, !.data = Payload(form)]
  /\ UNCHANGED <<wizardScenario, stored, page, form, cv, parsing>>

(* The unique index on profile and competency.                             *)
Accepted(d) == Cardinality({c.id : c \in ToSet(d.competencies)}) = Len(d.competencies)

RowOf(d) == [d EXCEPT !.competencies = ToSet(@)]

(* Without an id the API makes one, for a request that is repeated too.    *)
CreateProfile ==
  /\ saving.at = "sent" /\ saving.to = NewProfile /\ Accepted(saving.data)
  /\ \E p \in ProfileId \ DOMAIN stored :
       stored' = [q \in DOMAIN stored \cup {p} |-> IF q = p THEN RowOf(saving.data) ELSE stored[q]]
  /\ saving' = [saving EXCEPT !.at = "stored"]
  /\ UNCHANGED <<wizardScenario, page, form, cv, parsing>>

(* What is not in the JSON keeps its value; the competencies are replaced. *)
UpdateProfile ==
  /\ saving.at = "sent" /\ saving.to \in DOMAIN stored /\ Accepted(saving.data)
  /\ LET row == stored[saving.to]
         d   == RowOf(saving.data)
     IN stored' = [stored EXCEPT ![saving.to] =
                     [d EXCEPT !.city   = IF @ = Empty THEN row.city ELSE @,
                               !.amount = IF @ = NoAmount THEN row.amount ELSE @]]
  /\ saving' = [saving EXCEPT !.at = "stored"]
  /\ UNCHANGED <<wizardScenario, page, form, cv, parsing>>

(* The page goes on to the dashboard of the profile.                       *)
AnswerSave ==
  /\ page.of # NoPage /\ saving.at = "stored"
  /\ page' = [page EXCEPT !.of = NoPage]
  /\ saving' = Idle(saving.fails)
  /\ cv' = [stage |-> "closed", review |-> NoReview]
  /\ UNCHANGED <<wizardScenario, stored, form, parsing>>

(* The request fails, or only its answer is lost; the form may be sent     *)
(* again.                                                                  *)
FailSave ==
  /\ page.of # NoPage /\ saving.at \in {"sent", "stored"}
  /\ saving.fails < wizardScenario.fails
  /\ saving' = Idle(saving.fails + 1)
  /\ UNCHANGED <<wizardScenario, stored, page, form, cv, parsing>>

WizardNext ==
  \/ OpenNewProfile \/ ReceiveProfile \/ FailToLoad \/ ReceivePreferences
  \/ ChooseCountry \/ ChooseCity \/ EnterAmount \/ DescribeJob \/ Toggle \/ SetLevel
  \/ OpenCvModal \/ CloseCvModal \/ StartCvParseJob \/ CompleteParsing \/ FailParsing
  \/ UploadAnother \/ EditReview \/ ApplyCvDraftToQuestionary
  \/ HandleSubmit \/ CreateProfile \/ UpdateProfile \/ AnswerSave \/ FailSave

WizardSpec == WizardInit /\ [][WizardNext]_wizardVars

-----------------------------------------------------------------------------
(* The page is where it can be and a row has what it must have.            *)
WizardTypeOK ==
  /\ page.of \in ProfileId \cup {NewProfile, NoPage}
  /\ page.loading \in DOMAIN stored \cup {NoId}
  /\ \A p \in DOMAIN stored : stored[p].country # Empty /\ stored[p].role # Empty
  /\ cv.stage \in {"closed", "upload", "processing", "review"}
  /\ form.years \in 0 .. MaxYears

(* A profile is never refused for its competencies: whatever the draft of  *)
(* a resume mapped to the same competency, and whatever was loaded,        *)
(* replaced or picked by hand, the request names each once, with a level   *)
(* of its type (@@unique of UserCompetency).                               *)
CompetenciesAreStorable ==
  saving.at = "sent" =>
    LET s == saving.data.competencies IN
      /\ \A i, j \in DOMAIN s : s[i].id = s[j].id => i = j
      /\ \A i \in DOMAIN s : /\ s[i].field = FieldOf(SkillType[s[i].id])
                             /\ s[i].value \in LevelsOf(SkillType[s[i].id])

(* "Other / Not listed (use country average)": a profile that is saved     *)
(* with that choice in place of a city has no city (ProfileWizard.tsx).    *)
OtherCityUsesAverage ==
  [][\A p \in DOMAIN stored :
       (stored'[p] # stored[p] /\ form.city = OtherCity /\ saving.data = Payload(form))
         => stored'[p].city = Empty]_<<stored, form, saving>>

=============================================================================
