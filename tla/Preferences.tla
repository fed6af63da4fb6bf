---------------------------- MODULE Preferences -----------------------------
(***************************************************************************)
(* The preferences of one account (PreferencesService), the header that    *)
(* keeps the theme in step with them (Layout.tsx of either application),   *)
(* and the form that edits them (Settings.tsx).  A browser has one tab.    *)
(* Of the preferences the model has the theme, which header and form both  *)
(* write, and the default country and city, which are checked together;    *)
(* language, currency, hours and report language are written by the form   *)
(* as the theme is.                                                        *)
(***************************************************************************)
EXTENDS Naturals

CONSTANTS
  Browser,             \* the browsers the account is used from
  Sending,             \* the requests that may be under way at once
  TargetCountry,       \* TARGET_COUNTRY_CODES
  TargetCity,          \* what is typed into the field of the city
  PreferenceScenarios  \* what browsers hold at first, and how much happens

Theme == {"light", "dark"}
Unset == "unset"       \* null in a column, nothing in local storage
Absent == "absent"     \* a key that a PATCH does not have
SignedOut == "signed out"
Quiet == "quiet"       \* waits for no answer

ASSUME PreferencesAssumption ==
  /\ Unset \notin Browser /\ {SignedOut, Quiet} \cap Sending = {}
  /\ {Unset, Absent, ""} \cap (TargetCountry \cup TargetCity) = {}
  /\ \A s \in PreferenceScenarios :
       /\ s.scheme \in [Browser -> Theme \cup {Unset}]
       /\ {s.signIns, s.toggles, s.forms, s.edits, s.failures} \subseteq Nat

Preference == [theme : Theme, country : TargetCountry \cup {Unset},
               city : TargetCity \cup {Unset}]
Patch == [theme : Theme \cup {Absent},
          country : TargetCountry \cup {Unset, Absent},
          city : TargetCity \cup {Unset, Absent}]
Draft == [theme : Theme, country : TargetCountry \cup {""}, city : TargetCity \cup {""}]

VARIABLES
  stored,              \* the UserPreference row
  scheme,              \* the theme in a browser's local storage
  header,              \* what the header of a browser waits for, if signed in
  form,                \* the settings page of a browser
  sending,             \* a request: what it asks and where it stands
  budget,              \* how often what costs states may still happen
  chosen,              \* history: the theme last chosen in a browser, or Unset
  saving,              \* history: the save that is the last choice, or Quiet
  lastOpened           \* history: the browser opened after everything else

preferenceVars == <<stored, scheme, header, form, sending, budget, chosen, saving,
                    lastOpened>>

NoPatch == [theme |-> Absent, country |-> Absent, city |-> Absent]
NoRow == [theme |-> Unset, country |-> Unset, city |-> Unset]
Defaults == [theme |-> "light", country |-> Unset, city |-> Unset]
EmptyDraft == [theme |-> "light", country |-> "", city |-> ""]
NoForm == [open |-> FALSE, waits |-> Quiet, draft |-> EmptyDraft]
NotSent == [at |-> "free"]

(* What useComputedColorScheme shows: light is the default.                *)
Screen(b) == IF scheme[b] = Unset THEN "light" ELSE scheme[b]

PreferencesInit ==
  /\ stored = NoRow
  /\ \E s \in PreferenceScenarios :
       /\ scheme = s.scheme
       /\ budget = [signIns |-> s.signIns, toggles |-> s.toggles, forms |-> s.forms,
                    edits |-> s.edits, failures |-> s.failures]
  /\ header = [b \in Browser |-> SignedOut]
  /\ form = [b \in Browser |-> NoForm]
  /\ sending = [r \in Sending |-> NotSent]
  /\ chosen = [b \in Browser |-> Unset]
  /\ saving = [b \in Browser |-> Quiet]
  /\ lastOpened = Unset

Spend(what) ==
  /\ budget[what] > 0
  /\ budget' = [budget EXCEPT ![what] = @ - 1]

Sent(b, asker, patch) ==
  [at |-> "sent", from |-> b, asker |-> asker, patch |-> patch, answer |-> Defaults]
Send(r, b, asker, patch) ==
  /\ sending[r] = NotSent
  /\ sending' = [sending EXCEPT ![r] = Sent(b, asker, patch)]

-----------------------------------------------------------------------------
(* The header (Layout.tsx).                                                *)

(* The application is loaded by a user who is signed in, or the user signs *)
(* in: the effect asks for the preferences.  Loading forgets what the tab  *)
(* has asked for; the browser is the last to open if nobody has asked for  *)
(* anything that is still under way.                                       *)
OpenTab(b) ==
  /\ Spend("signIns")
  /\ \E r \in Sending, loads \in BOOLEAN :
       /\ header[b] # SignedOut => loads
       /\ sending[r] = NotSent
       /\ sending' = [q \in Sending |->
            IF q = r THEN Sent(b, "header", NoPatch)
            ELSE IF loads /\ sending[q] # NotSent /\ sending[q].from = b
                 THEN [sending[q] EXCEPT !.asker = "nobody"]
                 ELSE sending[q]]
       /\ header' = [header EXCEPT ![b] = r]
  /\ form' = [form EXCEPT ![b] = NoForm]
  /\ lastOpened' = IF \A r \in Sending : sending[r] = NotSent THEN b ELSE Unset
  /\ UNCHANGED <<stored, scheme, chosen, saving>>

SignOut(b) ==
  /\ header[b] # SignedOut
  /\ header' = [header EXCEPT ![b] = SignedOut]
  /\ form' = [form EXCEPT ![b] = NoForm]
  /\ UNCHANGED <<stored, scheme, sending, budget, chosen, saving, lastOpened>>

(* Seeded fault: the server's theme outweighs what the browser has.        *)
ServerOutweighs(r) ==
  LET b == sending[r].from
  IN /\ sending[r].at = "answered" /\ sending[r].asker = "header" /\ header[b] = r
     /\ header' = [header EXCEPT ![b] = Quiet]
     /\ scheme' = [scheme EXCEPT ![b] = sending[r].answer.theme]
     /\ sending' = [sending EXCEPT ![r] = NotSent]
     /\ UNCHANGED <<stored, form, budget, chosen, saving, lastOpened>>

(* Local storage is read when the answer has come, and outweighs it.       *)
HeaderAnswered(r) ==
  LET b == sending[r].from
      theme == sending[r].answer.theme
  IN /\ sending[r].at = "answered" /\ sending[r].asker = "header" /\ header[b] = r
     /\ header' = [header EXCEPT ![b] = Quiet]
     /\ scheme' = [scheme EXCEPT ![b] = IF @ = Unset THEN theme ELSE @]
     /\ sending' = [sending EXCEPT ![r] =
          IF scheme[b] \in {Unset, theme} THEN NotSent
          ELSE Sent(b, "nobody", [NoPatch EXCEPT !.theme = scheme[b]])]
     /\ UNCHANGED <<stored, form, budget, chosen, saving, lastOpened>>

(* The saves of a browser whose answer will set its theme.                 *)
Saves(b) ==
  {r \in Sending : /\ sending[r] # NotSent /\ sending[r].from = b
                   /\ sending[r].asker = "form" /\ sending[r].patch # NoPatch
                   /\ sending[r].at # "refused"}

(* handleThemeToggle: the theme is chosen at once, and what comes of the   *)
(* request is ignored.  A choice made while a save is under way is taken   *)
(* back by its answer, so that the history claims nothing of it.           *)
Toggle(b) ==
  LET next == IF Screen(b) = "dark" THEN "light" ELSE "dark"
  IN /\ Spend("toggles")
     /\ scheme' = [scheme EXCEPT ![b] = next]
     /\ chosen' = [chosen EXCEPT ![b] = IF Saves(b) = {} THEN next ELSE Unset]
     /\ saving' = [saving EXCEPT ![b] = Quiet]
     /\ IF header[b] = SignedOut THEN UNCHANGED sending
        ELSE \E r \in Sending : Send(r, b, "nobody", [NoPatch EXCEPT !.theme = next])
     /\ lastOpened' = Unset
     /\ UNCHANGED <<stored, header, form>>

-----------------------------------------------------------------------------
(* The settings page (Settings.tsx).                                       *)

OpenForm(b) ==
  /\ header[b] # SignedOut /\ ~form[b].open
  /\ Spend("forms")
  /\ \E r \in Sending :
       /\ Send(r, b, "form", NoPatch)
       /\ form' = [form EXCEPT ![b] = [open |-> TRUE, waits |-> r, draft |-> EmptyDraft]]
  /\ UNCHANGED <<stored, scheme, header, chosen, saving, lastOpened>>

CloseForm(b) ==
  /\ form[b].open
  /\ form' = [form EXCEPT ![b] = NoForm]
  /\ UNCHANGED <<stored, scheme, header, sending, budget, chosen, saving, lastOpened>>

(* toDraft.                                                                *)
ToDraft(p) ==
  LET Field(x) == IF x = Unset THEN "" ELSE x
  IN [theme |-> p.theme, country |-> Field(p.country), city |-> Field(p.city)]

(* loadPreferences: without an answer the form is empty, and may be saved. *)
FormLoaded(r) ==
  LET b == sending[r].from
  IN /\ sending[r].at \in {"answered", "refused"} /\ sending[r].asker = "form"
     /\ sending[r].patch = NoPatch /\ form[b].waits = r
     /\ form' = [form EXCEPT ![b].waits = Quiet, ![b].draft =
          IF sending[r].at = "answered" THEN ToDraft(sending[r].answer) ELSE EmptyDraft]
     /\ sending' = [sending EXCEPT ![r] = NotSent]
     /\ UNCHANGED <<stored, scheme, header, budget, chosen, saving, lastOpened>>

Edit(b) ==
  /\ form[b].open /\ form[b].waits = Quiet
  /\ Spend("edits")
  /\ \E t \in Theme, c \in TargetCountry \cup {""}, y \in TargetCity \cup {""} :
       form' = [form EXCEPT ![b].draft = [theme |-> t, country |-> c, city |-> y]]
  /\ UNCHANGED <<stored, scheme, header, sending, chosen, saving, lastOpened>>

(* The payload of handleSavePreferences has every key.                     *)
Payload(d) ==
  LET Column(x) == IF x = "" THEN Unset ELSE x
  IN [theme |-> d.theme, country |-> Column(d.country), city |-> Column(d.city)]

(* What the user asks for is chosen here, if it will be saved.             *)
Save(b) ==
  /\ form[b].open /\ form[b].waits = Quiet
  /\ Spend("forms")
  /\ \E r \in Sending :
       /\ Send(r, b, "form", Payload(form[b].draft))
       /\ form' = [form EXCEPT ![b].waits = r]
       /\ saving' = [saving EXCEPT ![b] = IF Saves(b) = {} THEN r ELSE Quiet]
  /\ chosen' = IF Saves(b) = {} THEN chosen ELSE [chosen EXCEPT ![b] = Unset]
  /\ lastOpened' = Unset
  /\ UNCHANGED <<stored, scheme, header>>

(* A save takes effect on the theme although the page was left, and        *)
(* whatever was chosen since; of the history only if nothing was.          *)
Saved(r) ==
  LET b == sending[r].from
      new == sending[r].answer
  IN /\ sending[r].at = "answered" /\ sending[r].asker = "form" /\ sending[r].patch # NoPatch
     /\ form' = IF form[b].waits = r
                THEN [form EXCEPT ![b].waits = Quiet, ![b].draft = ToDraft(new)] ELSE form
     /\ scheme' = [scheme EXCEPT ![b] = new.theme]
     /\ IF saving[b] = r
          THEN /\ chosen' = [chosen EXCEPT ![b] = sending[r].patch.theme]
               /\ saving' = [saving EXCEPT ![b] = Quiet]
          ELSE UNCHANGED <<chosen, saving>>
     /\ sending' = [sending EXCEPT ![r] = NotSent]
     /\ UNCHANGED <<stored, header, budget, lastOpened>>

(* A save that failed leaves the draft.  An answer to a page that was left *)
(* or reloaded, or to one that does not wait for it, does nothing.         *)
Dropped(r) ==
  LET q == sending[r]
      Awaited == \/ q.asker = "header" /\ header[q.from] = r /\ q.at = "answered"
                 \/ q.asker = "form" /\ q.patch = NoPatch /\ form[q.from].waits = r
                 \/ q.asker = "form" /\ q.patch # NoPatch /\ q.at = "answered"
  IN /\ q.at \in {"answered", "refused"} /\ ~Awaited
     /\ sending' = [sending EXCEPT ![r] = NotSent]
     /\ header' = IF header[q.from] = r THEN [header EXCEPT ![q.from] = Quiet] ELSE header
     /\ form' = IF form[q.from].waits = r THEN [form EXCEPT ![q.from].waits = Quiet] ELSE form
     /\ UNCHANGED <<stored, scheme, budget, chosen, saving, lastOpened>>

-----------------------------------------------------------------------------
(* The server (PreferencesService).                                        *)

Written(old, new) == IF new = Absent THEN old ELSE new
Patched(p, patch) ==
  [theme |-> Written(p.theme, patch.theme), country |-> Written(p.country, patch.country),
   city |-> Written(p.city, patch.city)]

(* validateLocationPair, of the row as read and patched.                   *)
MayStore(p) == p.city # Unset => p.country # Unset

(* ensurePreferenceRecord makes the row if there is none; getMyPreferences *)
(* answers with it, updateMyPreferences checks the patch against it.       *)
EnsureRecord(r) ==
  LET current == IF stored = NoRow THEN Defaults ELSE stored
      patch == sending[r].patch
  IN /\ sending[r].at = "sent"
     /\ stored' = current
     /\ sending' = [sending EXCEPT ![r].answer = current, ![r].at =
          IF patch = NoPatch THEN "answered"
          ELSE IF MayStore(Patched(current, patch)) THEN "checked" ELSE "refused"]
     /\ UNCHANGED <<scheme, header, form, budget, chosen, saving, lastOpened>>

(* The update writes the keys of the patch into the row as it is by then.  *)
UpdateRecord(r) ==
  /\ sending[r].at = "checked"
  /\ stored' = Patched(stored, sending[r].patch)
  /\ sending' = [sending EXCEPT ![r].answer = stored', ![r].at = "answered"]
  /\ UNCHANGED <<scheme, header, form, budget, chosen, saving, lastOpened>>

(* A request, a statement or an answer is lost.                            *)
FailRequest(r) ==
  /\ sending[r].at \in {"sent", "checked", "answered"}
  /\ Spend("failures")
  /\ sending' = [sending EXCEPT ![r].at = "refused"]
  /\ lastOpened' = Unset
  /\ UNCHANGED <<stored, scheme, header, form, chosen, saving>>

PreferencesNext ==
  \/ \E b \in Browser :
       OpenTab(b) \/ SignOut(b) \/ Toggle(b) \/ OpenForm(b) \/ CloseForm(b) \/ Edit(b) \/ Save(b)
  \/ \E r \in Sending :
       \/ HeaderAnswered(r) \/ FormLoaded(r) \/ Saved(r) \/ Dropped(r)
       \/ EnsureRecord(r) \/ UpdateRecord(r) \/ FailRequest(r)

PreferencesSpec == PreferencesInit /\ [][PreferencesNext]_preferenceVars

-----------------------------------------------------------------------------
Request == [at : {"sent", "checked", "answered", "refused"}, from : Browser,
            asker : {"header", "form", "nobody"}, patch : Patch, answer : Preference]

PreferencesTypeOK ==
  /\ stored \in Preference \cup {NoRow}
  /\ scheme \in [Browser -> Theme \cup {Unset}]
  /\ header \in [Browser -> Sending \cup {SignedOut, Quiet}]
  /\ form \in [Browser -> [open : BOOLEAN, waits : Sending \cup {Quiet}, draft : Draft]]
  /\ sending \in [Sending -> Request \cup {NotSent}]
  /\ budget \in [{"signIns", "toggles", "forms", "edits", "failures"} -> Nat]
  /\ chosen \in [Browser -> Theme \cup {Unset}]
  /\ saving \in [Browser -> Sending \cup {Quiet}]
  /\ lastOpened \in Browser \cup {Unset}

(* A theme chosen in a browser stays on its screen until the user chooses  *)
(* again there, however late the header's requests are answered (the       *)
(* effect of Layout.tsx): a theme that was toggled while no save of that   *)
(* browser was under way, and that of a save that succeeded with nothing   *)
(* chosen since it was asked for.  A choice made while a save is under way *)
(* does not stay: the save's answer takes it back (handleSavePreferences   *)
(* of Settings.tsx).  And the row has the theme of the screen once the     *)
(* browser was opened with nothing under way, its requests were answered,  *)
(* and nothing was chosen or lost meanwhile.                               *)
ThemesAgree ==
  \A b \in Browser :
    /\ chosen[b] # Unset => Screen(b) = chosen[b]
    /\ (/\ lastOpened = b /\ header[b] = Quiet
        /\ \A r \in Sending : sending[r] = NotSent \/ sending[r].patch = NoPatch)
         => stored.theme = Screen(b)

(* A city is stored only with its country, since the form writes both and  *)
(* the header neither (validateLocationPair).                              *)
CityHasCountry == MayStore(stored)

=============================================================================
