--------------------------- MODULE CheckoutReturn --------------------------
(***************************************************************************)
(* A tab that starts a checkout, leaves for the page of Stripe, and comes  *)
(* back to an address that names the checkout (Plan.tsx; Settings.tsx and  *)
(* Dashboard.tsx have the same effect): it asks for the status a limited   *)
(* number of times, tells the user, reads the plan again and cleans the    *)
(* address.  A link to the page itself cancels the effect, which goes on   *)
(* without being heard.  Payments follow PaymentLifecycle: webhooks settle *)
(* them in live mode, the requests of the page in simulated mode.          *)
(***************************************************************************)
EXTENDS PaymentLifecycle, Integers, FiniteSets

CONSTANTS
  MaxPolls,           \* attempts of pollCheckoutStatus (8)
  ReturnScenarios     \* the mode, and how often what may happen

ASSUME ReturnAssumption ==
  /\ MaxPolls \in Nat \ {0}
  /\ \A s \in ReturnScenarios :
       s.mode \in {"live", "simulated"} /\ s.reloads \in Nat /\ s.failures \in Nat

VARIABLES
  returns,            \* the scenario, with what may still happen
  tab,                \* the state of the page
  effect,             \* each run of the effect on the address, by its number
  summary             \* the two requests of loadSummary

returnVars == <<returns, tab, effect, summary>>
returnAllVars == <<paymentVars, returnVars>>

Runs == 0 .. 1        \* the run of this visit, and of the one it reloaded
Load == {"mount", "effect"}
Bought == CHOOSE p \in Purchase : TRUE

NoRun == [step |-> "idle", left |-> 0, canceled |-> FALSE, status |-> "none", plan |-> "none"]

ReturnInit ==
  /\ PaymentInit
  /\ returns \in ReturnScenarios
  /\ tab = [at |-> "page", params |-> "none", upgrading |-> FALSE, processing |-> FALSE,
            notice |-> "none", loading |-> FALSE, plan |-> "FREE", run |-> 0]
  /\ effect = [r \in Runs |-> NoRun]
  /\ summary = [l \in Load |-> "idle"]

Spent(what) == returns[what] > 0 /\ returns' = [returns EXCEPT ![what] = @ - 1]
OnPage == tab.at = "page"
Now(r) == effect[r]

-----------------------------------------------------------------------------
(* Leaving for Stripe and coming back                                      *)

(* handleUpgrade; the button shows while the plan read last is not PREMIUM. *)
HandleUpgrade ==
  /\ OnPage /\ ~ tab.loading /\ tab.plan # "PREMIUM"
  /\ ~ tab.upgrading /\ ~ tab.processing
  /\ paid[Bought] = "none"
  /\ tab' = [tab EXCEPT !.upgrading = TRUE, !.notice = "none"]
  /\ UNCHANGED <<paymentVars, returns, effect, summary>>

CheckoutStarted ==
  /\ tab.upgrading
  /\ OpenPayment(Bought)
  /\ tab' = [tab EXCEPT !.at = "stripe"]
  /\ UNCHANGED <<returns, effect, summary>>

CheckoutRefused ==
  /\ tab.upgrading /\ OnPage
  /\ tab' = [tab EXCEPT !.upgrading = FALSE, !.notice = "error"]
  /\ Spent("failures") /\ UNCHANGED <<paymentVars, effect, summary>>

(* The page is mounted at an address that says how the checkout ended.     *)
Mount(action, r) ==
  /\ tab' = [tab EXCEPT !.at = "page", !.params = action, !.upgrading = FALSE,
               !.processing = TRUE, !.notice = "none", !.loading = TRUE, !.plan = "none",
               !.run = r]
  /\ effect' = [effect EXCEPT ![r] = [NoRun EXCEPT !.step = "asked", !.left = MaxPolls],
                              ![1 - r].canceled = TRUE]
  /\ summary' = [l \in Load |-> IF l = "mount" THEN "asked" ELSE "idle"]

ReturnFromStripe ==
  /\ tab.at = "stripe"
  /\ \E action \in {"success", "cancel"} : Mount(action, tab.run)
  /\ UNCHANGED <<paymentVars, returns>>

(* A reload of that address: what the server is doing for the page before  *)
(* goes on, and nothing comes of the answer.                               *)
ReloadTab ==
  /\ OnPage /\ tab.params # "none" /\ effect[1 - tab.run].step = "idle"
  /\ Mount(tab.params, 1 - tab.run)
  /\ Spent("reloads") /\ UNCHANGED paymentVars

(* A link of the header to the page itself: an address without parameters. *)
FollowLink ==
  /\ OnPage /\ tab.params # "none"
  /\ tab' = [tab EXCEPT !.params = "none"]
  /\ effect' = [effect EXCEPT ![tab.run].canceled = TRUE]
  /\ UNCHANGED <<paymentVars, returns, summary>>

-----------------------------------------------------------------------------
(* resolveCheckoutSession: the payment is read, then the plan.             *)

ReadLive(r) ==
  /\ Now(r).step = "asked"
  /\ returns.mode = "live" \/ paid[Bought] = "SUCCEEDED"
  /\ effect' = [effect EXCEPT ![r].step = "plan", ![r].status = paid[Bought]]
  /\ UNCHANGED <<paymentVars, returns, tab, summary>>

(* Simulated, the request makes up an outcome for a payment that has not   *)
(* succeeded, failed ones included ...                                     *)
MakeUp(r) ==
  /\ Now(r).step = "asked"
  /\ returns.mode = "simulated" /\ paid[Bought] # "SUCCEEDED"
  /\ \E outcome \in Outcome :
       effect' = [effect EXCEPT ![r].step = "apply", ![r].status = outcome]
  /\ UNCHANGED <<paymentVars, returns, tab, summary>>

(* ... and writes it, whatever has become of the payment meanwhile.        *)
ApplyOutcome(r) ==
  /\ Now(r).step = "apply"
  /\ paid' = [paid EXCEPT ![Bought] = Now(r).status]
  /\ inForce' = IF Now(r).status = "SUCCEEDED" THEN "PREMIUM" ELSE inForce
  /\ effect' = [effect EXCEPT ![r].step = "plan"]
  /\ UNCHANGED <<returns, tab, summary>>

ReadPlan(r) ==
  /\ Now(r).step = "plan"
  /\ effect' = [effect EXCEPT ![r].step = "answered", ![r].plan = inForce]
  /\ UNCHANGED <<paymentVars, returns, tab, summary>>

-----------------------------------------------------------------------------
(* The effect                                                              *)

(* Seeded fault: an attempt is not counted. *)
PollAgainUncounted(r) ==
  /\ Now(r).step = "answered" /\ Now(r).status = "PENDING" /\ Now(r).left > 1
  /\ effect' = [effect EXCEPT ![r].step = "asked"]
  /\ UNCHANGED <<paymentVars, returns, tab, summary>>

(* pollCheckoutStatus asks again, after a pause, canceled or not. *)
PollAgain(r) ==
  /\ Now(r).step = "answered" /\ Now(r).status = "PENDING" /\ Now(r).left > 1
  /\ effect' = [effect EXCEPT ![r].step = "asked", ![r].left = @ - 1]
  /\ UNCHANGED <<paymentVars, returns, tab, summary>>

NoticeFor(run, action) ==
  CASE run.status = "SUCCEEDED" /\ run.plan = "PREMIUM" -> "activated"
    [] run.status = "CANCELED" \/ action = "cancel" -> "canceled"
    [] run.status = "PENDING" -> "pending"
    [] OTHER -> "failed"

Resolved(r) ==
  /\ Now(r).step = "answered"
  /\ Now(r).status # "PENDING" \/ Now(r).left = 1
  /\ IF Now(r).canceled
     THEN effect' = [effect EXCEPT ![r] = NoRun] /\ UNCHANGED <<tab, summary>>
     ELSE /\ effect' = [effect EXCEPT ![r].step = "load"]
          /\ tab' = [tab EXCEPT !.notice = NoticeFor(Now(r), tab.params), !.loading = TRUE]
          /\ summary' = [summary EXCEPT !["effect"] = "asked"]
  /\ UNCHANGED <<paymentVars, returns>>

(* `finally`: nothing, once the run is canceled. *)
Finish(r, page) ==
  /\ effect' = [effect EXCEPT ![r] = NoRun]
  /\ tab' = IF Now(r).canceled THEN page
            ELSE [page EXCEPT !.processing = FALSE, !.params = "none"]

ConfirmFails(r) ==
  /\ Now(r).step \in {"asked", "apply", "plan", "answered"}
  /\ Finish(r, IF Now(r).canceled THEN tab ELSE [tab EXCEPT !.notice = "error"])
  /\ Spent("failures") /\ UNCHANGED <<paymentVars, summary>>

(* loadSummary: what it reads replaces what is shown, whichever it was.    *)
ReadSummary(l) ==
  /\ summary[l] = "asked"
  /\ summary' = [summary EXCEPT ![l] = inForce]
  /\ UNCHANGED <<paymentVars, returns, tab, effect>>

GetSummary(l) ==
  LET page == [tab EXCEPT !.loading = FALSE, !.plan = summary[l]]
  IN  /\ summary[l] \in {"FREE", "PREMIUM"}
      /\ summary' = [summary EXCEPT ![l] = "idle"]
      /\ IF l = "effect" THEN Finish(tab.run, page) ELSE tab' = page /\ UNCHANGED effect
      /\ UNCHANGED <<paymentVars, returns>>

SummaryFails(l) ==
  LET page == [tab EXCEPT !.loading = FALSE, !.notice = "error"]
  IN  /\ summary[l] # "idle"
      /\ summary' = [summary EXCEPT ![l] = "idle"]
      /\ IF l = "effect" THEN Finish(tab.run, page) ELSE tab' = page /\ UNCHANGED effect
      /\ Spent("failures") /\ UNCHANGED paymentVars

-----------------------------------------------------------------------------

(* What webhooks do to the payment in live mode, and time to the plan.     *)
PaymentMoves ==
  /\ tab.at = "stripe" \/ tab.params # "none"
  /\ \/ returns.mode = "live" /\ SettlePayment(Bought)
     \/ ActivatePlan \/ LapsePlan
  /\ UNCHANGED returnVars

ReturnProceeds ==
  \/ CheckoutStarted
  \/ \E r \in Runs : ReadLive(r) \/ MakeUp(r) \/ ApplyOutcome(r) \/ ReadPlan(r)
       \/ PollAgain(r) \/ Resolved(r)
  \/ \E l \in Load : ReadSummary(l) \/ GetSummary(l)

ReturnNext ==
  \/ HandleUpgrade \/ CheckoutRefused \/ ReturnFromStripe \/ ReloadTab \/ FollowLink
  \/ ReturnProceeds
  \/ \E r \in Runs : ConfirmFails(r)
  \/ \E l \in Load : SummaryFails(l)
  \/ PaymentMoves

ReturnSpec ==
  ReturnInit /\ [][ReturnNext]_returnAllVars /\ WF_returnAllVars(ReturnProceeds)

-----------------------------------------------------------------------------

(* Who comes back from Stripe is told how the checkout stands, and the     *)
(* page becomes usable again, however slow the webhooks are and whichever  *)
(* request fails, unless a link to the page has taken the checkout out of  *)
(* the address (Plan.tsx, the effect on checkoutAction; pollCheckoutStatus).*)
ReturnIsAnswered ==
  tab.processing /\ tab.params # "none"
    ~> \/ ~ tab.processing /\ tab.notice # "none"
       \/ tab.processing /\ tab.params = "none"

=============================================================================
