------------------------------ MODULE Billing -------------------------------
(***************************************************************************)
(* Subscriptions of one account under BILLING_MODE=live                    *)
(* (apps/api/src/billing/billing.service.ts): the account's own requests   *)
(* and the webhooks of Stripe run concurrently, nothing is a transaction,  *)
(* and each call is a list of database statements between which the others *)
(* may run.  Stripe is external: it takes the money, and delivers every    *)
(* event at least once, in any order.                                      *)
(***************************************************************************)
EXTENDS Integers, Sequences, FiniteSets

CONSTANTS
  Checkout,     \* the checkouts the account may start, each with its payment
  Client,       \* requests of the account in flight at once
  Hook,         \* webhook deliveries in flight at once
  Subscribed,   \* the event types the webhook endpoint is subscribed to
  Roles,        \* the roles the account may have at the start
  LastDay,      \* the clock stops here
  Period,       \* PREMIUM_BILLING_DAYS
  Faults        \* which of "db", "crash", "forget" and "redeliver" may happen

EventType ==
  {"completed", "completed_unpaid", "async_succeeded", "async_failed", "expired",
   "sub_active", "sub_past_due", "sub_deleted", "invoice_paid", "invoice_failed"}

ASSUME BillingAssumption ==
  /\ Client \cap Hook = {} /\ "none" \notin Checkout /\ IsFiniteSet(Checkout)
  /\ Subscribed \subseteq EventType
  /\ Roles \subseteq {"USER", "PREMIUM", "ADMIN", "SPECIALIST"} /\ Roles # {}
  /\ LastDay \in Nat /\ Period \in Nat \ {0}
  /\ Faults \subseteq {"db", "crash", "forget", "redeliver"}

VARIABLES
  subs,         \* the Subscription rows of the account, oldest first
  payment,      \* the Payment row of each checkout
  invoices,     \* the Payment rows that invoice events created
  role,         \* User.role
  call,         \* the call each Client and Hook is serving
  processed,    \* processedStripeEvents
  stripe,       \* what Stripe knows of each checkout (external)
  sent,         \* Stripe's events that have not been answered (external)
  now           \* the day

vars ==
  <<subs, payment, invoices, role, call, processed, stripe, sent, now>>

Call == Client \cup Hook

-----------------------------------------------------------------------------
(* The statements of each operation, in order                              *)

GetCurrent == <<"expire", "find", "readRole", "writeRole">>

Activate ==
  <<"expire", "deactivate", "insertPremium", "readRole", "writeRole", "link">>

StartCheckout ==
  GetCurrent \o <<"insertPayment", "openSession">>

(* What each webhook sets going. *)
Handling(type) ==
  CASE type \in {"completed", "completed_unpaid", "async_succeeded",
                 "async_failed", "expired"} -> <<"readPayment">>
    [] type \in {"sub_active", "sub_past_due", "sub_deleted"} ->
         <<"findSub", "syncSub">>
    [] type \in {"invoice_paid", "invoice_failed"} ->
         <<"findSub", "syncSub", "saveInvoice">>

(* Seeded fault: payment_status of a completed session is not looked at. *)
ResolutionUnchecked(type) ==
  CASE type \in {"completed", "completed_unpaid", "async_succeeded"} -> "SUCCEEDED"
    [] type = "async_failed" -> "FAILED"
    [] type = "expired" -> "CANCELED"

(* The payment status a checkout event stands for. *)
Resolution(type) ==
  CASE type \in {"completed", "async_succeeded"} -> "SUCCEEDED"
    [] type = "completed_unpaid" -> "PENDING"
    [] type = "async_failed" -> "FAILED"
    [] type = "expired" -> "CANCELED"

(* Only checkout.session.completed names the Stripe subscription. *)
NamesSubscription(type) == type \in {"completed", "completed_unpaid"}

(* Seeded fault: the status of the invoice, "paid", is mapped. *)
MappedStatusOfInvoice(type) ==
  CASE type = "sub_active" -> "ACTIVE"
    [] type = "sub_deleted" -> "CANCELED"
    [] type \in {"sub_past_due", "invoice_paid", "invoice_failed"} -> "INACTIVE"

(* mapStripeSubscriptionStatus *)
MappedStatus(type) ==
  CASE type \in {"sub_active", "invoice_paid"} -> "ACTIVE"
    [] type = "sub_deleted" -> "CANCELED"
    [] type \in {"sub_past_due", "invoice_failed"} -> "INACTIVE"

-----------------------------------------------------------------------------

Never == -1             \* expiresAt is null

Statement ==
  {"expire", "find", "insertFree", "readRole", "writeRole", "insertPayment",
   "openSession", "failSession", "readPayment", "noteRef", "settle",
   "deactivate", "insertPremium", "link", "findSub", "syncSub", "saveInvoice"}

NoCall ==
  [op |-> "none", on |-> "none", todo |-> <<>>, plan |-> "none",
   ref |-> FALSE, sub |-> 0, until |-> Never]

Event == [on : Checkout, type : EventType]

Init ==
  /\ subs = <<>>
  /\ payment = [p \in Checkout |-> [status |-> "none", ref |-> FALSE, sub |-> 0]]
  /\ invoices = {}
  /\ role \in Roles
  /\ call = [c \in Call |-> NoCall]
  /\ processed = {}
  /\ stripe = [p \in Checkout |-> "none"]
  /\ sent = {}
  /\ now = 0

Busy(c) == call[c].op # "none"
At(c, statement) ==
  call[c].todo # <<>> /\ Head(call[c].todo) = statement
Rest(c) == Tail(call[c].todo)
Goes(c, todo) == call' = [call EXCEPT ![c].todo = todo]

Unexpired(s) == s.until = Never \/ s.until > now
ActiveSubs == {i \in DOMAIN subs : subs[i].status = "ACTIVE"}
CurrentSubs == {i \in ActiveSubs : Unexpired(subs[i])}
Newest(I) == CHOOSE i \in I : \A k \in I : k <= i

-----------------------------------------------------------------------------
(* Calls arrive                                                            *)

(* GET /billing/status and every other request that asks for the plan. *)
ReadStatus(c) ==
  /\ ~ Busy(c)
  /\ call' = [call EXCEPT ![c] = [NoCall EXCEPT !.op = "status", !.todo = GetCurrent]]
  /\ UNCHANGED <<subs, payment, invoices, role, processed, stripe, sent, now>>

(* POST /billing/checkout *)
RequestCheckout(c, p) ==
  /\ ~ Busy(c)
  /\ payment[p].status = "none" /\ \A d \in Call : call[d].on # p
  /\ call' = [call EXCEPT ![c] =
                [NoCall EXCEPT !.op = "checkout", !.on = p, !.todo = StartCheckout]]
  /\ UNCHANGED <<subs, payment, invoices, role, processed, stripe, sent, now>>

(* POST /billing/webhooks/stripe: an event is marked as processed before   *)
(* it is processed, and answered at once when it is marked already.        *)
Deliver(h, e) ==
  /\ ~ Busy(h)
  /\ e \in sent
  /\ IF e \in processed
     THEN /\ sent' = sent \ {e}
          /\ UNCHANGED <<call, processed>>
     ELSE /\ processed' = processed \cup {e}
          /\ call' = [call EXCEPT ![h] = [NoCall EXCEPT !.op = e.type, !.on = e.on,
                                                        !.todo = Handling(e.type)]]
          /\ UNCHANGED sent
  /\ UNCHANGED <<subs, payment, invoices, role, stripe, now>>

(* The call is answered; Stripe may deliver an event again all the same. *)
Answer(c) ==
  /\ Busy(c) /\ call[c].todo = <<>>
  /\ call' = [call EXCEPT ![c] = NoCall]
  /\ LET e == [on |-> call[c].on, type |-> call[c].op]
     IN  \/ sent' = sent \ {e}
         \/ "redeliver" \in Faults /\ UNCHANGED sent
  /\ UNCHANGED <<subs, payment, invoices, role, processed, stripe, now>>

(* A statement fails: the call answers with an error.  startCheckout alone *)
(* handles one, by marking its payment.                                    *)
Throw(c) ==
  /\ call[c].todo # <<>>
  /\ At(c, "openSession") \/ "db" \in Faults
  /\ IF At(c, "openSession")
     THEN Goes(c, <<"failSession">>)
     ELSE call' = [call EXCEPT ![c] = NoCall]
  /\ UNCHANGED <<subs, payment, invoices, role, processed, stripe, sent, now>>

-----------------------------------------------------------------------------
(* getCurrentSubscriptionForUser                                           *)

(* expireStaleSubscriptions *)
ExpireStale(c) ==
  /\ At(c, "expire")
  /\ subs' = [i \in DOMAIN subs |->
                IF i \in ActiveSubs /\ ~ Unexpired(subs[i])
                THEN [subs[i] EXCEPT !.status = "EXPIRED"] ELSE subs[i]]
  /\ Goes(c, Rest(c))
  /\ UNCHANGED <<payment, invoices, role, processed, stripe, sent, now>>

FindCurrent(c) ==
  /\ At(c, "find")
  /\ call' = [call EXCEPT
       ![c].todo = IF CurrentSubs = {} THEN <<"insertFree">> \o Rest(c) ELSE Rest(c),
       ![c].plan = IF CurrentSubs = {} THEN "FREE" ELSE subs[Newest(CurrentSubs)].plan]
  /\ UNCHANGED <<subs, payment, invoices, role, processed, stripe, sent, now>>

InsertFree(c) ==
  /\ At(c, "insertFree")
  /\ subs' = Append(subs, [plan |-> "FREE", status |-> "ACTIVE",
                           until |-> Never, ref |-> "none"])
  /\ Goes(c, Rest(c))
  /\ UNCHANGED <<payment, invoices, role, processed, stripe, sent, now>>

RoleFor(plan) == IF plan = "PREMIUM" THEN "PREMIUM" ELSE "USER"

(* Seeded fault: the role follows a purchase, but not the end of the plan. *)
ReadRoleUpgradesOnly(c) ==
  /\ At(c, "readRole")
  /\ Goes(c, IF role \in {"ADMIN", "SPECIALIST", "PREMIUM"}
             THEN Tail(Rest(c)) ELSE Rest(c))
  /\ UNCHANGED <<subs, payment, invoices, role, processed, stripe, sent, now>>

(* syncUserRoleToPlan reads the role, and writes it when it has to ... *)
ReadRole(c) ==
  /\ At(c, "readRole")
  /\ Goes(c, IF role \in {"ADMIN", "SPECIALIST", RoleFor(call[c].plan)}
             THEN Tail(Rest(c)) ELSE Rest(c))
  /\ UNCHANGED <<subs, payment, invoices, role, processed, stripe, sent, now>>

(* ... by the plan the call found earlier. *)
WriteRole(c) ==
  /\ At(c, "writeRole")
  /\ role' = RoleFor(call[c].plan)
  /\ Goes(c, Rest(c))
  /\ UNCHANGED <<subs, payment, invoices, processed, stripe, sent, now>>

-----------------------------------------------------------------------------
(* startCheckout                                                           *)

(* The current plan is checked, and the payment inserted. *)
InsertPayment(c) ==
  /\ At(c, "insertPayment")
  /\ IF call[c].plan = "PREMIUM"
     THEN Goes(c, <<>>) /\ UNCHANGED payment
     ELSE /\ payment' = [payment EXCEPT ![call[c].on].status = "PENDING"]
          /\ Goes(c, Rest(c))
  /\ UNCHANGED <<subs, invoices, role, processed, stripe, sent, now>>

(* Stripe opens a session, its id is stored, and the account is sent to its *)
(* page: between the first two nobody can know of the session yet.          *)
OpenSession(c) ==
  /\ At(c, "openSession")
  /\ stripe' = [stripe EXCEPT ![call[c].on] = "open"]
  /\ Goes(c, Rest(c))
  /\ UNCHANGED <<subs, payment, invoices, role, processed, sent, now>>

(* Seeded fault: a status that is not in the enum. *)
FailSessionUnlisted(c) ==
  /\ At(c, "failSession")
  /\ payment' = [payment EXCEPT ![call[c].on].status = "ERROR"]
  /\ Goes(c, Rest(c))
  /\ UNCHANGED <<subs, invoices, role, processed, stripe, sent, now>>

FailSession(c) ==
  /\ At(c, "failSession")
  /\ payment' = [payment EXCEPT ![call[c].on].status = "FAILED"]
  /\ Goes(c, Rest(c))
  /\ UNCHANGED <<subs, invoices, role, processed, stripe, sent, now>>

-----------------------------------------------------------------------------
(* applyResolutionToPayment and activatePremiumSubscription                *)

(* Seeded fault: a payment that has succeeded is resolved again. *)
ReadPaymentAgain(c) ==
  LET row == payment[call[c].on]
  IN  /\ At(c, "readPayment")
      /\ call' = [call EXCEPT
           ![c].todo = IF Resolution(call[c].op) = "PENDING" THEN <<"noteRef">>
                       ELSE <<"settle">>,
           ![c].ref = NamesSubscription(call[c].op) \/ row.ref]
      /\ UNCHANGED <<subs, payment, invoices, role, processed, stripe, sent, now>>

(* A payment that has succeeded is left alone. *)
ReadPayment(c) ==
  LET row == payment[call[c].on]
  IN  /\ At(c, "readPayment")
      /\ call' = [call EXCEPT
           ![c].todo = IF row.status = "SUCCEEDED" THEN GetCurrent
                       ELSE IF Resolution(call[c].op) = "PENDING" THEN <<"noteRef">>
                       ELSE <<"settle">>,
           ![c].ref = NamesSubscription(call[c].op) \/ row.ref]
      /\ UNCHANGED <<subs, payment, invoices, role, processed, stripe, sent, now>>

NoteRef(c) ==
  /\ At(c, "noteRef")
  /\ payment' = [payment EXCEPT ![call[c].on].ref = call[c].ref]
  /\ Goes(c, Rest(c))
  /\ UNCHANGED <<subs, invoices, role, processed, stripe, sent, now>>

(* Seeded fault: nothing is activated without the name of the subscription. *)
SettleNamed(c) ==
  LET status == Resolution(call[c].op)
  IN  /\ At(c, "settle")
      /\ payment' = [payment EXCEPT ![call[c].on].status = status,
                                    ![call[c].on].ref = call[c].ref]
      /\ Goes(c, IF status = "SUCCEEDED" /\ call[c].ref THEN Activate ELSE <<>>)
      /\ UNCHANGED <<subs, invoices, role, processed, stripe, sent, now>>

(* Seeded fault: the plan is activated whatever came of the payment. *)
SettleAndActivate(c) ==
  LET status == Resolution(call[c].op)
  IN  /\ At(c, "settle")
      /\ payment' = [payment EXCEPT ![call[c].on].status = status,
                                    ![call[c].on].ref = call[c].ref]
      /\ Goes(c, Activate)
      /\ UNCHANGED <<subs, invoices, role, processed, stripe, sent, now>>

Settle(c) ==
  LET status == Resolution(call[c].op)
  IN  /\ At(c, "settle")
      /\ payment' = [payment EXCEPT ![call[c].on].status = status,
                                    ![call[c].on].ref = call[c].ref]
      /\ Goes(c, IF status = "SUCCEEDED" THEN Activate ELSE <<>>)
      /\ UNCHANGED <<subs, invoices, role, processed, stripe, sent, now>>

Deactivate(c) ==
  /\ At(c, "deactivate")
  /\ subs' = [i \in DOMAIN subs |->
                IF i \in ActiveSubs THEN [subs[i] EXCEPT !.status = "INACTIVE"]
                ELSE subs[i]]
  /\ Goes(c, Rest(c))
  /\ UNCHANGED <<payment, invoices, role, processed, stripe, sent, now>>

InsertPremium(c) ==
  /\ At(c, "insertPremium")
  /\ subs' = Append(subs, [plan |-> "PREMIUM", status |-> "ACTIVE",
                           until |-> now + Period,
                           ref |-> IF call[c].ref THEN call[c].on ELSE "none"])
  /\ call' = [call EXCEPT ![c].todo = Rest(c), ![c].plan = "PREMIUM",
                          ![c].sub = Len(subs) + 1]
  /\ UNCHANGED <<payment, invoices, role, processed, stripe, sent, now>>

(* Seeded fault: the payment is linked to the newest subscription. *)
LinkNewest(c) ==
  /\ At(c, "link")
  /\ payment' = [payment EXCEPT ![call[c].on].sub = Len(subs)]
  /\ Goes(c, Rest(c))
  /\ UNCHANGED <<subs, invoices, role, processed, stripe, sent, now>>

LinkPayment(c) ==
  /\ At(c, "link")
  /\ payment' = [payment EXCEPT ![call[c].on].sub = call[c].sub]
  /\ Goes(c, Rest(c))
  /\ UNCHANGED <<subs, invoices, role, processed, stripe, sent, now>>

-----------------------------------------------------------------------------
(* syncLocalSubscriptionFromStripe and upsertInvoicePayment                *)

FindSubscription(c) ==
  LET matches == {i \in DOMAIN subs : subs[i].ref = call[c].on}
  IN  /\ At(c, "findSub")
      /\ \/ matches = {} /\ Goes(c, <<>>)
         \/ \E i \in matches :
              call' = [call EXCEPT ![c].todo = Rest(c), ![c].sub = i,
                                   ![c].until = subs[i].until]
      /\ UNCHANGED <<subs, payment, invoices, role, processed, stripe, sent, now>>

(* The event may name the end of the period; an invoice never does. *)
SyncSubscription(c) ==
  LET type == call[c].op
      ends == {call[c].until} \cup (IF type = "sub_active" THEN {now + Period} ELSE {})
      after == IF MappedStatus(type) = "ACTIVE" THEN Rest(c) ELSE GetCurrent \o Rest(c)
  IN  /\ At(c, "syncSub")
      /\ \E end \in ends :
           subs' = [subs EXCEPT ![call[c].sub].status = MappedStatus(type),
                                ![call[c].sub].until = end]
      /\ Goes(c, after)
      /\ UNCHANGED <<payment, invoices, role, processed, stripe, sent, now>>

(* The payment of an invoice has one row, however often it is recorded. *)
SaveInvoice(c) ==
  /\ At(c, "saveInvoice")
  /\ invoices' = invoices \cup {<<call[c].on, call[c].op>>}
  /\ Goes(c, Rest(c))
  /\ UNCHANGED <<subs, payment, role, processed, stripe, sent, now>>

-----------------------------------------------------------------------------
(* The process, the clock and Stripe                                       *)

(* The process dies: calls and marks are gone, nothing is resumed. *)
Crash ==
  /\ "crash" \in Faults
  /\ call' = [c \in Call |-> NoCall]
  /\ processed' = {}
  /\ UNCHANGED <<subs, payment, invoices, role, stripe, sent, now>>

(* shouldProcessStripeEvent drops the marks that are an hour old. *)
Forget(e) ==
  /\ "forget" \in Faults
  /\ e \in processed
  /\ \A h \in Hook : ~ (call[h].on = e.on /\ call[h].op = e.type)
  /\ processed' = processed \ {e}
  /\ UNCHANGED <<subs, payment, invoices, role, call, stripe, sent, now>>

NextDay ==
  /\ now < LastDay
  /\ now' = now + 1
  /\ UNCHANGED <<subs, payment, invoices, role, call, processed, stripe, sent>>

(* Stripe moves checkout p on and sends the events that belong to it. *)
StripeMoves(p, from, to, types) ==
  /\ stripe[p] = from
  /\ stripe' = [stripe EXCEPT ![p] = to]
  /\ sent' = sent \cup {[on |-> p, type |-> t] : t \in types \cap Subscribed}
  /\ UNCHANGED <<subs, payment, invoices, role, call, processed, now>>

Pay(p) == StripeMoves(p, "open", "paid", {"completed", "sub_active", "invoice_paid"})
PayLater(p) == StripeMoves(p, "open", "awaiting", {"completed_unpaid"})
Confirm(p) ==
  StripeMoves(p, "awaiting", "paid", {"async_succeeded", "sub_active", "invoice_paid"})
Reject(p) == StripeMoves(p, "awaiting", "failed", {"async_failed"})
ExpireSession(p) == StripeMoves(p, "open", "expired", {"expired"})
MissRenewal(p) == StripeMoves(p, "paid", "past_due", {"sub_past_due", "invoice_failed"})
CancelPlan(p) ==
  \E from \in {"paid", "past_due"} : StripeMoves(p, from, "canceled", {"sub_deleted"})

StripeSteps(p) ==
  \/ Pay(p) \/ PayLater(p) \/ Confirm(p) \/ Reject(p)
  \/ ExpireSession(p) \/ MissRenewal(p) \/ CancelPlan(p)

Proceed(c) ==
  \/ ExpireStale(c) \/ FindCurrent(c) \/ InsertFree(c) \/ ReadRole(c) \/ WriteRole(c)
  \/ InsertPayment(c) \/ OpenSession(c) \/ FailSession(c)
  \/ ReadPayment(c) \/ NoteRef(c) \/ Settle(c)
  \/ Deactivate(c) \/ InsertPremium(c) \/ LinkPayment(c)
  \/ FindSubscription(c) \/ SyncSubscription(c) \/ SaveInvoice(c)
  \/ Answer(c)

Next ==
  \/ \E c \in Client : ReadStatus(c) \/ \E p \in Checkout : RequestCheckout(c, p)
  \/ \E h \in Hook, e \in sent : Deliver(h, e)
  \/ \E c \in Call : Proceed(c) \/ Throw(c)
  \/ Crash
  \/ \E e \in processed : Forget(e)
  \/ NextDay
  \/ \E p \in Checkout : StripeSteps(p)

Spec == Init /\ [][Next]_vars

(* The server answers what it has started, Stripe delivers what has not    *)
(* been answered, and the account keeps using the application.             *)
FairSpec ==
  /\ Spec
  /\ \A c \in Call : WF_vars(Proceed(c))
  /\ \A p \in Checkout : \A t \in EventType :
       WF_vars(\E h \in Hook : Deliver(h, [on |-> p, type |-> t]))
  /\ \A c \in Client : WF_vars(ReadStatus(c))

-----------------------------------------------------------------------------
(* Properties                                                              *)

Premium == {i \in DOMAIN subs : subs[i].plan = "PREMIUM"}
Charged(p) == stripe[p] \in {"paid", "past_due", "canceled"}

(* Every variable keeps its shape; what a call refers to exists. *)
TypeOK ==
  /\ subs \in Seq([plan : {"FREE", "PREMIUM"},
                   status : {"ACTIVE", "INACTIVE", "CANCELED", "EXPIRED"},
                   until : Int, ref : Checkout \cup {"none"}])
  /\ payment \in [Checkout ->
       [status : {"none", "PENDING", "SUCCEEDED", "FAILED", "CANCELED"},
        ref : BOOLEAN, sub : 0 .. Len(subs)]]
  /\ invoices \subseteq Checkout \X EventType
  /\ role \in {"USER", "PREMIUM", "ADMIN", "SPECIALIST"}
  /\ \A c \in Call : call[c].todo \in Seq(Statement) /\ call[c].sub \in 0 .. Len(subs)
  /\ processed \subseteq Event /\ sent \subseteq Event

(* The status of a payment is the outcome Stripe arrived at, whatever the  *)
(* order, the repetition and the overlap of the events it was told by: no  *)
(* payment succeeds that was not charged, and none that was charged fails  *)
(* or is canceled (applyResolutionToPayment).                              *)
PaymentsAgree ==
  \A p \in Checkout :
    /\ payment[p].status = "SUCCEEDED" => Charged(p)
    /\ payment[p].status = "CANCELED" => stripe[p] = "expired"
    /\ payment[p].status = "FAILED" => stripe[p] \in {"none", "failed"}

(* Billing does no more than PaymentLifecycle allows: whatever statements   *)
(* and events interleave, a payment is opened and settled once, and PREMIUM *)
(* is in force only after one has succeeded (startCheckout,                 *)
(* applyResolutionToPayment, getCurrentSubscriptionForUser).                *)
CurrentPlan ==
  IF CurrentSubs = {} THEN "FREE" ELSE subs[Newest(CurrentSubs)].plan

Lifecycle ==
  INSTANCE PaymentLifecycle WITH Purchase <- Checkout,
    paid <- [p \in Checkout |-> payment[p].status], inForce <- CurrentPlan

PaymentsAreSettledOnce == Lifecycle!PaymentSpec

(* No payment buys twice: there are never more PREMIUM subscriptions than  *)
(* payments that have succeeded, although an event can be delivered again  *)
(* while it is processed, after a crash, or when its mark is forgotten.    *)
NoPaymentBuysTwice ==
  Cardinality(Premium) <= Cardinality({p \in Checkout : payment[p].status = "SUCCEEDED"})

(* The role PREMIUM is only held by an account that had a PREMIUM          *)
(* subscription, and a payment buys one at most and is linked to it alone. *)
PremiumIsBought ==
  /\ NoPaymentBuysTwice
  /\ role = "PREMIUM" /\ "PREMIUM" \notin Roles => Premium # {}
  /\ \A p \in Checkout :
       payment[p].sub # 0 =>
         /\ payment[p].sub \in Premium
         /\ subs[payment[p].sub].ref \in {p, "none"}
         /\ \A q \in Checkout \ {p} : payment[q].sub # payment[p].sub

(* A subscription that was paid for is never taken away without a cause:   *)
(* it has expired, Stripe has reported a missed renewal or a cancellation, *)
(* or another checkout was charged; and none that expired or was canceled  *)
(* comes back to an account that Stripe has never charged.                 *)
PremiumLapsesForACause ==
  [][\A i \in Premium :
       /\ subs[i].status = "ACTIVE" /\ subs'[i].status # "ACTIVE" =>
            \/ ~ Unexpired(subs[i])
            \/ \E p \in Checkout : stripe[p] \in {"past_due", "canceled"}
            \/ \E p, q \in Checkout : p # q /\ Charged(p) /\ Charged(q)
       /\ subs[i].status # "ACTIVE" /\ subs'[i].status = "ACTIVE" =>
            subs[i].ref # "none" /\ Charged(subs[i].ref)]_vars

(* A checkout Stripe has charged ends in a payment that has succeeded and  *)
(* a subscription that is linked to it.                                    *)
ChargedIsActivated ==
  \A p \in Checkout :
    stripe[p] = "paid" ~> payment[p].status = "SUCCEEDED" /\ payment[p].sub # 0

(* A role that disagrees with the plan in force is set right by one of the *)
(* next requests, whatever the calls that were under way when it was read. *)
RoleIsRepaired ==
  role \in {"USER", "PREMIUM"} /\ role # RoleFor(CurrentPlan)
    ~> role = RoleFor(CurrentPlan)

(* A payment does not stay pending at its checkout page: once Stripe has   *)
(* charged it, its status updates.                                         *)
PendingUpdates ==
  \A p \in Checkout : Charged(p) ~> payment[p].status # "PENDING"

(* Whoever holds a PREMIUM subscription that is active and has not expired *)
(* is given the PREMIUM features.                                          *)
PremiumIsServed ==
  (\E i \in CurrentSubs : subs[i].plan = "PREMIUM") => CurrentPlan = "PREMIUM"

=============================================================================
