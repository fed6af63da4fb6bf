--------------------------- MODULE BillingProofs ---------------------------
(***************************************************************************)
(* Proofs about Billing, for any number of checkouts, of requests and of   *)
(* webhook deliveries in flight, any subscription of the endpoint, any     *)
(* length of the plan and any combination of faults.                       *)
(***************************************************************************)
EXTENDS Billing, FiniteSetTheorems, FunctionTheorems, SequenceTheorems,
        WellFoundedInduction, TLAPS

-----------------------------------------------------------------------------
(* Where a call can stand                                                  *)

(* Within getCurrentSubscriptionForUser, or at its end. *)
Look ==
  {<<"expire", "find", "readRole", "writeRole">>, <<"find", "readRole", "writeRole">>,
   <<"insertFree", "readRole", "writeRole">>, <<"readRole", "writeRole">>,
   <<"writeRole">>, <<>>}

(* Before the payment of a checkout is inserted, and after it. *)
Opening ==
  {<<"expire", "find", "readRole", "writeRole", "insertPayment", "openSession">>,
   <<"find", "readRole", "writeRole", "insertPayment", "openSession">>,
   <<"insertFree", "readRole", "writeRole", "insertPayment", "openSession">>,
   <<"readRole", "writeRole", "insertPayment", "openSession">>,
   <<"writeRole", "insertPayment", "openSession">>,
   <<"insertPayment", "openSession">>}
Opened == {<<"openSession">>, <<"failSession">>}

(* Before activatePremiumSubscription has inserted its row, and after it. *)
Activating ==
  {<<"expire", "deactivate", "insertPremium", "readRole", "writeRole", "link">>,
   <<"deactivate", "insertPremium", "readRole", "writeRole", "link">>,
   <<"insertPremium", "readRole", "writeRole", "link">>}
Linking ==
  {<<"readRole", "writeRole", "link">>, <<"writeRole", "link">>, <<"link">>}

(* syncLocalSubscriptionFromStripe has found its row. *)
Syncing == {<<"syncSub">>, <<"syncSub", "saveInvoice">>}

Invoicing ==
  {<<"expire", "find", "readRole", "writeRole", "saveInvoice">>,
   <<"find", "readRole", "writeRole", "saveInvoice">>,
   <<"insertFree", "readRole", "writeRole", "saveInvoice">>,
   <<"readRole", "writeRole", "saveInvoice">>,
   <<"writeRole", "saveInvoice">>, <<"saveInvoice">>}

Resolving == {<<"readPayment">>, <<"noteRef">>, <<"settle">>}
Finding == {<<"findSub", "syncSub">>, <<"findSub", "syncSub", "saveInvoice">>}

CheckoutEvent == {"completed", "completed_unpaid", "async_succeeded", "async_failed", "expired"}
SubscriptionEvent == {"sub_active", "sub_past_due", "sub_deleted"}
InvoiceEvent == {"invoice_paid", "invoice_failed"}

(* What a call of each kind may have to do, by its operation. *)
Standing(op, todo) ==
  /\ op = "none" => todo = <<>>
  /\ op = "status" => todo \in Look
  /\ op = "checkout" => todo \in Opening \cup Opened \cup {<<>>}
  /\ op \in CheckoutEvent => todo \in Resolving \cup Look \cup Activating \cup Linking
  /\ op \in SubscriptionEvent =>
       todo \in Look \cup {<<"findSub", "syncSub">>, <<"syncSub">>}
  /\ op \in InvoiceEvent =>
       todo \in Invoicing \cup
         {<<>>, <<"findSub", "syncSub", "saveInvoice">>, <<"syncSub", "saveInvoice">>}

-----------------------------------------------------------------------------
(* The inductive invariant                                                 *)

CallType ==
  [op : {"none", "status", "checkout"} \cup EventType, on : Checkout \cup {"none"},
   todo : Seq(Statement), plan : {"none", "FREE", "PREMIUM"}, ref : BOOLEAN,
   sub : Nat, until : Int]

Typed ==
  /\ TypeOK
  /\ call \in [Call -> CallType]
  /\ stripe \in [Checkout -> {"none", "open", "awaiting", "paid", "failed", "expired",
                              "past_due", "canceled"}]
  /\ now \in Nat

OfEvent(c) == call[c].op \in EventType
EventOf(c) == [on |-> call[c].on, type |-> call[c].op]

(* A call stands where its operation leads it; only a webhook serves an    *)
(* event, and the event is marked as processed meanwhile.                  *)
Control ==
  \A c \in Call :
    /\ Standing(call[c].op, call[c].todo)
    /\ call[c].op \notin {"none", "status"} => call[c].on \in Checkout
    /\ call[c].op \in {"none", "status"} => call[c].on = "none"
    /\ OfEvent(c) => c \in Hook /\ EventOf(c) \in processed

(* What Stripe has done before it sends an event of this type. *)
Fits(p, type) ==
  /\ type \in {"completed", "async_succeeded", "sub_active", "invoice_paid",
               "sub_past_due", "invoice_failed", "sub_deleted"} => Charged(p)
  /\ type \in {"sub_past_due", "invoice_failed", "sub_deleted"} =>
       stripe[p] \in {"past_due", "canceled"}
  /\ type = "async_failed" => stripe[p] = "failed"
  /\ type = "expired" => stripe[p] = "expired"
  /\ stripe[p] \notin {"none", "open"}

EventsFit ==
  /\ \A e \in sent : Fits(e.on, e.type)
  /\ \A c \in Call : OfEvent(c) => Fits(call[c].on, call[c].op)

(* Of one checkout, Stripe reports success by one type of event only, and  *)
(* an event is never served twice at once.                                 *)
Told(p, type) ==
  \/ [on |-> p, type |-> type] \in sent
  \/ \E c \in Call : call[c].on = p /\ call[c].op = type

SuccessIsToldOnce ==
  /\ \A p \in Checkout : ~ (Told(p, "completed") /\ Told(p, "async_succeeded"))
  /\ \A c, d \in Call :
       c # d /\ OfEvent(c) /\ call[c].op = call[d].op => call[c].on # call[d].on

(* While a checkout is opened, nobody else serves it, and Stripe does not  *)
(* know of it.                                                             *)
Openings ==
  /\ \A c \in Call :
       call[c].todo \in Opening \cup Opened =>
         /\ stripe[call[c].on] = "none"
         /\ payment[call[c].on].status =
              IF call[c].todo \in Opening THEN "none" ELSE "PENDING"
         /\ \A d \in Call \ {c} : call[d].on # call[c].on
  /\ \A p \in Checkout : payment[p].status = "none" => stripe[p] = "none"

(* A payment that is about to be settled as paid has not been before; one  *)
(* that is about to activate the plan has been, by this call.              *)
Settlings ==
  \A c \in Call :
    /\ call[c].todo = <<"settle">> =>
         /\ Resolution(call[c].op) # "PENDING"
         /\ Resolution(call[c].op) = "SUCCEEDED" => payment[call[c].on].status # "SUCCEEDED"
    /\ call[c].todo \in Activating =>
         /\ Resolution(call[c].op) = "SUCCEEDED"
         /\ payment[call[c].on].status = "SUCCEEDED"

(* Every PREMIUM row was bought by a payment of its own, none of which is  *)
(* about to buy another.                                                   *)
Buys(f) ==
  /\ \A i, k \in Premium : f[i] = f[k] => i = k
  /\ \A i \in Premium : payment[f[i]].status = "SUCCEEDED"
  /\ \A c \in Call, i \in Premium : call[c].todo \in Activating => f[i] # call[c].on

EachIsBought == \E f \in [Premium -> Checkout] : Buys(f)

(* A call that is about to link a row is the only one that knows of it.    *)
Linkings ==
  \A c \in Call :
    call[c].todo \in Linking =>
      /\ call[c].sub \in Premium
      /\ subs[call[c].sub].ref \in {call[c].on, "none"}
      /\ \A q \in Checkout : payment[q].sub # call[c].sub
      /\ \A d \in Call \ {c} : call[d].todo \in Linking => call[d].sub # call[c].sub

Links ==
  \A p \in Checkout :
    payment[p].sub # 0 =>
      /\ payment[p].sub \in Premium
      /\ subs[payment[p].sub].ref \in {p, "none"}
      /\ \A q \in Checkout \ {p} : payment[q].sub # payment[p].sub

(* Whoever writes the role PREMIUM has seen a PREMIUM row, and whoever     *)
(* follows Stripe writes the row of its checkout.                          *)
Plans ==
  /\ \A c \in Call : call[c].plan = "PREMIUM" => Premium # {}
  /\ \A c \in Call :
       call[c].todo \in Syncing =>
         call[c].sub \in DOMAIN subs /\ subs[call[c].sub].ref = call[c].on
  /\ role = "PREMIUM" /\ "PREMIUM" \notin Roles => Premium # {}

IInv ==
  /\ Typed
  /\ Control
  /\ EventsFit
  /\ SuccessIsToldOnce
  /\ Openings
  /\ PaymentsAgree
  /\ Settlings
  /\ EachIsBought
  /\ Linkings
  /\ Links
  /\ Plans

-----------------------------------------------------------------------------
(* How a list of statements goes on                                        *)

(* Two lists joined are the list that has the elements of both.            *)
LEMMA Joined ==
  ASSUME NEW s \in Seq(Statement), NEW t \in Seq(Statement), NEW u \in Seq(Statement),
         Len(u) = Len(s) + Len(t),
         \A i \in 1 .. Len(u) : u[i] = IF i <= Len(s) THEN s[i] ELSE t[i - Len(s)]
  PROVE  s \o t = u
  <1>1. s \o t \in Seq(Statement) /\ Len(s \o t) = Len(u)
    BY ConcatProperties
  <1>2. \A i \in 1 .. Len(s \o t) : (s \o t)[i] = u[i]
    BY <1>1, ConcatProperties
  <1> QED BY <1>1, <1>2, SeqEqual

(* The lists that the operations join.                                     *)
LEMMA Joins ==
  /\ <<"insertFree">> \o <<"readRole", "writeRole">> =
       <<"insertFree", "readRole", "writeRole">>
  /\ <<"insertFree">> \o <<"readRole", "writeRole", "saveInvoice">> =
       <<"insertFree", "readRole", "writeRole", "saveInvoice">>
  /\ <<"insertFree">> \o <<"readRole", "writeRole", "insertPayment", "openSession">> =
       <<"insertFree", "readRole", "writeRole", "insertPayment", "openSession">>
  /\ StartCheckout =
       <<"expire", "find", "readRole", "writeRole", "insertPayment", "openSession">>
  /\ GetCurrent \o <<>> = GetCurrent
  /\ GetCurrent \o <<"saveInvoice">> =
       <<"expire", "find", "readRole", "writeRole", "saveInvoice">>
  <1>1. <<"insertFree">> \o <<"readRole", "writeRole">> =
        <<"insertFree", "readRole", "writeRole">>
    <2> DEFINE s == <<"insertFree">>
               t == <<"readRole", "writeRole">>
               u == <<"insertFree", "readRole", "writeRole">>
    <2>1. /\ s \in Seq(Statement) /\ Len(s) = 1
          /\ t \in Seq(Statement) /\ Len(t) = 2
          /\ u \in Seq(Statement) /\ Len(u) = 3
      BY DEF Statement
    <2>2. Len(u) = Len(s) + Len(t)
      BY <2>1
    <2>3. \A i \in 1 .. Len(u) : u[i] = IF i <= Len(s) THEN s[i] ELSE t[i - Len(s)]
      BY <2>1
    <2> HIDE DEF s, t, u
    <2>4. s \o t = u
      BY <2>1, <2>2, <2>3, Joined
    <2> QED BY <2>4 DEF s, t, u
  <1>2. <<"insertFree">> \o <<"readRole", "writeRole", "saveInvoice">> =
        <<"insertFree", "readRole", "writeRole", "saveInvoice">>
    <2> DEFINE s == <<"insertFree">>
               t == <<"readRole", "writeRole", "saveInvoice">>
               u == <<"insertFree", "readRole", "writeRole", "saveInvoice">>
    <2>1. /\ s \in Seq(Statement) /\ Len(s) = 1
          /\ t \in Seq(Statement) /\ Len(t) = 3
          /\ u \in Seq(Statement) /\ Len(u) = 4
      BY DEF Statement
    <2>2. Len(u) = Len(s) + Len(t)
      BY <2>1
    <2>3. \A i \in 1 .. Len(u) : u[i] = IF i <= Len(s) THEN s[i] ELSE t[i - Len(s)]
      BY <2>1
    <2> HIDE DEF s, t, u
    <2>4. s \o t = u
      BY <2>1, <2>2, <2>3, Joined
    <2> QED BY <2>4 DEF s, t, u
  <1>3. <<"insertFree">> \o <<"readRole", "writeRole", "insertPayment", "openSession">> =
        <<"insertFree", "readRole", "writeRole", "insertPayment", "openSession">>
    <2> DEFINE s == <<"insertFree">>
               t == <<"readRole", "writeRole", "insertPayment", "openSession">>
               u == <<"insertFree", "readRole", "writeRole", "insertPayment", "openSession">>
    <2>1. /\ s \in Seq(Statement) /\ Len(s) = 1
          /\ t \in Seq(Statement) /\ Len(t) = 4
          /\ u \in Seq(Statement) /\ Len(u) = 5
      BY DEF Statement
    <2>2. Len(u) = Len(s) + Len(t)
      BY <2>1
    <2>3. \A i \in 1 .. Len(u) : u[i] = IF i <= Len(s) THEN s[i] ELSE t[i - Len(s)]
      BY <2>1
    <2> HIDE DEF s, t, u
    <2>4. s \o t = u
      BY <2>1, <2>2, <2>3, Joined
    <2> QED BY <2>4 DEF s, t, u
  <1>4. <<"expire", "find", "readRole", "writeRole">> \o <<"insertPayment", "openSession">> =
        <<"expire", "find", "readRole", "writeRole", "insertPayment", "openSession">>
    <2> DEFINE s == <<"expire", "find", "readRole", "writeRole">>
               t == <<"insertPayment", "openSession">>
               u == <<"expire", "find", "readRole", "writeRole", "insertPayment", "openSession">>
    <2>1. /\ s \in Seq(Statement) /\ Len(s) = 4
          /\ t \in Seq(Statement) /\ Len(t) = 2
          /\ u \in Seq(Statement) /\ Len(u) = 6
      BY DEF Statement
    <2>2. Len(u) = Len(s) + Len(t)
      BY <2>1
    <2>3. \A i \in 1 .. Len(u) : u[i] = IF i <= Len(s) THEN s[i] ELSE t[i - Len(s)]
      BY <2>1
    <2> HIDE DEF s, t, u
    <2>4. s \o t = u
      BY <2>1, <2>2, <2>3, Joined
    <2> QED BY <2>4 DEF s, t, u
  <1>5. <<"expire", "find", "readRole", "writeRole">> \o <<"saveInvoice">> =
        <<"expire", "find", "readRole", "writeRole", "saveInvoice">>
    <2> DEFINE s == <<"expire", "find", "readRole", "writeRole">>
               t == <<"saveInvoice">>
               u == <<"expire", "find", "readRole", "writeRole", "saveInvoice">>
    <2>1. /\ s \in Seq(Statement) /\ Len(s) = 4
          /\ t \in Seq(Statement) /\ Len(t) = 1
          /\ u \in Seq(Statement) /\ Len(u) = 5
      BY DEF Statement
    <2>2. Len(u) = Len(s) + Len(t)
      BY <2>1
    <2>3. \A i \in 1 .. Len(u) : u[i] = IF i <= Len(s) THEN s[i] ELSE t[i - Len(s)]
      BY <2>1
    <2> HIDE DEF s, t, u
    <2>4. s \o t = u
      BY <2>1, <2>2, <2>3, Joined
    <2> QED BY <2>4 DEF s, t, u
  <1>6. GetCurrent \in Seq(Statement)
    BY DEF GetCurrent, Statement
  <1>7. GetCurrent \o <<>> = GetCurrent
    BY <1>6, ConcatEmptySeq
  <1> QED BY <1>1, <1>2, <1>3, <1>4, <1>5, <1>7 DEF StartCheckout, GetCurrent

(* getCurrentSubscriptionForUser goes on within itself.                     *)
LEMMA LookSteps ==
  ASSUME NEW t \in Look, t # <<>>
  PROVE  /\ Head(t) \in {"expire", "find", "insertFree", "readRole", "writeRole"}
         /\ Tail(t) \in Look
         /\ Head(t) = "readRole" => Tail(Tail(t)) \in Look
         /\ Head(t) = "find" => <<"insertFree">> \o Tail(t) \in Look
  <1>1. CASE t = <<"expire", "find", "readRole", "writeRole">>
    BY <1>1, Joins DEF Look
  <1>2. CASE t = <<"find", "readRole", "writeRole">>
    BY <1>2, Joins DEF Look
  <1>3. CASE t = <<"insertFree", "readRole", "writeRole">>
    BY <1>3, Joins DEF Look
  <1>4. CASE t = <<"readRole", "writeRole">>
    BY <1>4, Joins DEF Look
  <1>5. CASE t = <<"writeRole">>
    BY <1>5, Joins DEF Look
  <1> QED BY <1>1, <1>2, <1>3, <1>4, <1>5 DEF Look

(* A checkout goes on to the insertion of its payment.                      *)
LEMMA OpeningSteps ==
  ASSUME NEW t \in Opening
  PROVE  /\ Head(t) \in {"expire", "find", "insertFree", "readRole", "writeRole"} \cup {"insertPayment"}
         /\ Head(t) # "insertPayment" => Tail(t) \in Opening
         /\ Head(t) = "insertPayment" => Tail(t) = <<"openSession">>
         /\ Head(t) = "readRole" => Tail(Tail(t)) \in Opening
         /\ Head(t) = "find" => <<"insertFree">> \o Tail(t) \in Opening
  <1>1. CASE t = <<"expire", "find", "readRole", "writeRole", "insertPayment", "openSession">>
    BY <1>1, Joins DEF Opening
  <1>2. CASE t = <<"find", "readRole", "writeRole", "insertPayment", "openSession">>
    BY <1>2, Joins DEF Opening
  <1>3. CASE t = <<"insertFree", "readRole", "writeRole", "insertPayment", "openSession">>
    BY <1>3, Joins DEF Opening
  <1>4. CASE t = <<"readRole", "writeRole", "insertPayment", "openSession">>
    BY <1>4, Joins DEF Opening
  <1>5. CASE t = <<"writeRole", "insertPayment", "openSession">>
    BY <1>5, Joins DEF Opening
  <1>6. CASE t = <<"insertPayment", "openSession">>
    BY <1>6, Joins DEF Opening
  <1> QED BY <1>1, <1>2, <1>3, <1>4, <1>5, <1>6 DEF Opening

(* The event of an invoice goes on to its row.                              *)
LEMMA InvoicingSteps ==
  ASSUME NEW t \in Invoicing
  PROVE  /\ Head(t) \in {"expire", "find", "insertFree", "readRole", "writeRole"} \cup {"saveInvoice"}
         /\ Head(t) # "saveInvoice" => Tail(t) \in Invoicing
         /\ Head(t) = "saveInvoice" => Tail(t) = <<>>
         /\ Head(t) = "readRole" => Tail(Tail(t)) \in Invoicing
         /\ Head(t) = "find" => <<"insertFree">> \o Tail(t) \in Invoicing
  <1>1. CASE t = <<"expire", "find", "readRole", "writeRole", "saveInvoice">>
    BY <1>1, Joins DEF Invoicing
  <1>2. CASE t = <<"find", "readRole", "writeRole", "saveInvoice">>
    BY <1>2, Joins DEF Invoicing
  <1>3. CASE t = <<"insertFree", "readRole", "writeRole", "saveInvoice">>
    BY <1>3, Joins DEF Invoicing
  <1>4. CASE t = <<"readRole", "writeRole", "saveInvoice">>
    BY <1>4, Joins DEF Invoicing
  <1>5. CASE t = <<"writeRole", "saveInvoice">>
    BY <1>5, Joins DEF Invoicing
  <1>6. CASE t = <<"saveInvoice">>
    BY <1>6, Joins DEF Invoicing
  <1> QED BY <1>1, <1>2, <1>3, <1>4, <1>5, <1>6 DEF Invoicing

(* An activation goes on to the insertion of its row.                       *)
LEMMA ActivatingSteps ==
  ASSUME NEW t \in Activating
  PROVE  /\ Head(t) \in {"expire", "deactivate", "insertPremium"}
         /\ Head(t) # "insertPremium" => Tail(t) \in Activating
         /\ Head(t) = "insertPremium" => Tail(t) = <<"readRole", "writeRole", "link">>
  <1>1. CASE t = <<"expire", "deactivate", "insertPremium", "readRole", "writeRole", "link">>
    BY <1>1 DEF Activating
  <1>2. CASE t = <<"deactivate", "insertPremium", "readRole", "writeRole", "link">>
    BY <1>2 DEF Activating
  <1>3. CASE t = <<"insertPremium", "readRole", "writeRole", "link">>
    BY <1>3 DEF Activating
  <1> QED BY <1>1, <1>2, <1>3 DEF Activating

(* ... and from there to the link.                                          *)
LEMMA LinkingSteps ==
  ASSUME NEW t \in Linking
  PROVE  /\ Head(t) \in {"readRole", "writeRole", "link"}
         /\ Head(t) # "link" => Tail(t) \in Linking
         /\ Head(t) = "link" => Tail(t) = <<>>
         /\ Head(t) = "readRole" => Tail(Tail(t)) \in Linking
  <1>1. CASE t = <<"readRole", "writeRole", "link">>
    BY <1>1 DEF Linking
  <1>2. CASE t = <<"writeRole", "link">>
    BY <1>2 DEF Linking
  <1>3. CASE t = <<"link">>
    BY <1>3 DEF Linking
  <1> QED BY <1>1, <1>2, <1>3 DEF Linking

(* A session is opened, or its payment marked as failed.                    *)
LEMMA OpenedSteps ==
  ASSUME NEW t \in Opened
  PROVE  /\ Head(t) \in {"openSession", "failSession"}
         /\ Tail(t) = <<>>
  <1>1. CASE t = <<"openSession">>
    BY <1>1 DEF Opened
  <1>2. CASE t = <<"failSession">>
    BY <1>2 DEF Opened
  <1> QED BY <1>1, <1>2 DEF Opened

(* A payment is read, and its outcome or reference written.                 *)
LEMMA ResolvingSteps ==
  ASSUME NEW t \in Resolving
  PROVE  /\ Head(t) \in {"readPayment", "noteRef", "settle"}
         /\ Tail(t) = <<>>
         /\ t = <<Head(t)>>
  <1>1. CASE t = <<"readPayment">>
    BY <1>1 DEF Resolving
  <1>2. CASE t = <<"noteRef">>
    BY <1>2 DEF Resolving
  <1>3. CASE t = <<"settle">>
    BY <1>3 DEF Resolving
  <1> QED BY <1>1, <1>2, <1>3 DEF Resolving

(* The subscription of an event is looked up ...                            *)
LEMMA FindingSteps ==
  ASSUME NEW t \in Finding
  PROVE  /\ Head(t) = "findSub"
         /\ t = <<"findSub", "syncSub">> => Tail(t) = <<"syncSub">>
         /\ t = <<"findSub", "syncSub", "saveInvoice">> =>
              Tail(t) = <<"syncSub", "saveInvoice">>
  <1>1. CASE t = <<"findSub", "syncSub">>
    BY <1>1 DEF Finding
  <1>2. CASE t = <<"findSub", "syncSub", "saveInvoice">>
    BY <1>2 DEF Finding
  <1> QED BY <1>1, <1>2 DEF Finding

(* ... and written.                                                         *)
LEMMA SyncingSteps ==
  ASSUME NEW t \in Syncing
  PROVE  /\ Head(t) = "syncSub"
         /\ t = <<"syncSub">> => Tail(t) = <<>>
         /\ t = <<"syncSub", "saveInvoice">> => Tail(t) = <<"saveInvoice">>
  <1>1. CASE t = <<"syncSub">>
    BY <1>1 DEF Syncing
  <1>2. CASE t = <<"syncSub", "saveInvoice">>
    BY <1>2 DEF Syncing
  <1> QED BY <1>1, <1>2 DEF Syncing

(* The classes have nothing in common.                                     *)
LEMMA Apart ==
  /\ Look \cap Opening = {} /\ Look \cap Opened = {} /\ Look \cap Activating = {}
  /\ Look \cap Linking = {} /\ Look \cap Syncing = {} /\ Look \cap Finding = {}
  /\ Look \cap Resolving = {} /\ Look \cap Invoicing = {}
  /\ Opening \cap Opened = {} /\ Opening \cap Activating = {} /\ Opening \cap Linking = {}
  /\ Opening \cap Syncing = {} /\ Opening \cap Finding = {} /\ Opening \cap Resolving = {}
  /\ Opening \cap Invoicing = {}
  /\ Opened \cap Activating = {} /\ Opened \cap Linking = {} /\ Opened \cap Syncing = {}
  /\ Opened \cap Finding = {} /\ Opened \cap Resolving = {} /\ Opened \cap Invoicing = {}
  /\ Activating \cap Linking = {} /\ Activating \cap Syncing = {}
  /\ Activating \cap Finding = {} /\ Activating \cap Resolving = {}
  /\ Activating \cap Invoicing = {}
  /\ Linking \cap Syncing = {} /\ Linking \cap Finding = {} /\ Linking \cap Resolving = {}
  /\ Linking \cap Invoicing = {}
  /\ Syncing \cap Finding = {} /\ Syncing \cap Resolving = {} /\ Syncing \cap Invoicing = {}
  /\ Finding \cap Resolving = {} /\ Finding \cap Invoicing = {}
  /\ Resolving \cap Invoicing = {}
  BY DEF Look, Opening, Opened, Activating, Linking, Syncing, Finding, Resolving, Invoicing

(* They consist of lists of statements.                                    *)
LEMMA Lists ==
  /\ Look \subseteq Seq(Statement) /\ Opening \subseteq Seq(Statement)
  /\ Opened \subseteq Seq(Statement) /\ Activating \subseteq Seq(Statement)
  /\ Linking \subseteq Seq(Statement) /\ Syncing \subseteq Seq(Statement)
  /\ Finding \subseteq Seq(Statement) /\ Resolving \subseteq Seq(Statement)
  /\ Invoicing \subseteq Seq(Statement)
  BY DEF Look, Opening, Opened, Activating, Linking, Syncing, Finding, Resolving,
         Invoicing, Statement

-----------------------------------------------------------------------------
(* How a call goes on                                                      *)

Op == {"none", "status", "checkout"} \cup EventType

(* An event is of a checkout, of a subscription or of an invoice.          *)
LEMMA Events ==
  /\ EventType = CheckoutEvent \cup SubscriptionEvent \cup InvoiceEvent
  /\ {"none", "status", "checkout"} \cap EventType = {}
  /\ CheckoutEvent \cap SubscriptionEvent = {} /\ CheckoutEvent \cap InvoiceEvent = {}
  /\ SubscriptionEvent \cap InvoiceEvent = {}
  BY DEF EventType, CheckoutEvent, SubscriptionEvent, InvoiceEvent

(* The list tells the kind of the operation.                               *)
LEMMA Kinds ==
  ASSUME NEW op \in Op, NEW t, Standing(op, t)
  PROVE  /\ t \in Look \cup Opening \cup Opened \cup Activating \cup Linking \cup Syncing
                    \cup Finding \cup Resolving \cup Invoicing
         /\ t \in Opening \cup Opened => op = "checkout"
         /\ t \in Activating \cup Linking \cup Resolving => op \in CheckoutEvent
         /\ t \in Syncing \cup Finding \cup Invoicing => op \in SubscriptionEvent \cup InvoiceEvent
         /\ t \in Look /\ t # <<>> => op \notin {"none", "checkout"} \cup InvoiceEvent
         /\ op \in SubscriptionEvent /\ t \notin Look => t \notin Invoicing
         /\ op \in SubscriptionEvent /\ t \in Syncing => t = <<"syncSub">>
         /\ op \in InvoiceEvent /\ t \in Syncing => t = <<"syncSub", "saveInvoice">>
         /\ op \in SubscriptionEvent /\ t \in Finding => t = <<"findSub", "syncSub">>
         /\ op \in InvoiceEvent /\ t \in Finding => t = <<"findSub", "syncSub", "saveInvoice">>
  <1>1. <<>> \in Look
    BY DEF Look
  <1>2. <<"findSub", "syncSub">> \in Finding /\ <<"findSub", "syncSub", "saveInvoice">> \in Finding
    BY DEF Finding
  <1>3. <<"syncSub">> \in Syncing /\ <<"syncSub", "saveInvoice">> \in Syncing
    BY DEF Syncing
  <1>4. CASE op \in {"none", "status", "checkout"}
    BY <1>1, <1>4, Events, Apart DEF Standing
  <1>5. CASE op \in CheckoutEvent
    BY <1>1, <1>5, Events, Apart DEF Standing
  <1>6. CASE op \in SubscriptionEvent
    BY <1>1, <1>2, <1>3, <1>6, Events, Apart DEF Standing
  <1>7. CASE op \in InvoiceEvent
    BY <1>1, <1>2, <1>3, <1>7, Events, Apart DEF Standing
  <1> QED BY <1>4, <1>5, <1>6, <1>7, Events DEF Op

(* What the invariant asks of the one list, it asks of the other as well.  *)
Alike(t, u) ==
  /\ u \in Seq(Statement)
  /\ u \in Opening => t \in Opening
  /\ u \in Opened => t \in Opened
  /\ u \in Activating => t \in Activating
  /\ u \in Linking => t \in Linking
  /\ u \in Syncing => t \in Syncing
  /\ u = <<"settle">> => t = <<"settle">>

(* Within a class, a call stands where it may, and owes nothing new.       *)
LEMMA Keeps ==
  ASSUME NEW op \in Op, NEW t, NEW u, Standing(op, t), t # <<>>,
         \/ t \in Look /\ u \in Look
         \/ t \in Opening /\ u \in Opening
         \/ t \in Opened /\ u \in Opened
         \/ t \in Activating /\ u \in Activating
         \/ t \in Linking /\ u \in Linking
         \/ t \in Invoicing /\ u \in Invoicing
  PROVE  Standing(op, u) /\ Alike(t, u)
  <1>1. <<"settle">> \in Resolving
    BY DEF Resolving
  <1>2. Alike(t, u)
    BY <1>1, Apart, Lists DEF Alike
  <1>3. Standing(op, u)
    BY Kinds, Apart, Events DEF Standing, Op
  <1> QED BY <1>2, <1>3

(* The statements that leave a call within its class.                      *)
LEMMA Within ==
  ASSUME NEW op \in Op, NEW t, Standing(op, t), t # <<>>,
         Head(t) \in {"expire", "find", "insertFree", "readRole", "writeRole", "deactivate"}
  PROVE  /\ Standing(op, Tail(t)) /\ Alike(t, Tail(t))
         /\ Head(t) = "readRole" => /\ Standing(op, Tail(Tail(t)))
                                    /\ Alike(t, Tail(Tail(t)))
         /\ Head(t) = "find" => /\ Standing(op, <<"insertFree">> \o Tail(t))
                                /\ Alike(t, <<"insertFree">> \o Tail(t))
  <1>1. CASE t \in Look
    BY <1>1, LookSteps, Keeps
  <1>2. CASE t \in Opening
    BY <1>2, OpeningSteps, Keeps
  <1>3. CASE t \in Activating
    BY <1>3, ActivatingSteps, Keeps
  <1>4. CASE t \in Linking
    BY <1>4, LinkingSteps, Keeps
  <1>5. CASE t \in Invoicing
    BY <1>5, InvoicingSteps, Keeps
  <1>6. t \notin Opened \cup Syncing \cup Finding \cup Resolving
    BY OpenedSteps, SyncingSteps, FindingSteps, ResolvingSteps
  <1> QED BY <1>1, <1>2, <1>3, <1>4, <1>5, <1>6, Kinds

(* The other statements tell where the call stands.                        *)
LEMMA Where ==
  ASSUME NEW op \in Op, NEW t, Standing(op, t), t # <<>>
  PROVE  /\ Head(t) = "insertPayment" => t \in Opening
         /\ Head(t) \in {"openSession", "failSession"} => t \in Opened
         /\ Head(t) \in {"readPayment", "noteRef", "settle"} => t \in Resolving
         /\ Head(t) = "insertPremium" => t \in Activating
         /\ Head(t) = "link" => t \in Linking
         /\ Head(t) = "findSub" => t \in Finding
         /\ Head(t) = "syncSub" => t \in Syncing
         /\ Head(t) = "saveInvoice" => t \in Invoicing
  BY Kinds, LookSteps, OpeningSteps, OpenedSteps, ActivatingSteps, LinkingSteps,
     SyncingSteps, FindingSteps, ResolvingSteps, InvoicingSteps

(* A call that has nothing left to do owes nothing, whatever it serves.    *)
LEMMA Done ==
  /\ <<>> \in Seq(Statement)
  /\ <<>> \notin Opening \cup Opened \cup Activating \cup Linking \cup Syncing
                  \cup Finding \cup Resolving \cup Invoicing
  /\ \A op \in Op : Standing(op, <<>>)
  <1>1. <<>> \in Look
    BY DEF Look
  <1>2. \A op \in Op : Standing(op, <<>>)
    BY <1>1, Events DEF Standing, Op
  <1> QED BY <1>1, <1>2, Apart, Lists

-----------------------------------------------------------------------------
(* Steps that do nothing the invariant speaks of                           *)

SubscriptionRow ==
  [plan : {"FREE", "PREMIUM"}, status : {"ACTIVE", "INACTIVE", "CANCELED", "EXPIRED"},
   until : Int, ref : Checkout \cup {"none"}]

PaymentRow ==
  [status : {"none", "PENDING", "SUCCEEDED", "FAILED", "CANCELED"}, ref : BOOLEAN, sub : Nat]

(* The rows stay what they are, but for their status and their end, and    *)
(* new ones are of the plan FREE.                                          *)
PlansStay ==
  /\ subs' \in Seq(SubscriptionRow)
  /\ DOMAIN subs \subseteq DOMAIN subs'
  /\ \A i \in DOMAIN subs : subs'[i].plan = subs[i].plan /\ subs'[i].ref = subs[i].ref
  /\ \A i \in DOMAIN subs' \ DOMAIN subs : subs'[i].plan = "FREE"

PaymentsStay ==
  /\ payment' \in [Checkout -> PaymentRow]
  /\ \A p \in Checkout : /\ payment'[p].status = payment[p].status
                         /\ payment'[p].sub = payment[p].sub

(* What call c may become without a further obligation.                    *)
GoesOn(c, r) ==
  LET t == call[c].todo
  IN  /\ r \in CallType /\ r.sub \in 0 .. Len(subs)
      /\ Standing(r.op, r.todo)
      /\ \/ r.op = call[c].op /\ r.on = call[c].on
         \/ r.op \in {"none", "status"} /\ r.on = "none"
      /\ r.todo \in Opening => t \in Opening
      /\ r.todo \in Opened => t \in Opened
      /\ r.todo \in Activating => t \in Activating
      /\ r.todo \in Linking => t \in Linking /\ r.sub = call[c].sub
      /\ r.todo \in Syncing => r.sub \in DOMAIN subs /\ subs[r.sub].ref = r.on
      /\ r.todo = <<"settle">> =>
           /\ Resolution(r.op) # "PENDING"
           /\ Resolution(r.op) = "SUCCEEDED" => payment[r.on].status # "SUCCEEDED"
      /\ r.plan = "PREMIUM" => Premium # {}

(* A sequence has the indices 1 to its length.                             *)
LEMMA Indices ==
  ASSUME NEW S, NEW s \in Seq(S)
  PROVE  Len(s) \in Nat /\ DOMAIN s = 1 .. Len(s) /\ \A i \in 1 .. Len(s) : s[i] \in S
  OBVIOUS

(* The PREMIUM rows are the same, and all rows are still there.            *)
LEMMA SamePremium ==
  ASSUME subs \in Seq(SubscriptionRow), PlansStay
  PROVE  /\ Premium' = Premium
         /\ Len(subs) \in Nat /\ Len(subs') \in Nat /\ Len(subs) <= Len(subs')
         /\ Premium \subseteq DOMAIN subs /\ DOMAIN subs = 1 .. Len(subs)
  <1>1. /\ Len(subs) \in Nat /\ DOMAIN subs = 1 .. Len(subs)
        /\ Len(subs') \in Nat /\ DOMAIN subs' = 1 .. Len(subs')
    BY Indices DEF PlansStay
  <1>2. Len(subs) <= Len(subs')
    BY <1>1 DEF PlansStay
  <1>3. Premium' = Premium
    BY DEF Premium, PlansStay
  <1> QED BY <1>1, <1>2, <1>3 DEF Premium

(* Whatever else a step does, as long as no payment changes its status or  *)
(* its link, no PREMIUM row appears and nothing new is owed, the invariant *)
(* is kept.                                                                *)
LEMMA Ordinary ==
  ASSUME IInv, NEW c \in Call, NEW r, GoesOn(c, r), call' = [call EXCEPT ![c] = r],
         PlansStay, PaymentsStay,
         role' \in {"USER", "PREMIUM", "ADMIN", "SPECIALIST"},
         role' = "PREMIUM" /\ "PREMIUM" \notin Roles => Premium # {},
         invoices' \subseteq Checkout \X EventType,
         sent' \subseteq sent, processed' = processed, stripe' = stripe, now' = now
  PROVE  IInv'
  <1>1. /\ call \in [Call -> CallType] /\ call' \in [Call -> CallType]
        /\ call'[c] = r /\ \A d \in Call \ {c} : call'[d] = call[d]
    BY DEF IInv, Typed, GoesOn
  <1>2. /\ subs \in Seq(SubscriptionRow) /\ payment \in [Checkout -> PaymentRow]
        /\ \A p \in Checkout : payment[p].sub \in 0 .. Len(subs)
        /\ \A d \in Call : call[d].sub \in 0 .. Len(subs)
    BY DEF IInv, Typed, TypeOK, SubscriptionRow, PaymentRow
  <1>3. /\ Premium' = Premium /\ Premium \subseteq DOMAIN subs
        /\ Len(subs) \in Nat /\ Len(subs') \in Nat /\ Len(subs) <= Len(subs')
        /\ DOMAIN subs = 1 .. Len(subs)
    BY <1>2, SamePremium
  <1>4. /\ \A d \in Call : call[d].op \in Op /\ Standing(call[d].op, call[d].todo)
        /\ r.op \in Op /\ Standing(r.op, r.todo)
    BY DEF IInv, Typed, Control, CallType, Op, GoesOn
  <1>5. Typed'
    <2>1. payment' \in [Checkout ->
            [status : {"none", "PENDING", "SUCCEEDED", "FAILED", "CANCELED"},
             ref : BOOLEAN, sub : 0 .. Len(subs')]]
      <3>1. \A p \in Checkout : payment'[p].sub \in 0 .. Len(subs')
        BY <1>2, <1>3 DEF PaymentsStay
      <3> QED BY <3>1 DEF PaymentsStay, PaymentRow
    <2>2. \A d \in Call : call'[d].todo \in Seq(Statement) /\ call'[d].sub \in 0 .. Len(subs')
      BY <1>1, <1>2, <1>3 DEF IInv, Typed, TypeOK, GoesOn, CallType
    <2>3. TypeOK'
      BY <2>1, <2>2 DEF IInv, Typed, TypeOK, PlansStay, SubscriptionRow, Call
    <2> QED BY <1>1, <2>3 DEF IInv, Typed
  <1>6. Control'
    <2> SUFFICES ASSUME NEW d \in Call
                 PROVE  /\ Standing(call'[d].op, call'[d].todo)
                        /\ call'[d].op \notin {"none", "status"} => call'[d].on \in Checkout
                        /\ call'[d].op \in {"none", "status"} => call'[d].on = "none"
                        /\ OfEvent(d)' => d \in Hook /\ EventOf(d)' \in processed'
      BY DEF Control, Call
    <2>1. CASE d # c
      BY <1>1, <2>1 DEF IInv, Control, OfEvent, EventOf
    <2>2. CASE d = c
      BY <1>1, <2>2, Events DEF IInv, Control, OfEvent, EventOf, GoesOn
    <2> QED BY <2>1, <2>2
  <1>7. EventsFit'
    <2>1. \A p, type : Fits(p, type)' = Fits(p, type)
      BY DEF Fits, Charged
    <2>2. \A d \in Call : OfEvent(d)' =>
            OfEvent(d) /\ call'[d].on = call[d].on /\ call'[d].op = call[d].op
      BY <1>1, Events DEF OfEvent, GoesOn
    <2> QED BY <2>1, <2>2 DEF IInv, EventsFit, Call
  <1>8. SuccessIsToldOnce'
    <2>1. \A d \in Call : OfEvent(d)' =>
            OfEvent(d) /\ call'[d].on = call[d].on /\ call'[d].op = call[d].op
      BY <1>1, Events DEF OfEvent, GoesOn
    <2>2. \A p \in Checkout, type \in EventType : Told(p, type)' => Told(p, type)
      BY <2>1 DEF Told, OfEvent, Call
    <2>3. {"completed", "async_succeeded"} \subseteq EventType
      BY DEF EventType
    <2>4. \A p \in Checkout : ~ (Told(p, "completed")' /\ Told(p, "async_succeeded")')
      BY <2>2, <2>3 DEF IInv, SuccessIsToldOnce
    <2>5. \A d, e \in Call :
            d # e /\ OfEvent(d)' /\ call'[d].op = call'[e].op => call'[d].on # call'[e].on
      <3>1. \A d, e \in Call : OfEvent(d)' /\ call'[d].op = call'[e].op => OfEvent(e)'
        BY DEF OfEvent
      <3> QED BY <2>1, <3>1 DEF IInv, SuccessIsToldOnce
    <2> QED BY <2>4, <2>5 DEF SuccessIsToldOnce, Call
  <1>9. Openings'
    <2>1. \A d \in Call : call'[d].todo \in Opening =>
            call[d].todo \in Opening /\ call'[d].on = call[d].on /\ call[d].on \in Checkout
      BY <1>1, <1>4, Kinds, Events DEF GoesOn, IInv, Control
    <2>2. \A d \in Call : call'[d].todo \in Opened =>
            call[d].todo \in Opened /\ call'[d].on = call[d].on /\ call[d].on \in Checkout
      BY <1>1, <1>4, Kinds, Events DEF GoesOn, IInv, Control
    <2>3. \A d \in Call : call'[d].on \in {call[d].on, "none"}
      BY <1>1 DEF GoesOn
    <2>4. "none" \notin Checkout
      BY BillingAssumption
    <2>5. ASSUME NEW d \in Call, call'[d].todo \in Opening \cup Opened
          PROVE  /\ stripe'[call'[d].on] = "none"
                 /\ payment'[call'[d].on].status =
                      IF call'[d].todo \in Opening THEN "none" ELSE "PENDING"
                 /\ \A e \in Call \ {d} : call'[e].on # call'[d].on
      BY <2>1, <2>2, <2>3, <2>4, <2>5, Apart DEF IInv, Openings, PaymentsStay
    <2> QED BY <2>5 DEF IInv, Openings, PaymentsStay, Call
  <1>10. PaymentsAgree'
    BY DEF IInv, PaymentsAgree, PaymentsStay, Charged
  <1>11. Settlings'
    <2>1. \A d \in Call : call'[d].todo = <<"settle">> /\ d # c => call[d].todo = <<"settle">>
      BY <1>1
    <2>2. <<"settle">> \in Resolving
      BY DEF Resolving
    <2>3. ASSUME NEW d \in Call, call'[d].todo = <<"settle">>
          PROVE  /\ Resolution(call'[d].op) # "PENDING"
                 /\ Resolution(call'[d].op) = "SUCCEEDED" =>
                      payment'[call'[d].on].status # "SUCCEEDED"
      <3>1. call'[d].op \in CheckoutEvent /\ call'[d].on \in Checkout
        BY <1>1, <1>4, <1>6, <2>2, <2>3, Kinds, Events DEF Control
      <3> QED BY <1>1, <2>3, <3>1 DEF IInv, Settlings, GoesOn, PaymentsStay
    <2>4. ASSUME NEW d \in Call, call'[d].todo \in Activating
          PROVE  /\ Resolution(call'[d].op) = "SUCCEEDED"
                 /\ payment'[call'[d].on].status = "SUCCEEDED"
      <3>1. call'[d].op \in CheckoutEvent /\ call'[d].on \in Checkout
        BY <1>1, <1>4, <1>6, <2>4, Kinds, Events DEF Control
      <3>2. call[d].todo \in Activating /\ call'[d].op = call[d].op /\ call'[d].on = call[d].on
        BY <1>1, <2>4, <3>1, Events DEF GoesOn
      <3> QED BY <3>1, <3>2 DEF IInv, Settlings, PaymentsStay
    <2> QED BY <2>3, <2>4 DEF Settlings, Call
  <1>12. EachIsBought'
    <2>1. PICK f \in [Premium -> Checkout] : Buys(f)
      BY DEF IInv, EachIsBought
    <2>2. \A d \in Call : call'[d].todo \in Activating =>
            call[d].todo \in Activating /\ call'[d].on = call[d].on
      BY <1>1, <1>4, Kinds, Events DEF GoesOn
    <2>3. Buys(f)'
      BY <1>3, <2>1, <2>2 DEF Buys, PaymentsStay, Call
    <2> QED BY <1>3, <2>1, <2>3 DEF EachIsBought
  <1>13. Linkings'
    <2>1. \A d \in Call : call'[d].todo \in Linking =>
            /\ call[d].todo \in Linking
            /\ call'[d].on = call[d].on /\ call'[d].sub = call[d].sub
      BY <1>1, <1>4, Kinds, Events DEF GoesOn
    <2>2. ASSUME NEW d \in Call, call'[d].todo \in Linking
          PROVE  /\ call'[d].sub \in Premium'
                 /\ subs'[call'[d].sub].ref \in {call'[d].on, "none"}
                 /\ \A q \in Checkout : payment'[q].sub # call'[d].sub
                 /\ \A e \in Call \ {d} : call'[e].todo \in Linking => call'[e].sub # call'[d].sub
      BY <1>3, <2>1, <2>2 DEF IInv, Linkings, PlansStay, PaymentsStay
    <2> QED BY <2>2 DEF Linkings, Call
  <1>14. Links'
    BY <1>3 DEF IInv, Links, PlansStay, PaymentsStay
  <1>15. Plans'
    <2>1. \A d \in Call : call'[d].plan = "PREMIUM" => Premium # {}
      BY <1>1 DEF IInv, Plans, GoesOn
    <2>2. \A d \in Call : call'[d].todo \in Syncing =>
            call'[d].sub \in DOMAIN subs' /\ subs'[call'[d].sub].ref = call'[d].on
      BY <1>1 DEF IInv, Plans, GoesOn, PlansStay
    <2> QED BY <1>3, <2>1, <2>2 DEF Plans, Call
  <1> QED BY <1>5, <1>6, <1>7, <1>8, <1>9, <1>10, <1>11, <1>12, <1>13, <1>14, <1>15 DEF IInv

(* A call that only gets on with its list goes on without new obligations. *)
LEMMA Along ==
  ASSUME IInv, NEW c \in Call, NEW u,
         Standing(call[c].op, u), Alike(call[c].todo, u)
  PROVE  GoesOn(c, [call[c] EXCEPT !.todo = u])
  <1> DEFINE r == [call[c] EXCEPT !.todo = u]
  <1>1. call[c] \in CallType /\ call[c].sub \in 0 .. Len(subs)
    BY DEF IInv, Typed, TypeOK
  <1>2. /\ r \in CallType /\ r.todo = u
        /\ r.op = call[c].op /\ r.on = call[c].on /\ r.sub = call[c].sub /\ r.plan = call[c].plan
    BY <1>1 DEF CallType, Alike
  <1>3. u = <<"settle">> =>
          /\ Resolution(r.op) # "PENDING"
          /\ Resolution(r.op) = "SUCCEEDED" => payment[r.on].status # "SUCCEEDED"
    BY <1>2 DEF IInv, Settlings, Alike
  <1>4. /\ u \in Syncing => r.sub \in DOMAIN subs /\ subs[r.sub].ref = r.on
        /\ r.plan = "PREMIUM" => Premium # {}
    BY <1>2 DEF IInv, Plans, Alike
  <1> HIDE DEF r
  <1>5. GoesOn(c, r)
    BY <1>1, <1>2, <1>3, <1>4 DEF GoesOn, Alike
  <1> QED BY <1>5 DEF r

(* What is left alone stays.                                               *)
LEMMA Left ==
  ASSUME IInv
  PROVE  /\ UNCHANGED subs => PlansStay
         /\ UNCHANGED payment => PaymentsStay
         /\ role = "PREMIUM" /\ "PREMIUM" \notin Roles => Premium # {}
         /\ role \in {"USER", "PREMIUM", "ADMIN", "SPECIALIST"}
         /\ invoices \subseteq Checkout \X EventType
         /\ subs \in Seq(SubscriptionRow) /\ payment \in [Checkout -> PaymentRow]
  <1>1. subs \in Seq(SubscriptionRow) /\ payment \in [Checkout -> PaymentRow]
    BY DEF IInv, Typed, TypeOK, SubscriptionRow, PaymentRow
  <1>2. UNCHANGED subs => PlansStay
    BY <1>1 DEF PlansStay
  <1>3. UNCHANGED payment => PaymentsStay
    BY <1>1 DEF PaymentsStay
  <1> QED BY <1>1, <1>2, <1>3 DEF IInv, Plans, Typed, TypeOK

(* What is known of a call that has something to do.                       *)
LEMMA Known ==
  ASSUME IInv, NEW c \in Call
  PROVE  /\ call[c] \in CallType /\ call[c].op \in Op
         /\ Standing(call[c].op, call[c].todo)
         /\ call[c].todo \in Seq(Statement)
         /\ call[c].sub \in 0 .. Len(subs)
         /\ call[c].op \notin {"none", "status"} => call[c].on \in Checkout
         /\ call[c].op \in {"none", "status"} => call[c].on = "none"
         /\ OfEvent(c) => /\ Fits(call[c].on, call[c].op)
                          /\ c \in Hook /\ EventOf(c) \in processed
  BY DEF IInv, Typed, TypeOK, Control, EventsFit, CallType, Op

-----------------------------------------------------------------------------
(* getCurrentSubscriptionForUser                                           *)

(* Rows that change their status and their end only keep their plans.      *)
LEMMA Rewritten ==
  ASSUME subs \in Seq(SubscriptionRow), subs' \in [DOMAIN subs -> SubscriptionRow],
         \A i \in DOMAIN subs : subs'[i].plan = subs[i].plan /\ subs'[i].ref = subs[i].ref
  PROVE  PlansStay
  <1>1. Len(subs) \in Nat /\ DOMAIN subs = 1 .. Len(subs)
    BY Indices
  <1>2. subs' \in Seq(SubscriptionRow)
    BY <1>1
  <1> QED BY <1>2 DEF PlansStay

(* A row that expires keeps its plan and its link.                         *)
LEMMA ExpireStaleKeeps ==
  ASSUME IInv, NEW c \in Call, ExpireStale(c)
  PROVE  IInv'
  <1>1. /\ Standing(call[c].op, Rest(c)) /\ Alike(call[c].todo, Rest(c))
    BY Known, Within DEF ExpireStale, At, Rest
  <1>2. \A i \in DOMAIN subs : subs[i] \in SubscriptionRow
    BY Left, Indices
  <1>3. PlansStay
    <2>1. subs' \in [DOMAIN subs -> SubscriptionRow]
      BY <1>2 DEF ExpireStale, SubscriptionRow
    <2>2. \A i \in DOMAIN subs : subs'[i].plan = subs[i].plan /\ subs'[i].ref = subs[i].ref
      BY <1>2 DEF ExpireStale, SubscriptionRow
    <2> QED BY <2>1, <2>2, Rewritten, Left
  <1>4. call' = [call EXCEPT ![c] = [call[c] EXCEPT !.todo = Rest(c)]]
    BY DEF ExpireStale, Goes
  <1> QED BY <1>1, <1>3, <1>4, Along, Left, Ordinary DEF ExpireStale

(* Reading the role only shortens the list.                                *)
LEMMA ReadRoleKeeps ==
  ASSUME IInv, NEW c \in Call, ReadRole(c)
  PROVE  IInv'
  <1> DEFINE u == IF role \in {"ADMIN", "SPECIALIST", RoleFor(call[c].plan)}
                  THEN Tail(Rest(c)) ELSE Rest(c)
  <1>1. Standing(call[c].op, u) /\ Alike(call[c].todo, u)
    BY Known, Within DEF ReadRole, At, Rest
  <1>2. call' = [call EXCEPT ![c] = [call[c] EXCEPT !.todo = u]]
    BY DEF ReadRole, Goes
  <1> HIDE DEF u
  <1> QED BY <1>1, <1>2, Along, Left, Ordinary DEF ReadRole

(* The role PREMIUM is written for a plan the call has seen.               *)
LEMMA WriteRoleKeeps ==
  ASSUME IInv, NEW c \in Call, WriteRole(c)
  PROVE  IInv'
  <1>1. Standing(call[c].op, Rest(c)) /\ Alike(call[c].todo, Rest(c))
    BY Known, Within DEF WriteRole, At, Rest
  <1>2. call' = [call EXCEPT ![c] = [call[c] EXCEPT !.todo = Rest(c)]]
    BY DEF WriteRole, Goes
  <1>3. /\ role' \in {"USER", "PREMIUM", "ADMIN", "SPECIALIST"}
        /\ role' = "PREMIUM" => Premium # {}
    BY DEF WriteRole, RoleFor, IInv, Plans
  <1> QED BY <1>1, <1>2, <1>3, Along, Left, Ordinary DEF WriteRole

(* A set of rows has a newest one.                                         *)
LEMMA NewestIsOne ==
  ASSUME subs \in Seq(SubscriptionRow), NEW I \in SUBSET DOMAIN subs, I # {}
  PROVE  Newest(I) \in I /\ \A k \in I : k <= Newest(I)
  <1> DEFINE n == Len(subs)
             J == {n - i : i \in I}
  <1>1. n \in Nat /\ DOMAIN subs = 1 .. n
    BY Indices
  <1>2. J \in SUBSET Nat /\ J # {}
    BY <1>1
  <1>3. PICK j \in J : \A k \in J : ~ (<<k, j>> \in OpToRel(<, Nat))
    BY <1>2, NatLessThanWellFounded, WFMin
  <1>4. \A a, b \in Nat : <<a, b>> \in OpToRel(<, Nat) <=> a < b
    BY DEF OpToRel
  <1>5. ASSUME NEW k \in J PROVE j <= k
    <2>1. j \in Nat /\ k \in Nat /\ ~ (k < j)
      BY <1>2, <1>3, <1>4
    <2> QED BY <2>1
  <1>6. PICK i \in I : j = n - i
    BY <1>3
  <1>7. ASSUME NEW k \in I PROVE k <= i
    <2>1. n - k \in J /\ i \in Nat /\ k \in Nat
      BY <1>1
    <2>2. j <= n - k
      BY <1>5, <2>1
    <2> QED BY <1>1, <1>6, <2>1, <2>2
  <1> QED BY <1>7 DEF Newest

(* A call that finds the plan PREMIUM has seen such a row.                 *)
LEMMA FindCurrentKeeps ==
  ASSUME IInv, NEW c \in Call, FindCurrent(c)
  PROVE  IInv'
  <1> DEFINE u == IF CurrentSubs = {} THEN <<"insertFree">> \o Rest(c) ELSE Rest(c)
             plan == IF CurrentSubs = {} THEN "FREE" ELSE subs[Newest(CurrentSubs)].plan
             r == [call[c] EXCEPT !.todo = u, !.plan = plan]
  <1>1. Standing(call[c].op, u) /\ Alike(call[c].todo, u)
    BY Known, Within DEF FindCurrent, At, Rest
  <1>2. call' = [call EXCEPT ![c] = r]
    BY DEF FindCurrent
  <1>3. plan \in {"FREE", "PREMIUM"} /\ (plan = "PREMIUM" => Premium # {})
    <2>1. CASE CurrentSubs = {}
      BY <2>1
    <2>2. CASE CurrentSubs # {}
      <3>1. Newest(CurrentSubs) \in DOMAIN subs
        BY <2>2, NewestIsOne, Left DEF CurrentSubs, ActiveSubs
      <3>2. subs[Newest(CurrentSubs)] \in SubscriptionRow
        BY <3>1, Left, Indices
      <3> QED BY <2>2, <3>1, <3>2 DEF SubscriptionRow, Premium
    <2> QED BY <2>1, <2>2
  <1>4. GoesOn(c, r)
    <2> HIDE DEF u, plan
    <2>1. GoesOn(c, [call[c] EXCEPT !.todo = u])
      BY <1>1, Along
    <2> DEFINE s == [call[c] EXCEPT !.todo = u]
    <2>2. s \in CallType /\ call[c] \in CallType
      BY <2>1, Known DEF GoesOn
    <2>3. /\ r \in CallType /\ r.plan = plan
          /\ r.op = s.op /\ r.on = s.on /\ r.todo = s.todo /\ r.sub = s.sub
      BY <1>3, <2>2 DEF CallType
    <2> HIDE DEF r, s
    <2>4. GoesOn(c, s)
      BY <2>1 DEF s
    <2> QED BY <1>3, <2>3, <2>4 DEF GoesOn
  <1> HIDE DEF r
  <1> QED BY <1>2, <1>4, Left, Ordinary DEF FindCurrent

(* A new row of the plan FREE, or of PREMIUM, is a row.                    *)
LEMMA Appended ==
  ASSUME subs \in Seq(SubscriptionRow), NEW r \in SubscriptionRow, subs' = Append(subs, r)
  PROVE  /\ Len(subs) \in Nat /\ Len(subs') = Len(subs) + 1
         /\ DOMAIN subs = 1 .. Len(subs) /\ DOMAIN subs' = 1 .. Len(subs) + 1
         /\ subs' \in Seq(SubscriptionRow)
         /\ \A i \in DOMAIN subs : subs'[i] = subs[i]
         /\ subs'[Len(subs) + 1] = r
  <1>1. Len(subs) \in Nat /\ DOMAIN subs = 1 .. Len(subs)
    BY Indices
  <1> QED BY <1>1, AppendProperties

(* A new row of the plan FREE buys nothing.                                *)
LEMMA InsertFreeKeeps ==
  ASSUME IInv, NEW c \in Call, InsertFree(c)
  PROVE  IInv'
  <1> DEFINE r == [plan |-> "FREE", status |-> "ACTIVE", until |-> Never, ref |-> "none"]
  <1>1. Standing(call[c].op, Rest(c)) /\ Alike(call[c].todo, Rest(c))
    BY Known, Within DEF InsertFree, At, Rest
  <1>2. call' = [call EXCEPT ![c] = [call[c] EXCEPT !.todo = Rest(c)]]
    BY DEF InsertFree, Goes
  <1>3. r \in SubscriptionRow /\ r.plan = "FREE" /\ subs' = Append(subs, r)
    BY DEF SubscriptionRow, Never, InsertFree
  <1> HIDE DEF r
  <1>4. /\ Len(subs) \in Nat
        /\ DOMAIN subs = 1 .. Len(subs) /\ DOMAIN subs' = 1 .. Len(subs) + 1
        /\ subs' \in Seq(SubscriptionRow)
        /\ \A i \in DOMAIN subs : subs'[i] = subs[i]
        /\ subs'[Len(subs) + 1] = r
    BY <1>3, Appended, Left
  <1>5. PlansStay
    BY <1>3, <1>4 DEF PlansStay
  <1> QED BY <1>1, <1>2, <1>5, Along, Left, Ordinary DEF InsertFree

-----------------------------------------------------------------------------
(* applyResolutionToPayment, up to the outcome                             *)

(* A call settles a payment as paid only if it had not succeeded.          *)
LEMMA ReadPaymentKeeps ==
  ASSUME IInv, NEW c \in Call, ReadPayment(c)
  PROVE  IInv'
  <1> DEFINE row == payment[call[c].on]
             u == IF row.status = "SUCCEEDED" THEN GetCurrent
                  ELSE IF Resolution(call[c].op) = "PENDING" THEN <<"noteRef">>
                  ELSE <<"settle">>
             ref == NamesSubscription(call[c].op) \/ row.ref
             r == [call[c] EXCEPT !.todo = u, !.ref = ref]
  <1>1. call[c].op \in CheckoutEvent
    BY Known, Where, Kinds DEF ReadPayment, At
  <1>2. call[c].on \in Checkout
    BY <1>1, Known, Events
  <1>3. u \in Look \cup Resolving
    BY DEF GetCurrent, Look, Resolving
  <1>4. u = <<"settle">> => /\ Resolution(call[c].op) # "PENDING"
                            /\ row.status # "SUCCEEDED"
    <2>1. GetCurrent # <<"settle">> /\ <<"noteRef">> # <<"settle">>
      BY DEF GetCurrent
    <2> QED BY <2>1
  <1>5. ref \in BOOLEAN
    BY <1>2, Left DEF NamesSubscription, PaymentRow
  <1>6. call' = [call EXCEPT ![c] = r]
    BY DEF ReadPayment
  <1> HIDE DEF u, ref
  <1>7. call[c] \in CallType /\ call[c].sub \in 0 .. Len(subs)
    BY Known
  <1>8. u \in Seq(Statement)
    BY <1>3, Lists
  <1>9. /\ r \in CallType /\ r.op = call[c].op /\ r.on = call[c].on
        /\ r.todo = u /\ r.sub = call[c].sub /\ r.plan = call[c].plan
    BY <1>5, <1>7, <1>8 DEF CallType
  <1> HIDE DEF r
  <1>10. Standing(call[c].op, u)
    BY <1>1, <1>3, Events DEF Standing
  <1>11. u \notin Opening \cup Opened \cup Activating \cup Linking \cup Syncing
    BY <1>3, Apart
  <1>12. r.plan = "PREMIUM" => Premium # {}
    BY <1>9 DEF IInv, Plans
  <1>13. GoesOn(c, r)
    BY <1>4, <1>7, <1>9, <1>10, <1>11, <1>12 DEF GoesOn
  <1> QED BY <1>6, <1>13, Left, Ordinary DEF ReadPayment

(* A call that is finished with its list goes on.                          *)
LEMMA Finished ==
  ASSUME IInv, NEW c \in Call
  PROVE  Standing(call[c].op, <<>>) /\ Alike(call[c].todo, <<>>)
  <1>1. <<>> # <<"settle">>
    OBVIOUS
  <1> QED BY <1>1, Done, Known DEF Alike

(* The name of the subscription is no part of what is promised.            *)
LEMMA NoteRefKeeps ==
  ASSUME IInv, NEW c \in Call, NoteRef(c)
  PROVE  IInv'
  <1>1. call[c].op \in CheckoutEvent /\ Rest(c) = <<>>
    BY Known, Where, Kinds, ResolvingSteps DEF NoteRef, At, Rest
  <1>2. call[c].on \in Checkout /\ call[c].ref \in BOOLEAN
    BY <1>1, Known, Events DEF CallType
  <1>3. PaymentsStay
    BY <1>2, Left DEF NoteRef, PaymentsStay, PaymentRow
  <1>4. call' = [call EXCEPT ![c] = [call[c] EXCEPT !.todo = <<>>]]
    BY <1>1 DEF NoteRef, Goes
  <1> QED BY <1>3, <1>4, Finished, Along, Left, Ordinary DEF NoteRef

(* A row that is deactivated keeps its plan and its link.                  *)
LEMMA DeactivateKeeps ==
  ASSUME IInv, NEW c \in Call, Deactivate(c)
  PROVE  IInv'
  <1>1. Standing(call[c].op, Rest(c)) /\ Alike(call[c].todo, Rest(c))
    BY Known, Within DEF Deactivate, At, Rest
  <1>2. \A i \in DOMAIN subs : subs[i] \in SubscriptionRow
    BY Left, Indices
  <1>3. subs' \in [DOMAIN subs -> SubscriptionRow]
    BY <1>2 DEF Deactivate, SubscriptionRow
  <1>4. \A i \in DOMAIN subs : subs'[i].plan = subs[i].plan /\ subs'[i].ref = subs[i].ref
    BY <1>2 DEF Deactivate, SubscriptionRow
  <1>5. PlansStay
    BY <1>3, <1>4, Rewritten, Left
  <1>6. call' = [call EXCEPT ![c] = [call[c] EXCEPT !.todo = Rest(c)]]
    BY DEF Deactivate, Goes
  <1> QED BY <1>1, <1>5, <1>6, Along, Left, Ordinary DEF Deactivate

-----------------------------------------------------------------------------
(* syncLocalSubscriptionFromStripe and upsertInvoicePayment                *)

(* The list of a subscription's or an invoice's event, at its two places.  *)
LEMMA SyncLists ==
  ASSUME IInv, NEW c \in Call, At(c, "findSub") \/ At(c, "syncSub")
  PROVE  /\ call[c].op \in SubscriptionEvent \cup InvoiceEvent
         /\ At(c, "findSub") => /\ Rest(c) \in Syncing
                                /\ Standing(call[c].op, Rest(c))
         /\ At(c, "syncSub") =>
              /\ call[c].todo \in Syncing
              /\ Rest(c) \in {<<>>, <<"saveInvoice">>}
              /\ Standing(call[c].op, Rest(c)) /\ Alike(call[c].todo, Rest(c))
              /\ Standing(call[c].op, GetCurrent \o Rest(c))
              /\ Alike(call[c].todo, GetCurrent \o Rest(c))
  <1>1. At(c, "findSub") => call[c].todo \in Finding
    BY Known, Where DEF At
  <1>2. At(c, "syncSub") => call[c].todo \in Syncing
    BY Known, Where DEF At
  <1>3. call[c].op \in SubscriptionEvent \cup InvoiceEvent
    BY <1>1, <1>2, Known, Kinds
  <1>4. ASSUME At(c, "findSub")
        PROVE  Rest(c) \in Syncing /\ Standing(call[c].op, Rest(c))
    <2>1. CASE call[c].op \in SubscriptionEvent
      <3>1. Rest(c) = <<"syncSub">>
        BY <1>1, <1>4, <2>1, Known, Kinds, FindingSteps DEF Rest
      <3> QED BY <2>1, <3>1, Events DEF Standing, Syncing
    <2>2. CASE call[c].op \in InvoiceEvent
      <3>1. Rest(c) = <<"syncSub", "saveInvoice">>
        BY <1>1, <1>4, <2>2, Known, Kinds, FindingSteps DEF Rest
      <3> QED BY <2>2, <3>1, Events DEF Standing, Syncing
    <2> QED BY <1>3, <2>1, <2>2
  <1>5. ASSUME At(c, "syncSub")
        PROVE  /\ Rest(c) \in {<<>>, <<"saveInvoice">>}
               /\ Standing(call[c].op, Rest(c)) /\ Alike(call[c].todo, Rest(c))
               /\ Standing(call[c].op, GetCurrent \o Rest(c))
               /\ Alike(call[c].todo, GetCurrent \o Rest(c))
    <2>1. <<"settle">> \in Resolving
      BY DEF Resolving
    <2>2. CASE call[c].op \in SubscriptionEvent
      <3>1. Rest(c) = <<>>
        BY <1>2, <1>5, <2>2, Known, Kinds, SyncingSteps DEF Rest
      <3>2. Rest(c) \in Look /\ GetCurrent \o Rest(c) \in Look
        BY <3>1, Joins DEF Look, GetCurrent
      <3>3. Alike(call[c].todo, Rest(c)) /\ Alike(call[c].todo, GetCurrent \o Rest(c))
        BY <2>1, <3>2, Apart, Lists DEF Alike
      <3> QED BY <2>2, <3>1, <3>2, <3>3, Events DEF Standing
    <2>3. CASE call[c].op \in InvoiceEvent
      <3>1. Rest(c) = <<"saveInvoice">>
        BY <1>2, <1>5, <2>3, Known, Kinds, SyncingSteps DEF Rest
      <3>2. Rest(c) \in Invoicing /\ GetCurrent \o Rest(c) \in Invoicing
        BY <3>1, Joins DEF Invoicing
      <3>3. Alike(call[c].todo, Rest(c)) /\ Alike(call[c].todo, GetCurrent \o Rest(c))
        BY <2>1, <3>2, Apart, Lists DEF Alike
      <3> QED BY <2>3, <3>1, <3>2, <3>3, Events DEF Standing
    <2> QED BY <1>3, <2>2, <2>3
  <1> QED BY <1>2, <1>3, <1>4, <1>5

(* The row an event is about is there when it is written.                  *)
LEMMA FindSubscriptionKeeps ==
  ASSUME IInv, NEW c \in Call, FindSubscription(c)
  PROVE  IInv'
  <1>1. CASE Goes(c, <<>>)
    <2>1. call' = [call EXCEPT ![c] = [call[c] EXCEPT !.todo = <<>>]]
      BY <1>1 DEF Goes
    <2> QED BY <2>1, Finished, Along, Left, Ordinary DEF FindSubscription
  <1>2. ASSUME NEW i \in DOMAIN subs, subs[i].ref = call[c].on,
               call' = [call EXCEPT ![c].todo = Rest(c), ![c].sub = i,
                                    ![c].until = subs[i].until]
        PROVE  IInv'
    <2> DEFINE r == [call[c] EXCEPT !.todo = Rest(c), !.sub = i, !.until = subs[i].until]
    <2>1. Rest(c) \in Syncing /\ Standing(call[c].op, Rest(c))
      BY SyncLists DEF FindSubscription
    <2>2. i \in Nat /\ i \in 0 .. Len(subs) /\ subs[i].until \in Int
      <3>1. i \in Nat /\ i \in 0 .. Len(subs) /\ subs[i] \in SubscriptionRow
        BY Left, Indices
      <3> QED BY <3>1 DEF SubscriptionRow
    <2>3. Rest(c) \in Seq(Statement) /\ call[c] \in CallType
      BY <2>1, Lists, Known
    <2>4. /\ r \in CallType /\ r.op = call[c].op /\ r.on = call[c].on
          /\ r.todo = Rest(c) /\ r.sub = i /\ r.plan = call[c].plan
      BY <2>2, <2>3 DEF CallType
    <2>5. <<"settle">> \in Resolving
      BY DEF Resolving
    <2>6. /\ Rest(c) \notin Opening \cup Opened \cup Activating \cup Linking
          /\ Rest(c) # <<"settle">>
      BY <2>1, <2>5, Apart
    <2>7. r.plan = "PREMIUM" => Premium # {}
      BY <2>4 DEF IInv, Plans
    <2>8. call' = [call EXCEPT ![c] = r]
      BY <1>2
    <2> HIDE DEF r
    <2>9. GoesOn(c, r)
      BY <1>2, <2>1, <2>2, <2>4, <2>6, <2>7 DEF GoesOn
    <2> QED BY <2>8, <2>9, Left, Ordinary DEF FindSubscription
  <1> QED BY <1>1, <1>2 DEF FindSubscription

(* A row that follows Stripe keeps its plan and its link.                  *)
LEMMA SyncSubscriptionKeeps ==
  ASSUME IInv, NEW c \in Call, SyncSubscription(c)
  PROVE  IInv'
  <1> DEFINE u == IF MappedStatus(call[c].op) = "ACTIVE" THEN Rest(c) ELSE GetCurrent \o Rest(c)
  <1>1. call[c].op \in SubscriptionEvent \cup InvoiceEvent /\ call[c].todo \in Syncing
    BY SyncLists DEF SyncSubscription
  <1>2. Standing(call[c].op, u) /\ Alike(call[c].todo, u)
    BY SyncLists DEF SyncSubscription
  <1>3. PICK end \in {call[c].until} \cup
                     (IF call[c].op = "sub_active" THEN {now + Period} ELSE {}) :
          subs' = [subs EXCEPT ![call[c].sub].status = MappedStatus(call[c].op),
                               ![call[c].sub].until = end]
    BY DEF SyncSubscription
  <1>4. end \in Int
    BY <1>3, Known, BillingAssumption DEF CallType, IInv, Typed
  <1>5. MappedStatus(call[c].op) \in {"ACTIVE", "INACTIVE", "CANCELED"}
    BY <1>1 DEF MappedStatus, SubscriptionEvent, InvoiceEvent
  <1>6. \A i \in DOMAIN subs : subs[i] \in SubscriptionRow
    BY Left, Indices
  <1>7. subs' \in [DOMAIN subs -> SubscriptionRow]
    <2>1. DOMAIN subs' = DOMAIN subs
      BY <1>3
    <2>2. ASSUME NEW i \in DOMAIN subs PROVE subs'[i] \in SubscriptionRow
      BY <1>3, <1>4, <1>5, <1>6, <2>2 DEF SubscriptionRow
    <2>3. subs' = [i \in DOMAIN subs |-> subs'[i]]
      BY <1>3
    <2> QED BY <2>1, <2>2, <2>3
  <1>8. \A i \in DOMAIN subs : subs'[i].plan = subs[i].plan /\ subs'[i].ref = subs[i].ref
    BY <1>3, <1>6, Left DEF SubscriptionRow
  <1>9. PlansStay
    BY <1>7, <1>8, Rewritten, Left
  <1>10. call' = [call EXCEPT ![c] = [call[c] EXCEPT !.todo = u]]
    BY DEF SyncSubscription, Goes
  <1> HIDE DEF u
  <1> QED BY <1>2, <1>9, <1>10, Along, Left, Ordinary DEF SyncSubscription

(* The row of an invoice is that of no checkout.                           *)
LEMMA SaveInvoiceKeeps ==
  ASSUME IInv, NEW c \in Call, SaveInvoice(c)
  PROVE  IInv'
  <1>1. call[c].op \in SubscriptionEvent \cup InvoiceEvent /\ Rest(c) = <<>>
    BY Known, Where, Kinds, InvoicingSteps DEF SaveInvoice, At, Rest
  <1>2. call[c].on \in Checkout /\ call[c].op \in EventType
    BY <1>1, Known, Events
  <1>3. invoices' \subseteq Checkout \X EventType
    BY <1>2, Left DEF SaveInvoice
  <1>4. call' = [call EXCEPT ![c] = [call[c] EXCEPT !.todo = <<>>]]
    BY <1>1 DEF SaveInvoice, Goes
  <1> QED BY <1>3, <1>4, Finished, Along, Left, Ordinary DEF SaveInvoice

-----------------------------------------------------------------------------
(* Calls arrive, are answered, and fail                                    *)

(* The call that serves nobody.                                            *)
LEMMA NoCallType ==
  /\ NoCall \in CallType /\ NoCall.op = "none" /\ NoCall.on = "none"
  /\ NoCall.todo = <<>> /\ NoCall.plan = "none" /\ NoCall.sub = 0
  BY Done DEF NoCall, CallType, Never

(* An idle call is NoCall, or as good as it.                               *)
LEMMA Idle ==
  ASSUME IInv, NEW c \in Call
  PROVE  /\ GoesOn(c, NoCall)
         /\ ~ Busy(c) => /\ call[c].todo = <<>> /\ call[c].on = "none"
                         /\ ~ OfEvent(c)
  <1>2. NoCall.sub \in 0 .. Len(subs) /\ <<>> # <<"settle">> /\ "none" \in Op
    BY NoCallType, Left, Indices DEF Op
  <1>3. GoesOn(c, NoCall)
    BY NoCallType, <1>2, Done DEF GoesOn
  <1>4. ~ Busy(c) => call[c].todo = <<>> /\ call[c].on = "none" /\ ~ OfEvent(c)
    BY Known, Events DEF Busy, OfEvent, Standing
  <1> QED BY <1>3, <1>4

(* A request for the status owes nothing yet.                              *)
LEMMA ReadStatusKeeps ==
  ASSUME IInv, NEW c \in Call, ReadStatus(c)
  PROVE  IInv'
  <1> DEFINE r == [NoCall EXCEPT !.op = "status", !.todo = GetCurrent]
  <1>1. GetCurrent \in Look /\ <<"settle">> \in Resolving
    BY DEF GetCurrent, Look, Resolving
  <1>2. GetCurrent \in Seq(Statement)
    BY <1>1, Lists
  <1>3. /\ r \in CallType /\ r.op = "status" /\ r.on = "none" /\ r.todo = GetCurrent
        /\ r.plan = "none" /\ r.sub = 0
    BY <1>2, NoCallType DEF CallType
  <1>4. Standing("status", GetCurrent)
    BY <1>1, Events DEF Standing, CheckoutEvent, SubscriptionEvent, InvoiceEvent
  <1>5. r.sub \in 0 .. Len(subs)
    BY <1>3, Left, Indices
  <1>6. call' = [call EXCEPT ![c] = r]
    BY DEF ReadStatus
  <1> HIDE DEF r
  <1>7. GoesOn(c, r)
    BY <1>1, <1>3, <1>4, <1>5, Apart DEF GoesOn
  <1> QED BY <1>6, <1>7, Left, Ordinary DEF ReadStatus

(* A call that is answered owes nothing.                                   *)
LEMMA AnswerKeeps ==
  ASSUME IInv, NEW c \in Call, Answer(c)
  PROVE  IInv'
  BY Idle, Left, Ordinary DEF Answer

(* A call that fails owes nothing, but for the mark of its payment.        *)
LEMMA ThrowKeeps ==
  ASSUME IInv, NEW c \in Call, Throw(c)
  PROVE  IInv'
  <1>1. CASE At(c, "openSession")
    <2>1. call[c].todo \in Opened /\ <<"failSession">> \in Opened /\ call[c].todo # <<>>
      BY <1>1, Known, Where DEF At, Opened
    <2>2. Standing(call[c].op, <<"failSession">>) /\ Alike(call[c].todo, <<"failSession">>)
      BY <2>1, Known, Keeps
    <2>3. call' = [call EXCEPT ![c] = [call[c] EXCEPT !.todo = <<"failSession">>]]
      BY <1>1 DEF Throw, Goes
    <2> QED BY <2>2, <2>3, Along, Left, Ordinary DEF Throw
  <1>2. CASE ~ At(c, "openSession")
    BY <1>2, Idle, Left, Ordinary DEF Throw
  <1> QED BY <1>1, <1>2

(* What a call that starts to serve something leaves as it is.             *)
LEMMA Started ==
  ASSUME IInv, NEW c \in Call, ~ Busy(c), NEW r \in CallType,
         call' = [call EXCEPT ![c] = r],
         r.todo \in Opening \cup Finding \cup {<<"readPayment">>},
         r.plan = "none", r.sub = 0,
         sent' \subseteq Event, processed' \subseteq Event,
         UNCHANGED <<subs, payment, invoices, role, stripe, now>>
  PROVE  /\ call'[c] = r /\ \A d \in Call \ {c} : call'[d] = call[d]
         /\ Typed' /\ PaymentsAgree' /\ Settlings' /\ EachIsBought'
         /\ Linkings' /\ Links' /\ Plans'
  <1>1. /\ call' \in [Call -> CallType]
        /\ call'[c] = r /\ \A d \in Call \ {c} : call'[d] = call[d]
    BY DEF IInv, Typed
  <1>2. Typed'
    <2>1. 0 \in 0 .. Len(subs)
      BY Left, Indices
    <2>2. \A d \in Call : call'[d].todo \in Seq(Statement) /\ call'[d].sub \in 0 .. Len(subs')
      BY <1>1, <2>1 DEF IInv, Typed, TypeOK, CallType
    <2> QED BY <1>1, <2>2 DEF IInv, Typed, TypeOK, Call
  <1>3. <<"readPayment">> \in Resolving /\ <<"readPayment">> # <<"settle">>
        /\ <<"settle">> \in Resolving
    BY DEF Resolving
  <1>4. r.todo \notin Activating \cup Linking \cup Syncing \cup {<<"settle">>}
    BY <1>3, Apart
  <1>5. Premium' = Premium
    BY DEF Premium
  <1>6. PaymentsAgree'
    BY DEF IInv, PaymentsAgree, Charged
  <1>7. Settlings'
    BY <1>1, <1>4 DEF IInv, Settlings, Call
  <1>8. EachIsBought'
    <2>1. PICK f \in [Premium -> Checkout] : Buys(f)
      BY DEF IInv, EachIsBought
    <2>2. Buys(f)'
      BY <1>1, <1>4, <1>5, <2>1 DEF Buys, Call
    <2> QED BY <1>5, <2>1, <2>2 DEF EachIsBought
  <1>9. Linkings'
    BY <1>1, <1>4, <1>5 DEF IInv, Linkings, Call
  <1>10. Links'
    BY <1>5 DEF IInv, Links
  <1>11. Plans'
    BY <1>1, <1>4, <1>5 DEF IInv, Plans, Call
  <1> QED BY <1>1, <1>2, <1>6, <1>7, <1>8, <1>9, <1>10, <1>11

(* Nobody else serves a checkout that is requested.                        *)
LEMMA RequestCheckoutKeeps ==
  ASSUME IInv, NEW c \in Call, NEW p \in Checkout, RequestCheckout(c, p)
  PROVE  IInv'
  <1> DEFINE r == [NoCall EXCEPT !.op = "checkout", !.on = p, !.todo = StartCheckout]
  <1>1. StartCheckout \in Opening
    BY Joins DEF Opening
  <1>2. StartCheckout \in Seq(Statement)
    BY <1>1, Lists
  <1>3. /\ r \in CallType /\ r.op = "checkout" /\ r.on = p /\ r.todo = StartCheckout
        /\ r.plan = "none" /\ r.sub = 0
    BY <1>2, NoCallType DEF CallType
  <1>4. call' = [call EXCEPT ![c] = r]
    BY DEF RequestCheckout
  <1> HIDE DEF r
  <1>5. /\ call'[c] = r /\ \A d \in Call \ {c} : call'[d] = call[d]
        /\ Typed' /\ PaymentsAgree' /\ Settlings' /\ EachIsBought'
        /\ Linkings' /\ Links' /\ Plans'
    BY <1>1, <1>3, <1>4, Started DEF RequestCheckout, IInv, Typed, TypeOK
  <1>6. Control'
    <2>1. Standing("checkout", StartCheckout)
      BY <1>1, Events DEF Standing, CheckoutEvent, SubscriptionEvent, InvoiceEvent
    <2>2. ~ OfEvent(c)'
      BY <1>3, <1>5, Events DEF OfEvent
    <2> QED BY <1>3, <1>5, <2>1, <2>2 DEF RequestCheckout, IInv, Control, OfEvent, EventOf, Call
  <1>7. \A d \in Call : OfEvent(d)' => d # c /\ OfEvent(d)
    BY <1>3, <1>5, Events DEF OfEvent
  <1>8. EventsFit'
    <2>1. \A q, type : Fits(q, type)' = Fits(q, type)
      BY DEF Fits, Charged, RequestCheckout
    <2> QED BY <1>5, <1>7, <2>1 DEF RequestCheckout, IInv, EventsFit, Call
  <1>9. SuccessIsToldOnce'
    <2>1. \A q \in Checkout, type \in EventType : Told(q, type)' => Told(q, type)
      BY <1>5, <1>7 DEF Told, OfEvent, Call, RequestCheckout
    <2>2. {"completed", "async_succeeded"} \subseteq EventType
      BY DEF EventType
    <2>3. \A q \in Checkout : ~ (Told(q, "completed")' /\ Told(q, "async_succeeded")')
      BY <2>1, <2>2 DEF IInv, SuccessIsToldOnce
    <2>4. \A d, e \in Call :
            d # e /\ OfEvent(d)' /\ call'[d].op = call'[e].op => call'[d].on # call'[e].on
      <3>1. \A d, e \in Call : OfEvent(d)' /\ call'[d].op = call'[e].op => OfEvent(e)'
        BY DEF OfEvent
      <3> QED BY <1>5, <1>7, <3>1 DEF IInv, SuccessIsToldOnce
    <2> QED BY <2>3, <2>4 DEF SuccessIsToldOnce, Call
  <1>10. Openings'
    <2>1. payment[p].status = "none" /\ stripe[p] = "none" /\ \A d \in Call : call[d].on # p
      BY DEF RequestCheckout, IInv, Openings
    <2>2. ASSUME NEW d \in Call, call'[d].todo \in Opening \cup Opened
          PROVE  /\ stripe'[call'[d].on] = "none"
                 /\ payment'[call'[d].on].status =
                      IF call'[d].todo \in Opening THEN "none" ELSE "PENDING"
                 /\ \A e \in Call \ {d} : call'[e].on # call'[d].on
      <3>1. CASE d = c
        BY <1>1, <1>3, <1>5, <2>1, <3>1 DEF RequestCheckout
      <3>2. CASE d # c
        BY <1>3, <1>5, <2>1, <2>2, <3>2 DEF RequestCheckout, IInv, Openings
      <3> QED BY <3>1, <3>2
    <2> QED BY <2>2 DEF RequestCheckout, IInv, Openings, Call
  <1> QED BY <1>5, <1>6, <1>8, <1>9, <1>10 DEF IInv

(* An event is served by one delivery at a time.                           *)
LEMMA DeliverKeeps ==
  ASSUME IInv, NEW h \in Hook, NEW e \in sent, Deliver(h, e)
  PROVE  IInv'
  <1>1. h \in Call /\ e \in Event /\ e.on \in Checkout /\ e.type \in EventType
    BY DEF Call, IInv, Typed, TypeOK, Event
  <1>2. CASE e \in processed
    <2>1. sent' \subseteq sent /\ UNCHANGED <<subs, payment, invoices, role, call, processed,
                                              stripe, now>>
      BY <1>2 DEF Deliver
    <2>2. \A q, type : Told(q, type)' => Told(q, type)
      BY <2>1 DEF Told, Call
    <2>3. SuccessIsToldOnce'
      BY <2>1, <2>2 DEF IInv, SuccessIsToldOnce, Call, OfEvent
    <2>4. Typed' /\ Control' /\ EventsFit'
      BY <2>1 DEF IInv, Typed, TypeOK, Control, EventsFit, Call, OfEvent, EventOf, Fits, Charged
    <2>5. Openings' /\ PaymentsAgree' /\ Settlings' /\ Linkings' /\ Links' /\ Plans'
      BY <2>1 DEF IInv, Openings, PaymentsAgree, Settlings, Linkings, Links, Plans,
                  Call, Charged, Premium
    <2>6. EachIsBought'
      <3>1. PICK f \in [Premium -> Checkout] : Buys(f)
        BY DEF IInv, EachIsBought
      <3>2. Premium' = Premium
        BY <2>1 DEF Premium
      <3>3. Buys(f)'
        BY <2>1, <3>1, <3>2 DEF Buys, Call
      <3> QED BY <3>1, <3>2, <3>3 DEF EachIsBought
    <2> QED BY <2>3, <2>4, <2>5, <2>6 DEF IInv
  <1>3. CASE e \notin processed
    <2> DEFINE r == [NoCall EXCEPT !.op = e.type, !.on = e.on, !.todo = Handling(e.type)]
    <2>1. /\ Handling(e.type) \in Finding \cup {<<"readPayment">>}
          /\ Standing(e.type, Handling(e.type))
      BY <1>1, Events DEF Handling, Finding, Standing, Resolving, EventType, CheckoutEvent,
         SubscriptionEvent, InvoiceEvent
    <2>2. Handling(e.type) \in Seq(Statement) /\ <<"readPayment">> \in Resolving
      BY <2>1, Lists DEF Resolving
    <2>3. /\ r \in CallType /\ r.op = e.type /\ r.on = e.on /\ r.todo = Handling(e.type)
          /\ r.plan = "none" /\ r.sub = 0
      BY <1>1, <2>2, NoCallType DEF CallType
    <2>4. /\ call' = [call EXCEPT ![h] = r] /\ processed' = processed \cup {e}
          /\ sent' = sent
      BY <1>3 DEF Deliver
    <2> HIDE DEF r
    <2>5. /\ call'[h] = r /\ \A d \in Call \ {h} : call'[d] = call[d]
          /\ Typed' /\ PaymentsAgree' /\ Settlings' /\ EachIsBought'
          /\ Linkings' /\ Links' /\ Plans'
      BY <1>1, <2>1, <2>3, <2>4, Started DEF Deliver, IInv, Typed, TypeOK
    <2>6. e = [on |-> e.on, type |-> e.type] /\ Fits(e.on, e.type)
      BY <1>1 DEF Event, IInv, EventsFit
    <2>7. Control'
      BY <1>1, <2>1, <2>3, <2>4, <2>5, <2>6, Events
      DEF IInv, Control, OfEvent, EventOf, Call
    <2>8. EventsFit'
      <3>1. \A q, type : Fits(q, type)' = Fits(q, type)
        BY DEF Fits, Charged, Deliver
      <3> QED BY <2>3, <2>4, <2>5, <2>6, <3>1 DEF IInv, EventsFit, OfEvent, Call
    <2>9. SuccessIsToldOnce'
      <3>1. \A q \in Checkout, type \in EventType : Told(q, type)' => Told(q, type)
        BY <2>3, <2>4, <2>5, <2>6 DEF Told, Call
      <3>2. {"completed", "async_succeeded"} \subseteq EventType
        BY DEF EventType
      <3>3. \A q \in Checkout : ~ (Told(q, "completed")' /\ Told(q, "async_succeeded")')
        BY <3>1, <3>2 DEF IInv, SuccessIsToldOnce
      <3>4. \A d \in Call \ {h} : ~ (call[d].op = e.type /\ call[d].on = e.on)
        BY <1>1, <1>3, <2>6, Known DEF OfEvent, EventOf
      <3>5. \A d, g \in Call :
              d # g /\ OfEvent(d)' /\ call'[d].op = call'[g].op => call'[d].on # call'[g].on
        BY <2>3, <2>5, <3>4 DEF IInv, SuccessIsToldOnce, OfEvent
      <3> QED BY <3>3, <3>5 DEF SuccessIsToldOnce, Call
    <2>10. Openings'
      <3>1. stripe[e.on] # "none"
        BY <2>6 DEF Fits
      <3>2. r.todo \notin Opening \cup Opened
        BY <2>1, <2>2, <2>3, Apart
      <3>3. ASSUME NEW d \in Call, call'[d].todo \in Opening \cup Opened
            PROVE  /\ stripe'[call'[d].on] = "none"
                   /\ payment'[call'[d].on].status =
                        IF call'[d].todo \in Opening THEN "none" ELSE "PENDING"
                   /\ \A g \in Call \ {d} : call'[g].on # call'[d].on
        BY <2>3, <2>5, <3>1, <3>2, <3>3 DEF Deliver, IInv, Openings
      <3> QED BY <3>3 DEF Deliver, IInv, Openings, Call
    <2> QED BY <2>5, <2>7, <2>8, <2>9, <2>10 DEF IInv
  <1> QED BY <1>2, <1>3

-----------------------------------------------------------------------------
(* Payments are opened and settled                                         *)

(* A call with another list is a call.                                     *)
LEMMA Relisted ==
  ASSUME NEW r \in CallType, NEW u \in Seq(Statement)
  PROVE  [r EXCEPT !.todo = u] \in CallType
  BY DEF CallType

(* A call that gets on with its list changes nothing else.                 *)
LEMMA GetsOn ==
  ASSUME IInv, NEW c \in Call, NEW u \in Seq(Statement),
         call' = [call EXCEPT ![c].todo = u]
  PROVE  /\ call' \in [Call -> CallType]
         /\ call'[c] = [call[c] EXCEPT !.todo = u] /\ call'[c].todo = u
         /\ \A d \in Call : /\ call'[d].op = call[d].op /\ call'[d].on = call[d].on
                            /\ call'[d].sub = call[d].sub /\ call'[d].plan = call[d].plan
                            /\ d # c => call'[d] = call[d]
  <1>1. call \in [Call -> CallType]
    BY DEF IInv, Typed
  <1>2. call'[c] = [call[c] EXCEPT !.todo = u] /\ \A d \in Call \ {c} : call'[d] = call[d]
    BY <1>1
  <1>3. call[c] \in CallType
    BY <1>1
  <1>4. call'[c] \in CallType
    BY <1>2, <1>3, Relisted
  <1>5. /\ call'[c].todo = u /\ call'[c].op = call[c].op /\ call'[c].on = call[c].on
        /\ call'[c].sub = call[c].sub /\ call'[c].plan = call[c].plan
    BY <1>2, <1>3 DEF CallType
  <1> QED BY <1>1, <1>2, <1>4, <1>5

(* Calls that serve what they served before stand where they may.          *)
LEMMA ControlStays ==
  ASSUME IInv, processed' = processed,
         \A d \in Call : /\ call'[d].op = call[d].op /\ call'[d].on = call[d].on
                         /\ Standing(call[d].op, call'[d].todo)
  PROVE  Control'
  <1> SUFFICES ASSUME NEW d \in Call
               PROVE  /\ Standing(call'[d].op, call'[d].todo)
                      /\ call'[d].op \notin {"none", "status"} => call'[d].on \in Checkout
                      /\ call'[d].op \in {"none", "status"} => call'[d].on = "none"
                      /\ OfEvent(d)' => d \in Hook /\ EventOf(d)' \in processed'
    BY DEF Control, Call
  <1>1. /\ call'[d].op = call[d].op /\ call'[d].on = call[d].on
        /\ Standing(call'[d].op, call'[d].todo)
    OBVIOUS
  <1>2. OfEvent(d)' = OfEvent(d) /\ EventOf(d)' = EventOf(d)
    BY <1>1 DEF OfEvent, EventOf
  <1> QED BY <1>1, <1>2, Known

(* What a step leaves as it is that moves a payment and gets on with its   *)
(* list.                                                                   *)
LEMMA PaymentMoved ==
  ASSUME IInv, NEW c \in Call, NEW u, Goes(c, u),
         Standing(call[c].op, u), u \in Seq(Statement), u \notin Linking \cup Syncing,
         payment' \in [Checkout -> PaymentRow],
         \A p \in Checkout : payment'[p].sub = payment[p].sub,
         UNCHANGED <<subs, invoices, role, processed, stripe, sent, now>>
  PROVE  /\ call'[c] = [call[c] EXCEPT !.todo = u] /\ call'[c].todo = u
         /\ \A d \in Call : /\ call'[d].op = call[d].op /\ call'[d].on = call[d].on
                            /\ d # c => call'[d].todo = call[d].todo
         /\ Typed' /\ Control' /\ EventsFit' /\ SuccessIsToldOnce'
         /\ Linkings' /\ Links' /\ Plans'
  <1>1. /\ call \in [Call -> CallType] /\ call' \in [Call -> CallType]
        /\ call'[c] = [call[c] EXCEPT !.todo = u] /\ call'[c].todo = u
        /\ \A d \in Call \ {c} : call'[d] = call[d]
    BY GetsOn DEF IInv, Typed, Goes
  <1>2. \A d \in Call : /\ call'[d].op = call[d].op /\ call'[d].on = call[d].on
                        /\ call'[d].sub = call[d].sub /\ call'[d].plan = call[d].plan
                        /\ d # c => call'[d].todo = call[d].todo
    BY <1>1 DEF CallType
  <1>3. Premium' = Premium
    BY DEF Premium
  <1>4. Typed'
    <2>1. \A p \in Checkout : payment'[p].sub \in 0 .. Len(subs')
      BY DEF IInv, Typed, TypeOK
    <2>2. payment' \in [Checkout ->
            [status : {"none", "PENDING", "SUCCEEDED", "FAILED", "CANCELED"},
             ref : BOOLEAN, sub : 0 .. Len(subs')]]
      BY <2>1 DEF PaymentRow
    <2>3. \A d \in Call : call'[d].todo \in Seq(Statement) /\ call'[d].sub \in 0 .. Len(subs')
      BY <1>1, <1>2 DEF IInv, Typed, TypeOK
    <2> QED BY <1>1, <2>2, <2>3 DEF IInv, Typed, TypeOK, Call
  <1>5. Control'
    BY <1>1, <1>2 DEF IInv, Control, OfEvent, EventOf, Call
  <1>6. EventsFit'
    <2>1. \A p, type : Fits(p, type)' = Fits(p, type)
      BY DEF Fits, Charged
    <2> QED BY <1>2, <2>1 DEF IInv, EventsFit, OfEvent, Call
  <1>7. SuccessIsToldOnce'
    <2>1. \A p, type : Told(p, type)' => Told(p, type)
      BY <1>2 DEF Told, Call
    <2>2. \A p \in Checkout : ~ (Told(p, "completed")' /\ Told(p, "async_succeeded")')
      BY <2>1 DEF IInv, SuccessIsToldOnce
    <2>3. \A d, e \in Call :
            d # e /\ OfEvent(d)' /\ call'[d].op = call'[e].op => call'[d].on # call'[e].on
      BY <1>2 DEF IInv, SuccessIsToldOnce, OfEvent
    <2> QED BY <2>2, <2>3 DEF SuccessIsToldOnce, Call
  <1>8. Linkings'
    <2>1. ASSUME NEW d \in Call, call'[d].todo \in Linking
          PROVE  /\ call'[d].sub \in Premium'
                 /\ subs'[call'[d].sub].ref \in {call'[d].on, "none"}
                 /\ \A q \in Checkout : payment'[q].sub # call'[d].sub
                 /\ \A e \in Call \ {d} : call'[e].todo \in Linking => call'[e].sub # call'[d].sub
      <3>1. \A e \in Call : call'[e].todo \in Linking => e # c /\ call[e].todo \in Linking
        BY <1>1, <1>2
      <3> QED BY <1>2, <1>3, <2>1, <3>1 DEF IInv, Linkings
    <2> QED BY <2>1 DEF Linkings, Call
  <1>9. Links'
    BY <1>3 DEF IInv, Links
  <1>10. Plans'
    BY <1>1, <1>2, <1>3 DEF IInv, Plans, Call
  <1> QED BY <1>1, <1>2, <1>4, <1>5, <1>6, <1>7, <1>8, <1>9, <1>10

(* The status of one payment changes, and nothing else of any.             *)
LEMMA StatusSet ==
  ASSUME IInv, NEW p \in Checkout, NEW ref \in BOOLEAN,
         NEW status \in {"PENDING", "SUCCEEDED", "FAILED", "CANCELED"},
         \/ payment' = [payment EXCEPT ![p].status = status]
         \/ payment' = [payment EXCEPT ![p].status = status, ![p].ref = ref]
  PROVE  /\ payment' \in [Checkout -> PaymentRow]
         /\ payment'[p].status = status
         /\ \A q \in Checkout : payment'[q].sub = payment[q].sub
         /\ \A q \in Checkout \ {p} : payment'[q] = payment[q]
  <1>1. payment \in [Checkout -> PaymentRow]
    BY Left
  <1> QED BY <1>1 DEF PaymentRow

(* Only the event of a checkout settles a payment or activates the plan.   *)
LEMMA Resolvers ==
  ASSUME IInv, NEW d \in Call, call[d].todo \in Activating \cup {<<"settle">>}
  PROVE  /\ call[d].op \in CheckoutEvent /\ OfEvent(d) /\ call[d].on \in Checkout
         /\ Fits(call[d].on, call[d].op)
  <1>1. <<"settle">> \in Resolving
    BY DEF Resolving
  <1>2. call[d].op \in CheckoutEvent
    BY <1>1, Known, Kinds
  <1> QED BY <1>2, Known, Events DEF OfEvent

(* A payment that has just been opened, or marked as failed, is not among  *)
(* those that have succeeded.                                              *)
LEMMA StillBought ==
  ASSUME IInv, NEW p \in Checkout, payment[p].status # "SUCCEEDED",
         \A q \in Checkout \ {p} : payment'[q] = payment[q],
         \A d \in Call : call'[d].todo \in Activating =>
           call[d].todo \in Activating /\ call'[d].on = call[d].on,
         UNCHANGED subs
  PROVE  EachIsBought'
  <1>1. PICK f \in [Premium -> Checkout] : Buys(f)
    BY DEF IInv, EachIsBought
  <1>2. Premium' = Premium
    BY DEF Premium
  <1>3. \A i \in Premium : f[i] # p /\ payment'[f[i]] = payment[f[i]]
    BY <1>1 DEF Buys
  <1>4. Buys(f)'
    BY <1>1, <1>2, <1>3 DEF Buys, Call
  <1> QED BY <1>1, <1>2, <1>4 DEF EachIsBought

(* A payment is inserted before Stripe knows of its checkout.              *)
LEMMA InsertPaymentKeeps ==
  ASSUME IInv, NEW c \in Call, InsertPayment(c)
  PROVE  IInv'
  <1> DEFINE p == call[c].on
  <1>1. /\ call[c].todo \in Opening /\ Rest(c) = <<"openSession">>
        /\ call[c].op = "checkout"
    BY Known, Where, Kinds, OpeningSteps DEF InsertPayment, At, Rest
  <1>2. p \in Checkout
    BY <1>1, Known
  <1>3. CASE call[c].plan = "PREMIUM"
    <2>1. call' = [call EXCEPT ![c] = [call[c] EXCEPT !.todo = <<>>]]
      BY <1>3 DEF InsertPayment, Goes
    <2> QED BY <1>3, <2>1, Finished, Along, Left, Ordinary DEF InsertPayment
  <1>4. CASE call[c].plan # "PREMIUM"
    <2>1. /\ stripe[p] = "none" /\ payment[p].status = "none"
          /\ \A d \in Call \ {c} : call[d].on # p
      BY <1>1 DEF IInv, Openings
    <2>2. /\ payment' \in [Checkout -> PaymentRow]
          /\ payment'[p].status = "PENDING"
          /\ \A q \in Checkout : payment'[q].sub = payment[q].sub
          /\ \A q \in Checkout \ {p} : payment'[q] = payment[q]
      BY <1>2, <1>4, StatusSet DEF InsertPayment
    <2>3. <<"openSession">> \in Opened /\ Goes(c, <<"openSession">>)
      BY <1>1, <1>4 DEF Opened, InsertPayment
    <2>4. /\ <<"openSession">> \in Seq(Statement) /\ <<"openSession">> \notin Linking \cup Syncing
          /\ <<"openSession">> \notin Opening \cup Activating
      BY <2>3, Lists, Apart
    <2>5. Standing(call[c].op, <<"openSession">>)
      BY <1>1, <2>3, Events DEF Standing, CheckoutEvent, SubscriptionEvent, InvoiceEvent
    <2>6. /\ call'[c].todo = <<"openSession">>
          /\ \A d \in Call : /\ call'[d].op = call[d].op /\ call'[d].on = call[d].on
                             /\ d # c => call'[d].todo = call[d].todo
          /\ Typed' /\ Control' /\ EventsFit' /\ SuccessIsToldOnce'
          /\ Linkings' /\ Links' /\ Plans'
      BY <1>4, <2>2, <2>3, <2>4, <2>5, PaymentMoved DEF InsertPayment
    <2>7. Openings'
      <3>1. ASSUME NEW d \in Call, call'[d].todo \in Opening \cup Opened
            PROVE  /\ stripe'[call'[d].on] = "none"
                   /\ payment'[call'[d].on].status =
                        IF call'[d].todo \in Opening THEN "none" ELSE "PENDING"
                   /\ \A e \in Call \ {d} : call'[e].on # call'[d].on
        <4>1. CASE d = c
          BY <2>1, <2>2, <2>4, <2>6, <4>1 DEF InsertPayment
        <4>2. CASE d # c
          <5>1. /\ call[d].todo \in Opening \cup Opened /\ call[d].on # p
                /\ call'[d].todo = call[d].todo
            BY <2>1, <2>6, <3>1, <4>2
          <5>2. call[d].on \in Checkout
            BY <5>1, Known, Kinds
          <5> QED BY <2>2, <2>6, <5>1, <5>2 DEF InsertPayment, IInv, Openings
        <4> QED BY <4>1, <4>2
      <3>2. \A q \in Checkout : payment'[q].status = "none" => stripe'[q] = "none"
        BY <2>1, <2>2 DEF InsertPayment, IInv, Openings
      <3> QED BY <3>1, <3>2 DEF Openings, Call
    <2>8. PaymentsAgree'
      BY <2>2 DEF InsertPayment, IInv, PaymentsAgree, Charged
    <2>9. Settlings'
      <3>1. \A d \in Call : call'[d].todo \in Activating \cup {<<"settle">>} =>
              /\ call[d].todo = call'[d].todo /\ call[d].on \in Checkout \ {p}
        <4>1. <<"openSession">> # <<"settle">>
          OBVIOUS
        <4>2. \A d \in Call : call'[d].todo \in Activating \cup {<<"settle">>} =>
                d # c /\ call[d].todo = call'[d].todo
          BY <2>4, <2>6, <4>1
        <4>3. \A d \in Call : call[d].todo \in Activating \cup {<<"settle">>} =>
                call[d].on \in Checkout
          BY Resolvers
        <4> QED BY <2>1, <4>2, <4>3
      <3>2. \A d \in Call : call'[d].todo \in Activating \cup {<<"settle">>} =>
              /\ call[d].todo = call'[d].todo /\ call'[d].op = call[d].op
              /\ payment'[call'[d].on] = payment[call[d].on]
        BY <2>2, <2>6, <3>1
      <3> QED BY <3>2 DEF IInv, Settlings, Call
    <2>10. EachIsBought'
      BY <1>2, <2>1, <2>2, <2>4, <2>6, StillBought DEF InsertPayment
    <2> QED BY <2>6, <2>7, <2>8, <2>9, <2>10 DEF IInv
  <1> QED BY <1>3, <1>4

(* A payment whose session did not open was pending.                       *)
LEMMA FailSessionKeeps ==
  ASSUME IInv, NEW c \in Call, FailSession(c)
  PROVE  IInv'
  <1> DEFINE p == call[c].on
  <1>1. /\ call[c].todo \in Opened /\ Rest(c) = <<>> /\ call[c].op = "checkout"
    BY Known, Where, Kinds, OpenedSteps DEF FailSession, At, Rest
  <1>2. p \in Checkout /\ call[c].todo \notin Opening
    BY <1>1, Known, Apart
  <1>3. /\ stripe[p] = "none" /\ payment[p].status = "PENDING"
        /\ \A d \in Call \ {c} : call[d].on # p
    BY <1>1, <1>2 DEF IInv, Openings
  <1>4. /\ payment' \in [Checkout -> PaymentRow]
        /\ payment'[p].status = "FAILED"
        /\ \A q \in Checkout : payment'[q].sub = payment[q].sub
        /\ \A q \in Checkout \ {p} : payment'[q] = payment[q]
    BY <1>2, StatusSet DEF FailSession
  <1>5. /\ call'[c].todo = <<>>
        /\ \A d \in Call : /\ call'[d].op = call[d].op /\ call'[d].on = call[d].on
                           /\ d # c => call'[d].todo = call[d].todo
        /\ Typed' /\ Control' /\ EventsFit' /\ SuccessIsToldOnce'
        /\ Linkings' /\ Links' /\ Plans'
    <2>1. Goes(c, <<>>) /\ Standing(call[c].op, <<>>)
      BY <1>1, Finished DEF FailSession
    <2> QED BY <1>4, <2>1, Done, PaymentMoved DEF FailSession
  <1>6. Openings'
    <2>1. ASSUME NEW d \in Call, call'[d].todo \in Opening \cup Opened
          PROVE  /\ stripe'[call'[d].on] = "none"
                 /\ payment'[call'[d].on].status =
                      IF call'[d].todo \in Opening THEN "none" ELSE "PENDING"
                 /\ \A e \in Call \ {d} : call'[e].on # call'[d].on
      <3>1. d # c /\ call'[d].todo = call[d].todo /\ call[d].on # p
        BY <1>3, <1>5, <2>1, Done
      <3>2. call[d].on \in Checkout
        BY <2>1, <3>1, Known, Kinds
      <3> QED BY <1>4, <1>5, <2>1, <3>1, <3>2 DEF FailSession, IInv, Openings
    <2>2. \A q \in Checkout : payment'[q].status = "none" => stripe'[q] = "none"
      BY <1>3, <1>4 DEF FailSession, IInv, Openings
    <2> QED BY <2>1, <2>2 DEF Openings, Call
  <1>7. PaymentsAgree'
    BY <1>3, <1>4 DEF FailSession, IInv, PaymentsAgree, Charged
  <1>8. Settlings'
    <2>1. \A d \in Call : call'[d].todo \in Activating \cup {<<"settle">>} =>
            /\ call[d].todo = call'[d].todo /\ call[d].on \in Checkout \ {p}
      <3>1. <<>> # <<"settle">>
        OBVIOUS
      <3>2. \A d \in Call : call'[d].todo \in Activating \cup {<<"settle">>} =>
              d # c /\ call[d].todo = call'[d].todo
        BY <1>5, <3>1, Done
      <3>3. \A d \in Call : call[d].todo \in Activating \cup {<<"settle">>} =>
              call[d].on \in Checkout
        BY Resolvers
      <3> QED BY <1>3, <3>2, <3>3
    <2>2. \A d \in Call : call'[d].todo \in Activating \cup {<<"settle">>} =>
            /\ call[d].todo = call'[d].todo /\ call'[d].op = call[d].op
            /\ payment'[call'[d].on] = payment[call[d].on]
      BY <1>4, <1>5, <2>1
    <2> QED BY <2>2 DEF IInv, Settlings, Call
  <1>9. EachIsBought'
    BY <1>2, <1>3, <1>4, <1>5, Done, StillBought DEF FailSession
  <1> QED BY <1>5, <1>6, <1>7, <1>8, <1>9 DEF IInv

(* The outcome of a checkout's event.                                      *)
LEMMA Outcomes ==
  ASSUME NEW op \in CheckoutEvent, NEW p \in Checkout, Fits(p, op)
  PROVE  /\ Resolution(op) \in {"PENDING", "SUCCEEDED", "FAILED", "CANCELED"}
         /\ Resolution(op) = "SUCCEEDED" => op \in {"completed", "async_succeeded"} /\ Charged(p)
         /\ Resolution(op) = "FAILED" => stripe[p] = "failed" /\ ~ Charged(p)
         /\ Resolution(op) = "CANCELED" => stripe[p] = "expired" /\ ~ Charged(p)
  BY DEF Resolution, Fits, CheckoutEvent, Charged

(* Two calls never report the success of one checkout.                     *)
LEMMA SuccessIsServedOnce ==
  ASSUME IInv, NEW c \in Call, NEW d \in Call, c # d, call[c].on \in Checkout,
         call[c].op \in {"completed", "async_succeeded"},
         call[d].op \in {"completed", "async_succeeded"}
  PROVE  call[c].on # call[d].on
  <1>1. OfEvent(c) /\ OfEvent(d)
    BY DEF OfEvent, EventType
  <1>2. CASE call[c].op = call[d].op
    BY <1>1, <1>2 DEF IInv, SuccessIsToldOnce
  <1>3. CASE call[c].op # call[d].op
    <2>1. SUFFICES ASSUME call[c].on = call[d].on PROVE FALSE
      OBVIOUS
    <2>2. Told(call[c].on, "completed") /\ Told(call[c].on, "async_succeeded")
      BY <1>3, <2>1 DEF Told
    <2> QED BY <2>2 DEF IInv, SuccessIsToldOnce
  <1> QED BY <1>2, <1>3

(* A payment is settled as the events of Stripe say.                       *)
LEMMA SettleKeeps ==
  ASSUME IInv, NEW c \in Call, Settle(c)
  PROVE  IInv'
  <1> DEFINE p == call[c].on
             status == Resolution(call[c].op)
             u == IF status = "SUCCEEDED" THEN Activate ELSE <<>>
  <1>1. call[c].todo \in Resolving /\ call[c].todo = <<"settle">>
    BY Known, Where, ResolvingSteps DEF Settle, At
  <1>2. call[c].op \in CheckoutEvent /\ p \in Checkout /\ Fits(p, call[c].op)
    BY <1>1, Resolvers
  <1>3. /\ status \in {"SUCCEEDED", "FAILED", "CANCELED"}
        /\ status = "SUCCEEDED" => payment[p].status # "SUCCEEDED"
    BY <1>1, <1>2, Outcomes DEF IInv, Settlings
  <1>4. /\ payment' \in [Checkout -> PaymentRow]
        /\ payment'[p].status = status
        /\ \A q \in Checkout : payment'[q].sub = payment[q].sub
        /\ \A q \in Checkout \ {p} : payment'[q] = payment[q]
    <2>1. call[c].ref \in BOOLEAN
      BY Known DEF CallType
    <2> QED BY <1>2, <1>3, <2>1, StatusSet DEF Settle
  <1>5. /\ Activate \in Activating /\ <<>> \in Look
        /\ u \in Look \cup Activating
    BY DEF Activate, Activating, Look
  <1>6. /\ u \in Seq(Statement) /\ u \notin Opening \cup Opened \cup Linking \cup Syncing
        /\ u # <<"settle">> /\ <<"settle">> \notin Activating
        /\ u \in Activating => status = "SUCCEEDED"
    <2>1. <<"settle">> \in Resolving
      BY DEF Resolving
    <2> QED BY <1>5, <2>1, Lists, Apart
  <1>7. Standing(call[c].op, u)
    BY <1>2, <1>5, Events DEF Standing
  <1>8. Goes(c, u)
    BY DEF Settle
  <1> HIDE DEF u
  <1>9. /\ call'[c].todo = u
        /\ \A d \in Call : /\ call'[d].op = call[d].op /\ call'[d].on = call[d].on
                           /\ d # c => call'[d].todo = call[d].todo
        /\ Typed' /\ Control' /\ EventsFit' /\ SuccessIsToldOnce'
        /\ Linkings' /\ Links' /\ Plans'
    BY <1>4, <1>6, <1>7, <1>8, PaymentMoved DEF Settle
  <1>10. \A q \in Checkout : Charged(q)' = Charged(q)
    BY DEF Charged, Settle
  <1>11. Openings'
    <2>1. stripe[p] # "none"
      BY <1>2 DEF Fits
    <2>2. ASSUME NEW d \in Call, call'[d].todo \in Opening \cup Opened
          PROVE  /\ stripe'[call'[d].on] = "none"
                 /\ payment'[call'[d].on].status =
                      IF call'[d].todo \in Opening THEN "none" ELSE "PENDING"
                 /\ \A e \in Call \ {d} : call'[e].on # call'[d].on
      <3>1. d # c /\ call'[d].todo = call[d].todo
        BY <1>6, <1>9, <2>2
      <3>2. call[d].on \in Checkout \ {p}
        BY <2>1, <2>2, <3>1, Known, Kinds DEF IInv, Openings
      <3>3. /\ stripe[call[d].on] = "none"
            /\ payment[call[d].on].status =
                 IF call[d].todo \in Opening THEN "none" ELSE "PENDING"
            /\ \A e \in Call \ {d} : call[e].on # call[d].on
        BY <2>2, <3>1 DEF IInv, Openings
      <3>4. call'[d].on = call[d].on /\ payment'[call[d].on] = payment[call[d].on]
        BY <1>4, <1>9, <3>2
      <3> QED BY <1>9, <3>1, <3>3, <3>4 DEF Settle
    <2>3. \A q \in Checkout : payment'[q].status = "none" => stripe'[q] = "none"
      BY <1>3, <1>4 DEF Settle, IInv, Openings
    <2> QED BY <2>2, <2>3 DEF Openings, Call
  <1>12. PaymentsAgree'
    <2>1. /\ status = "SUCCEEDED" => Charged(p)
          /\ status = "CANCELED" => stripe[p] = "expired"
          /\ status = "FAILED" => stripe[p] = "failed"
      BY <1>2, Outcomes
    <2> HIDE DEF status
    <2> QED BY <1>4, <1>10, <2>1 DEF Settle, IInv, PaymentsAgree
  <1>13. \A d \in Call \ {c} :
           /\ call[d].todo \in Activating \cup {<<"settle">>}
           /\ Resolution(call[d].op) = "SUCCEEDED"
           => call[d].on \in Checkout /\ (call[d].on = p => status # "SUCCEEDED" /\ Charged(p))
    <2>1. ASSUME NEW d \in Call \ {c}, call[d].todo \in Activating \cup {<<"settle">>},
                 Resolution(call[d].op) = "SUCCEEDED"
          PROVE  call[d].on \in Checkout /\ (call[d].on = p => status # "SUCCEEDED" /\ Charged(p))
      <3>1. call[d].op \in CheckoutEvent /\ call[d].on \in Checkout /\ Fits(call[d].on, call[d].op)
        BY <2>1, Resolvers
      <3>2. call[d].op \in {"completed", "async_succeeded"} /\ Charged(call[d].on)
        BY <2>1, <3>1, Outcomes
      <3>3. status = "SUCCEEDED" => call[c].op \in {"completed", "async_succeeded"}
        BY <1>2, Outcomes
      <3> QED BY <1>2, <3>1, <3>2, <3>3, SuccessIsServedOnce
    <2> QED BY <2>1
  <1>14. Settlings'
    <2>1. ASSUME NEW d \in Call, call'[d].todo = <<"settle">>
          PROVE  /\ Resolution(call'[d].op) # "PENDING"
                 /\ Resolution(call'[d].op) = "SUCCEEDED" =>
                      payment'[call'[d].on].status # "SUCCEEDED"
      <3>1. d # c /\ call[d].todo = <<"settle">> /\ call[d].on \in Checkout
        BY <1>6, <1>9, <2>1, Resolvers
      <3>2. /\ Resolution(call[d].op) # "PENDING"
            /\ Resolution(call[d].op) = "SUCCEEDED" => payment[call[d].on].status # "SUCCEEDED"
        BY <3>1 DEF IInv, Settlings
      <3>3. CASE call[d].on = p
        BY <1>4, <1>9, <1>13, <3>1, <3>2, <3>3
      <3>4. CASE call[d].on # p
        <4>1. payment'[call[d].on] = payment[call[d].on]
          BY <1>4, <3>1, <3>4
        <4>2. call'[d].op = call[d].op /\ call'[d].on = call[d].on
          BY <1>9
        <4> QED BY <3>2, <4>1, <4>2
      <3> QED BY <3>3, <3>4
    <2>2. ASSUME NEW d \in Call, call'[d].todo \in Activating
          PROVE  /\ Resolution(call'[d].op) = "SUCCEEDED"
                 /\ payment'[call'[d].on].status = "SUCCEEDED"
      <3>1. CASE d = c
        BY <1>4, <1>6, <1>9, <2>2, <3>1
      <3>2. CASE d # c
        <4>1. /\ call[d].todo \in Activating /\ Resolution(call[d].op) = "SUCCEEDED"
              /\ payment[call[d].on].status = "SUCCEEDED"
          BY <1>9, <2>2, <3>2 DEF IInv, Settlings
        <4>2. call[d].on = p => status # "SUCCEEDED" /\ Charged(p)
          BY <1>13, <3>2, <4>1
        <4>3. call[d].on # p
          BY <1>2, <1>3, <4>2, Outcomes
        <4> QED BY <1>4, <1>9, <1>13, <3>2, <4>1, <4>3
      <3> QED BY <3>1, <3>2
    <2> QED BY <2>1, <2>2 DEF Settlings, Call
  <1>15. EachIsBought'
    <2>1. PICK f \in [Premium -> Checkout] : Buys(f)
      BY DEF IInv, EachIsBought
    <2>2. Premium' = Premium
      BY DEF Premium, Settle
    <2>3. payment[p].status # "SUCCEEDED"
      BY <1>2, <1>3, Outcomes DEF IInv, PaymentsAgree
    <2>4. \A i \in Premium : f[i] # p /\ payment'[f[i]] = payment[f[i]]
      BY <1>4, <2>1, <2>3 DEF Buys
    <2>5. \A d \in Call : call'[d].todo \in Activating => d = c \/ call[d].todo \in Activating
      BY <1>9
    <2>6. Buys(f)'
      BY <1>9, <2>1, <2>2, <2>4, <2>5 DEF Buys, Call
    <2> QED BY <2>1, <2>2, <2>6 DEF EachIsBought
  <1> QED BY <1>9, <1>11, <1>12, <1>14, <1>15 DEF IInv

-----------------------------------------------------------------------------
(* startCheckout opens a session; activatePremiumSubscription buys a row,  *)
(* and links it                                                            *)

(* A session is opened for a payment that is pending.                      *)
LEMMA OpenSessionKeeps ==
  ASSUME IInv, NEW c \in Call, OpenSession(c)
  PROVE  IInv'
  <1> DEFINE p == call[c].on
  <1>1. /\ call[c].todo \in Opened /\ Rest(c) = <<>> /\ call[c].op = "checkout"
    BY Known, Where, Kinds, OpenedSteps DEF OpenSession, At, Rest
  <1>2. p \in Checkout /\ call[c].todo \notin Opening
    BY <1>1, Known, Apart
  <1>3. /\ stripe[p] = "none" /\ payment[p].status = "PENDING"
        /\ \A d \in Call \ {c} : call[d].on # p
    BY <1>1, <1>2 DEF IInv, Openings
  <1>4. /\ stripe' \in [Checkout -> {"none", "open", "awaiting", "paid", "failed", "expired",
                                     "past_due", "canceled"}]
        /\ stripe'[p] = "open" /\ \A q \in Checkout \ {p} : stripe'[q] = stripe[q]
    BY <1>2 DEF OpenSession, IInv, Typed
  <1>5. /\ call' \in [Call -> CallType] /\ call'[c].todo = <<>>
        /\ \A d \in Call : /\ call'[d].op = call[d].op /\ call'[d].on = call[d].on
                           /\ call'[d].sub = call[d].sub /\ call'[d].plan = call[d].plan
                           /\ d # c => call'[d].todo = call[d].todo
    BY <1>1, GetsOn, Done DEF OpenSession, Goes
  <1>6. Typed'
    <2>1. \A d \in Call : call'[d].todo \in Seq(Statement) /\ call'[d].sub \in 0 .. Len(subs')
      BY <1>5, Done DEF OpenSession, IInv, Typed, TypeOK
    <2> QED BY <1>4, <1>5, <2>1 DEF OpenSession, IInv, Typed, TypeOK, Call
  <1>7. Control'
    BY <1>5, Finished, Known, ControlStays DEF OpenSession
  <1>8. \A q \in Checkout \ {p} : Charged(q)' = Charged(q)
    BY <1>4 DEF Charged
  <1>9. \A q \in Checkout : \A type : Fits(q, type) => Fits(q, type)'
    BY <1>3, <1>4, <1>8 DEF Fits
  <1>10. EventsFit'
    <2>1. \A e \in sent : e.on \in Checkout
      BY DEF IInv, Typed, TypeOK, Event
    <2>2. \A d \in Call : OfEvent(d) => call[d].on \in Checkout
      BY Known, Events DEF OfEvent
    <2> QED BY <1>5, <1>9, <2>1, <2>2 DEF OpenSession, IInv, EventsFit, OfEvent, Call
  <1>11. SuccessIsToldOnce'
    <2>1. \A q, type : Told(q, type)' => Told(q, type)
      BY <1>5 DEF Told, Call, OpenSession
    <2>2. \A q \in Checkout : ~ (Told(q, "completed")' /\ Told(q, "async_succeeded")')
      BY <2>1 DEF IInv, SuccessIsToldOnce
    <2>3. \A d, e \in Call :
            d # e /\ OfEvent(d)' /\ call'[d].op = call'[e].op => call'[d].on # call'[e].on
      BY <1>5 DEF IInv, SuccessIsToldOnce, OfEvent
    <2> QED BY <2>2, <2>3 DEF SuccessIsToldOnce, Call
  <1>12. Openings'
    <2>1. ASSUME NEW d \in Call, call'[d].todo \in Opening \cup Opened
          PROVE  /\ stripe'[call'[d].on] = "none"
                 /\ payment'[call'[d].on].status =
                      IF call'[d].todo \in Opening THEN "none" ELSE "PENDING"
                 /\ \A e \in Call \ {d} : call'[e].on # call'[d].on
      <3>1. d # c /\ call'[d].todo = call[d].todo /\ call[d].on # p
        BY <1>3, <1>5, <2>1, Done
      <3>2. call[d].on \in Checkout
        BY <2>1, <3>1, Known, Kinds
      <3> QED BY <1>4, <1>5, <2>1, <3>1, <3>2 DEF OpenSession, IInv, Openings
    <2>2. \A q \in Checkout : payment'[q].status = "none" => stripe'[q] = "none"
      BY <1>3, <1>4 DEF OpenSession, IInv, Openings
    <2> QED BY <2>1, <2>2 DEF Openings, Call
  <1>13. PaymentsAgree'
    BY <1>3, <1>4, <1>8 DEF OpenSession, IInv, PaymentsAgree
  <1>14. <<>> # <<"settle">> /\ Premium' = Premium
    BY DEF Premium, OpenSession
  <1>15. \A d \in Call : call'[d].todo \in Activating \cup Linking \cup Syncing \cup {<<"settle">>} =>
           d # c /\ call'[d].todo = call[d].todo
    BY <1>5, <1>14, Done
  <1>16. Settlings'
    BY <1>5, <1>15 DEF OpenSession, IInv, Settlings, Call
  <1>17. EachIsBought'
    <2>1. PICK f \in [Premium -> Checkout] : Buys(f)
      BY DEF IInv, EachIsBought
    <2>2. Buys(f)'
      BY <1>5, <1>14, <1>15, <2>1 DEF OpenSession, Buys, Call
    <2> QED BY <1>14, <2>1, <2>2 DEF EachIsBought
  <1>18. Linkings'
    <2>1. ASSUME NEW d \in Call, call'[d].todo \in Linking
          PROVE  /\ call'[d].sub \in Premium'
                 /\ subs'[call'[d].sub].ref \in {call'[d].on, "none"}
                 /\ \A q \in Checkout : payment'[q].sub # call'[d].sub
                 /\ \A e \in Call \ {d} : call'[e].todo \in Linking => call'[e].sub # call'[d].sub
      BY <1>5, <1>14, <1>15, <2>1 DEF OpenSession, IInv, Linkings
    <2> QED BY <2>1 DEF Linkings, Call
  <1>19. Links' /\ Plans'
    BY <1>5, <1>14, <1>15 DEF OpenSession, IInv, Links, Plans, Call
  <1> QED BY <1>6, <1>7, <1>10, <1>11, <1>12, <1>13, <1>16, <1>17, <1>18, <1>19 DEF IInv

(* The row that is inserted is bought by the payment being served.         *)
LEMMA InsertPremiumKeeps ==
  ASSUME IInv, NEW c \in Call, InsertPremium(c)
  PROVE  IInv'
  <1> DEFINE p == call[c].on
             n == Len(subs) + 1
             new == [plan |-> "PREMIUM", status |-> "ACTIVE", until |-> now + Period,
                     ref |-> IF call[c].ref THEN p ELSE "none"]
  <1>1. /\ call[c].todo \in Activating /\ Rest(c) = <<"readRole", "writeRole", "link">>
    BY Known, Where, ActivatingSteps DEF InsertPremium, At, Rest
  <1>2. call[c].op \in CheckoutEvent /\ p \in Checkout /\ Fits(p, call[c].op)
    BY <1>1, Resolvers
  <1>3. Resolution(call[c].op) = "SUCCEEDED" /\ payment[p].status = "SUCCEEDED"
    BY <1>1 DEF IInv, Settlings
  <1>4. new \in SubscriptionRow /\ new.plan = "PREMIUM" /\ new.ref \in {p, "none"}
        /\ subs' = Append(subs, new)
    BY <1>2, BillingAssumption DEF SubscriptionRow, InsertPremium, IInv, Typed
  <1> HIDE DEF new
  <1>5. /\ Len(subs) \in Nat /\ Len(subs') = n
        /\ DOMAIN subs = 1 .. Len(subs) /\ DOMAIN subs' = 1 .. n
        /\ subs' \in Seq(SubscriptionRow)
        /\ \A i \in DOMAIN subs : subs'[i] = subs[i]
        /\ subs'[n] = new
    BY <1>4, Appended, Left
  <1>6. Premium' = Premium \cup {n} /\ n \notin Premium /\ Premium \subseteq 1 .. Len(subs)
    BY <1>4, <1>5 DEF Premium
  <1>7. Rest(c) \in Linking /\ Rest(c) \in Seq(Statement)
    BY <1>1, Lists DEF Linking
  <1>8. /\ Rest(c) \notin Opening \cup Opened \cup Activating \cup Syncing
        /\ Rest(c) # <<"settle">>
    <2>1. <<"settle">> \in Resolving
      BY DEF Resolving
    <2> QED BY <1>7, <2>1, Apart
  <1>9. /\ call' \in [Call -> CallType]
        /\ call'[c].todo = Rest(c) /\ call'[c].sub = n /\ call'[c].plan = "PREMIUM"
        /\ \A d \in Call : /\ call'[d].op = call[d].op /\ call'[d].on = call[d].on
                           /\ d # c => call'[d] = call[d]
    <2>1. call \in [Call -> CallType] /\ n \in Nat
      BY <1>5 DEF IInv, Typed
    <2>2. /\ call'[c] = [call[c] EXCEPT !.todo = Rest(c), !.plan = "PREMIUM", !.sub = n]
          /\ \A d \in Call \ {c} : call'[d] = call[d]
          /\ DOMAIN call' = Call /\ call' = [d \in Call |-> call'[d]]
      BY <2>1 DEF InsertPremium
    <2> HIDE DEF n
    <2>3. call[c] \in CallType /\ call'[c] \in CallType
      BY <1>7, <2>1, <2>2 DEF CallType
    <2>4. /\ call'[c].todo = Rest(c) /\ call'[c].sub = n /\ call'[c].plan = "PREMIUM"
          /\ call'[c].op = call[c].op /\ call'[c].on = call[c].on
      BY <2>2, <2>3 DEF CallType
    <2>5. call' \in [Call -> CallType]
      BY <2>1, <2>2, <2>3
    <2> QED BY <2>2, <2>4, <2>5
  <1> HIDE DEF n
  <1>10. Typed'
    <2>1. \A d \in Call : call'[d].todo \in Seq(Statement) /\ call'[d].sub \in 0 .. Len(subs')
      <3>1. n \in 0 .. Len(subs')
        BY <1>5 DEF n
      <3>2. ASSUME NEW d \in Call, d # c PROVE call'[d].sub \in 0 .. Len(subs')
        BY <1>5, <1>9, <3>2, Known DEF n
      <3> QED BY <1>9, <3>1, <3>2 DEF CallType
    <2>2. payment' \in [Checkout ->
            [status : {"none", "PENDING", "SUCCEEDED", "FAILED", "CANCELED"},
             ref : BOOLEAN, sub : 0 .. Len(subs')]]
      <3>1. 0 .. Len(subs) \subseteq 0 .. Len(subs')
        BY <1>5 DEF n
      <3> QED BY <3>1 DEF InsertPremium, IInv, Typed, TypeOK
    <2>3. TypeOK'
      BY <1>5, <2>1, <2>2 DEF InsertPremium, IInv, Typed, TypeOK, SubscriptionRow, Call
    <2> QED BY <1>9, <2>3 DEF InsertPremium, IInv, Typed
  <1>11. Control'
    <2>1. Standing(call[c].op, Rest(c))
      BY <1>2, <1>7, Events DEF Standing
    <2> QED BY <1>9, <2>1, Known, ControlStays DEF InsertPremium
  <1>12. EventsFit'
    <2>1. \A q, type : Fits(q, type)' = Fits(q, type)
      BY DEF Fits, Charged, InsertPremium
    <2> QED BY <1>9, <2>1 DEF InsertPremium, IInv, EventsFit, OfEvent, Call
  <1>13. SuccessIsToldOnce'
    <2>1. \A q, type : Told(q, type)' => Told(q, type)
      BY <1>9 DEF Told, Call, InsertPremium
    <2>2. \A q \in Checkout : ~ (Told(q, "completed")' /\ Told(q, "async_succeeded")')
      BY <2>1 DEF IInv, SuccessIsToldOnce
    <2>3. \A d, e \in Call :
            d # e /\ OfEvent(d)' /\ call'[d].op = call'[e].op => call'[d].on # call'[e].on
      BY <1>9 DEF IInv, SuccessIsToldOnce, OfEvent
    <2> QED BY <2>2, <2>3 DEF SuccessIsToldOnce, Call
  <1>14. Openings'
    <2>1. ASSUME NEW d \in Call, call'[d].todo \in Opening \cup Opened
          PROVE  /\ stripe'[call'[d].on] = "none"
                 /\ payment'[call'[d].on].status =
                      IF call'[d].todo \in Opening THEN "none" ELSE "PENDING"
                 /\ \A e \in Call \ {d} : call'[e].on # call'[d].on
      <3>1. d # c
        BY <1>8, <1>9, <2>1
      <3> QED BY <1>9, <2>1, <3>1 DEF InsertPremium, IInv, Openings
    <2> QED BY <2>1 DEF InsertPremium, IInv, Openings, Call
  <1>15. PaymentsAgree'
    BY DEF InsertPremium, IInv, PaymentsAgree, Charged
  <1>16. Settlings'
    BY <1>8, <1>9 DEF InsertPremium, IInv, Settlings, Call
  <1>17. EachIsBought'
    <2>1. PICK f \in [Premium -> Checkout] : Buys(f)
      BY DEF IInv, EachIsBought
    <2>2. \A i \in Premium : f[i] # p
      BY <1>1, <2>1 DEF Buys
    <2>3. PICK g \in [Premium' -> Checkout] : g[n] = p /\ \A i \in Premium : g[i] = f[i]
      <3> DEFINE h == [i \in Premium' |-> IF i = n THEN p ELSE f[i]]
      <3>1. h \in [Premium' -> Checkout] /\ h[n] = p /\ \A i \in Premium : h[i] = f[i]
        BY <1>2, <1>6, <2>1
      <3> QED BY <3>1
    <2>4. \A i, k \in Premium' : g[i] = g[k] => i = k
      BY <1>6, <2>1, <2>2, <2>3 DEF Buys
    <2>5. \A i \in Premium' : payment'[g[i]].status = "SUCCEEDED"
      BY <1>3, <1>6, <2>1, <2>3 DEF Buys, InsertPremium
    <2>6. \A d \in Call : call'[d].todo \in Activating => d # c /\ call[d].todo \in Activating
      BY <1>8, <1>9
    <2>7. \A d \in Call \ {c} : call[d].todo \in Activating => call[d].on # p
      <3>1. ASSUME NEW d \in Call \ {c}, call[d].todo \in Activating PROVE call[d].on # p
        <4>1. call[d].op \in CheckoutEvent /\ call[d].on \in Checkout
              /\ Fits(call[d].on, call[d].op) /\ Resolution(call[d].op) = "SUCCEEDED"
          BY <3>1, Resolvers DEF IInv, Settlings
        <4>2. /\ call[d].op \in {"completed", "async_succeeded"}
              /\ call[c].op \in {"completed", "async_succeeded"}
          BY <1>2, <1>3, <4>1, Outcomes
        <4> QED BY <1>2, <4>2, SuccessIsServedOnce
      <3> QED BY <3>1
    <2>8. \A d \in Call, i \in Premium' : call'[d].todo \in Activating => g[i] # call'[d].on
      BY <1>6, <1>9, <2>1, <2>3, <2>6, <2>7 DEF Buys
    <2>9. Buys(g)'
      BY <2>4, <2>5, <2>8 DEF Buys, Call
    <2> QED BY <2>3, <2>9 DEF EachIsBought
  <1>18. \A d \in Call : call[d].sub < n
    BY <1>5, Known DEF n
  <1>19. \A q \in Checkout : payment[q].sub < n
    BY <1>5 DEF n, IInv, Typed, TypeOK
  <1>20. Linkings'
    <2>1. ASSUME NEW d \in Call, call'[d].todo \in Linking
          PROVE  /\ call'[d].sub \in Premium'
                 /\ subs'[call'[d].sub].ref \in {call'[d].on, "none"}
                 /\ \A q \in Checkout : payment'[q].sub # call'[d].sub
                 /\ \A e \in Call \ {d} : call'[e].todo \in Linking => call'[e].sub # call'[d].sub
      <3>0. n \in Nat
        BY <1>5 DEF n
      <3>1. CASE d = c
        <4>1. \A q \in Checkout : payment'[q].sub # n
          BY <1>19, <3>0 DEF InsertPremium
        <4>2. \A e \in Call \ {c} : call'[e].sub # n
          BY <1>9, <1>18, <3>0
        <4> QED BY <1>4, <1>5, <1>6, <1>9, <3>1, <4>1, <4>2
      <3>2. CASE d # c
        <4>1. /\ call'[d] = call[d] /\ call[d].sub \in Premium
              /\ subs[call[d].sub].ref \in {call[d].on, "none"}
              /\ \A q \in Checkout : payment[q].sub # call[d].sub
              /\ \A e \in Call \ {d} : call[e].todo \in Linking => call[e].sub # call[d].sub
          BY <1>9, <2>1, <3>2 DEF IInv, Linkings
        <4>2. subs'[call[d].sub] = subs[call[d].sub] /\ call[d].sub # n
          BY <1>5, <1>6, <4>1
        <4> QED BY <1>6, <1>9, <4>1, <4>2 DEF InsertPremium
      <3> QED BY <3>1, <3>2
    <2> QED BY <2>1 DEF Linkings, Call
  <1>21. Links'
    <2>1. \A i \in Premium : i \in Premium' /\ subs'[i] = subs[i]
      BY <1>5, <1>6
    <2> QED BY <2>1 DEF InsertPremium, IInv, Links
  <1>22. Plans'
    <2>1. \A d \in Call : call'[d].todo \in Syncing =>
            call'[d].sub \in DOMAIN subs' /\ subs'[call'[d].sub].ref = call'[d].on
      <3>1. \A d \in Call : call'[d].todo \in Syncing => d # c
        BY <1>8, <1>9
      <3>2. DOMAIN subs \subseteq DOMAIN subs'
        BY <1>5 DEF n
      <3> QED BY <1>5, <1>9, <3>1, <3>2 DEF IInv, Plans
    <2> QED BY <1>6, <2>1 DEF Plans, Call
  <1> QED BY <1>10, <1>11, <1>12, <1>13, <1>14, <1>15, <1>16, <1>17, <1>20, <1>21, <1>22 DEF IInv

(* A row is linked to the payment that bought it, and to no other.         *)
LEMMA LinkPaymentKeeps ==
  ASSUME IInv, NEW c \in Call, LinkPayment(c)
  PROVE  IInv'
  <1> DEFINE p == call[c].on
             s == call[c].sub
  <1>1. /\ call[c].todo \in Linking /\ Rest(c) = <<>> /\ call[c].op \in CheckoutEvent
    BY Known, Where, Kinds, LinkingSteps DEF LinkPayment, At, Rest
  <1>2. p \in Checkout
    BY <1>1, Known, Events
  <1>3. /\ s \in Premium /\ subs[s].ref \in {p, "none"}
        /\ \A q \in Checkout : payment[q].sub # s
        /\ \A d \in Call \ {c} : call[d].todo \in Linking => call[d].sub # s
    BY <1>1 DEF IInv, Linkings
  <1>4. /\ payment' \in [Checkout -> PaymentRow]
        /\ payment'[p].sub = s
        /\ \A q \in Checkout : payment'[q].status = payment[q].status
        /\ \A q \in Checkout \ {p} : payment'[q].sub = payment[q].sub
    <2>1. payment \in [Checkout -> PaymentRow] /\ s \in Nat
      BY Left, Known DEF CallType
    <2> QED BY <1>2, <2>1 DEF LinkPayment, PaymentRow
  <1>5. /\ call' \in [Call -> CallType] /\ call'[c].todo = <<>>
        /\ \A d \in Call : /\ call'[d].op = call[d].op /\ call'[d].on = call[d].on
                           /\ call'[d].sub = call[d].sub /\ call'[d].plan = call[d].plan
                           /\ d # c => call'[d].todo = call[d].todo
    BY <1>1, GetsOn, Done DEF LinkPayment, Goes
  <1>6. Premium' = Premium /\ <<>> # <<"settle">>
    BY DEF Premium, LinkPayment
  <1>7. \A d \in Call :
          call'[d].todo \in Opening \cup Opened \cup Activating \cup Linking \cup Syncing
                               \cup {<<"settle">>} =>
            d # c /\ call'[d].todo = call[d].todo
    BY <1>5, <1>6, Done
  <1>8. Typed'
    <2>1. \A d \in Call : call'[d].todo \in Seq(Statement) /\ call'[d].sub \in 0 .. Len(subs')
      BY <1>5, Done DEF LinkPayment, IInv, Typed, TypeOK
    <2>2. payment' \in [Checkout ->
            [status : {"none", "PENDING", "SUCCEEDED", "FAILED", "CANCELED"},
             ref : BOOLEAN, sub : 0 .. Len(subs')]]
      <3>1. s \in 0 .. Len(subs)
        BY Known
      <3>2. \A q \in Checkout : payment'[q].sub \in 0 .. Len(subs')
        BY <1>4, <3>1 DEF LinkPayment, IInv, Typed, TypeOK
      <3> QED BY <1>4, <3>2 DEF PaymentRow
    <2> QED BY <1>5, <2>1, <2>2 DEF LinkPayment, IInv, Typed, TypeOK, Call
  <1>9. Control'
    BY <1>5, Finished, Known, ControlStays DEF LinkPayment
  <1>10. EventsFit'
    <2>1. \A q, type : Fits(q, type)' = Fits(q, type)
      BY DEF Fits, Charged, LinkPayment
    <2> QED BY <1>5, <2>1 DEF LinkPayment, IInv, EventsFit, OfEvent, Call
  <1>11. SuccessIsToldOnce'
    <2>1. \A q, type : Told(q, type)' => Told(q, type)
      BY <1>5 DEF Told, Call, LinkPayment
    <2>2. \A q \in Checkout : ~ (Told(q, "completed")' /\ Told(q, "async_succeeded")')
      BY <2>1 DEF IInv, SuccessIsToldOnce
    <2>3. \A d, e \in Call :
            d # e /\ OfEvent(d)' /\ call'[d].op = call'[e].op => call'[d].on # call'[e].on
      BY <1>5 DEF IInv, SuccessIsToldOnce, OfEvent
    <2> QED BY <2>2, <2>3 DEF SuccessIsToldOnce, Call
  <1>12. Openings'
    <2>1. ASSUME NEW d \in Call, call'[d].todo \in Opening \cup Opened
          PROVE  /\ stripe'[call'[d].on] = "none"
                 /\ payment'[call'[d].on].status =
                      IF call'[d].todo \in Opening THEN "none" ELSE "PENDING"
                 /\ \A e \in Call \ {d} : call'[e].on # call'[d].on
      <3>1. call'[d].todo = call[d].todo
        BY <1>7, <2>1
      <3>2. call[d].on \in Checkout
        BY <2>1, <3>1, Known, Kinds
      <3> QED BY <1>4, <1>5, <2>1, <3>1, <3>2 DEF LinkPayment, IInv, Openings
    <2> QED BY <1>4, <2>1 DEF LinkPayment, IInv, Openings, Call
  <1>13. PaymentsAgree'
    BY <1>4 DEF LinkPayment, IInv, PaymentsAgree, Charged
  <1>14. Settlings'
    <2>1. \A d \in Call : call'[d].todo \in Activating \cup {<<"settle">>} =>
            /\ call[d].todo = call'[d].todo /\ call'[d].op = call[d].op
            /\ payment'[call'[d].on].status = payment[call[d].on].status
      <3>1. \A d \in Call : call[d].todo \in Activating \cup {<<"settle">>} =>
              call[d].on \in Checkout
        BY Resolvers
      <3> QED BY <1>4, <1>5, <1>7, <3>1
    <2> QED BY <2>1 DEF IInv, Settlings, Call
  <1>15. EachIsBought'
    <2>1. PICK f \in [Premium -> Checkout] : Buys(f)
      BY DEF IInv, EachIsBought
    <2>2. Buys(f)'
      BY <1>4, <1>5, <1>6, <1>7, <2>1 DEF Buys, Call
    <2> QED BY <1>6, <2>1, <2>2 DEF EachIsBought
  <1>16. Linkings'
    <2>1. ASSUME NEW d \in Call, call'[d].todo \in Linking
          PROVE  /\ call'[d].sub \in Premium'
                 /\ subs'[call'[d].sub].ref \in {call'[d].on, "none"}
                 /\ \A q \in Checkout : payment'[q].sub # call'[d].sub
                 /\ \A e \in Call \ {d} : call'[e].todo \in Linking => call'[e].sub # call'[d].sub
      <3>1. /\ d # c /\ call[d].todo \in Linking
            /\ call'[d].sub = call[d].sub /\ call'[d].on = call[d].on
        BY <1>5, <1>7, <2>1
      <3>2. /\ call[d].sub \in Premium
            /\ subs[call[d].sub].ref \in {call[d].on, "none"}
            /\ \A q \in Checkout : payment[q].sub # call[d].sub
            /\ \A e \in Call \ {d} : call[e].todo \in Linking => call[e].sub # call[d].sub
        BY <3>1 DEF IInv, Linkings
      <3>3. \A q \in Checkout : payment'[q].sub # call[d].sub
        BY <1>3, <1>4, <3>1, <3>2
      <3> QED BY <1>5, <1>6, <1>7, <3>1, <3>2, <3>3 DEF LinkPayment
    <2> QED BY <2>1 DEF Linkings, Call
  <1>17. Links'
    <2>1. ASSUME NEW q \in Checkout, payment'[q].sub # 0
          PROVE  /\ payment'[q].sub \in Premium'
                 /\ subs'[payment'[q].sub].ref \in {q, "none"}
                 /\ \A o \in Checkout \ {q} : payment'[o].sub # payment'[q].sub
      <3>1. CASE q = p
        BY <1>3, <1>4, <1>6, <3>1 DEF LinkPayment
      <3>2. CASE q # p
        <4>1. /\ payment'[q].sub = payment[q].sub /\ payment[q].sub \in Premium
              /\ subs[payment[q].sub].ref \in {q, "none"}
              /\ \A o \in Checkout \ {q} : payment[o].sub # payment[q].sub
          BY <1>4, <2>1, <3>2 DEF IInv, Links
        <4> QED BY <1>3, <1>4, <1>6, <4>1 DEF LinkPayment
      <3> QED BY <3>1, <3>2
    <2> QED BY <2>1 DEF Links
  <1>18. Plans'
    BY <1>5, <1>6, <1>7 DEF LinkPayment, IInv, Plans, Call
  <1> QED BY <1>8, <1>9, <1>10, <1>11, <1>12, <1>13, <1>14, <1>15, <1>16, <1>17, <1>18 DEF IInv

-----------------------------------------------------------------------------
(* The process, the clock and Stripe                                       *)

(* What the invariant says of rows and of what calls owe is kept when no   *)
(* row and no call changes.                                                *)
LEMMA RowsRest ==
  ASSUME IInv, UNCHANGED <<subs, payment, role, call>>
  PROVE  Settlings' /\ EachIsBought' /\ Linkings' /\ Links' /\ Plans'
  <1>1. Settlings' /\ Linkings' /\ Links' /\ Plans'
    BY DEF IInv, Settlings, Linkings, Links, Plans, Call, Premium
  <1>2. EachIsBought'
    <2>1. PICK f \in [Premium -> Checkout] : Buys(f)
      BY DEF IInv, EachIsBought
    <2>2. Premium' = Premium
      BY DEF Premium
    <2>3. Buys(f)'
      BY <2>1, <2>2 DEF Buys, Call
    <2> QED BY <2>1, <2>2, <2>3 DEF EachIsBought
  <1> QED BY <1>1, <1>2

(* A crash: every call is gone, and with it what it owed.                  *)
LEMMA CrashKeeps ==
  ASSUME IInv, Crash
  PROVE  IInv'
  <1>1. /\ call' \in [Call -> CallType] /\ \A d \in Call : call'[d] = NoCall
        /\ UNCHANGED <<subs, payment, invoices, role, stripe, sent, now>>
        /\ processed' = {}
    BY NoCallType DEF Crash
  <1>2. \A d \in Call : /\ call'[d].op = "none" /\ call'[d].on = "none"
                        /\ call'[d].todo = <<>> /\ call'[d].plan = "none"
                        /\ call'[d].sub = 0
    BY <1>1, NoCallType
  <1>3. \A d \in Call : ~ OfEvent(d)'
    BY <1>2, Events DEF OfEvent
  <1>4. Typed'
    <2>1. 0 \in 0 .. Len(subs')
      BY <1>1, Left, Indices
    <2>2. \A d \in Call : call'[d].todo \in Seq(Statement) /\ call'[d].sub \in 0 .. Len(subs')
      BY <1>2, <2>1, Done
    <2> QED BY <1>1, <2>2 DEF IInv, Typed, TypeOK, Call
  <1>5. Control'
    <2>1. Standing("none", <<>>)
      BY Done DEF Op
    <2> QED BY <1>2, <1>3, <2>1 DEF Control, Call
  <1>6. EventsFit'
    BY <1>1, <1>3 DEF IInv, EventsFit, Fits, Charged, Call
  <1>7. SuccessIsToldOnce'
    <2>1. \A q \in Checkout, type \in EventType : Told(q, type)' => Told(q, type)
      BY <1>1, <1>2, Events DEF Told, Call
    <2>2. {"completed", "async_succeeded"} \subseteq EventType
      BY DEF EventType
    <2>3. \A q \in Checkout : ~ (Told(q, "completed")' /\ Told(q, "async_succeeded")')
      BY <2>1, <2>2 DEF IInv, SuccessIsToldOnce
    <2> QED BY <1>3, <2>3 DEF SuccessIsToldOnce, Call
  <1>8. /\ \A d \in Call : call'[d].todo \notin Opening \cup Opened \cup Activating
                                                \cup Linking \cup Syncing
        /\ <<>> # <<"settle">>
    BY <1>2, Done
  <1>9. Openings'
    BY <1>1, <1>8 DEF IInv, Openings, Call
  <1>10. PaymentsAgree'
    BY <1>1 DEF IInv, PaymentsAgree, Charged
  <1>11. Settlings' /\ Linkings'
    BY <1>2, <1>8 DEF Settlings, Linkings, Call
  <1>12. EachIsBought'
    <2>1. PICK f \in [Premium -> Checkout] : Buys(f)
      BY DEF IInv, EachIsBought
    <2>2. Premium' = Premium
      BY <1>1 DEF Premium
    <2>3. Buys(f)'
      BY <1>1, <1>8, <2>1, <2>2 DEF Buys, Call
    <2> QED BY <2>1, <2>2, <2>3 DEF EachIsBought
  <1>13. Links' /\ Plans'
    BY <1>1, <1>2, <1>8 DEF IInv, Links, Plans, Call, Premium
  <1> QED BY <1>4, <1>5, <1>6, <1>7, <1>9, <1>10, <1>11, <1>12, <1>13 DEF IInv

(* A mark is only forgotten when no delivery serves its event.             *)
LEMMA ForgetKeeps ==
  ASSUME IInv, NEW e \in processed, Forget(e)
  PROVE  IInv'
  <1>1. /\ UNCHANGED <<subs, payment, invoices, role, call, stripe, sent, now>>
        /\ processed' = processed \ {e}
    BY DEF Forget
  <1>2. Typed' /\ EventsFit' /\ Openings' /\ PaymentsAgree'
    BY <1>1 DEF IInv, Typed, TypeOK, EventsFit, Openings, PaymentsAgree, Call, OfEvent,
                Fits, Charged
  <1>3. SuccessIsToldOnce'
    BY <1>1 DEF IInv, SuccessIsToldOnce, Told, OfEvent, Call
  <1>4. Control'
    <2>1. ASSUME NEW d \in Call, OfEvent(d) PROVE EventOf(d) \in processed'
      <3>1. d \in Hook /\ EventOf(d) \in processed
        BY <2>1, Known
      <3>2. ~ (call[d].on = e.on /\ call[d].op = e.type)
        BY <3>1 DEF Forget
      <3>3. EventOf(d).on = call[d].on /\ EventOf(d).type = call[d].op
        BY DEF EventOf
      <3> QED BY <1>1, <3>1, <3>2, <3>3
    <2> QED BY <1>1, <2>1 DEF IInv, Control, OfEvent, EventOf, Call
  <1> QED BY <1>1, <1>2, <1>3, <1>4, RowsRest DEF IInv

(* The day is no part of what is promised of payments.                     *)
LEMMA NextDayKeeps ==
  ASSUME IInv, NextDay
  PROVE  IInv'
  <1>1. /\ UNCHANGED <<subs, payment, invoices, role, call, processed, stripe, sent>>
        /\ now' = now + 1
    BY DEF NextDay
  <1>2. Typed'
    BY <1>1 DEF IInv, Typed, TypeOK, Call
  <1>3. Control' /\ EventsFit' /\ SuccessIsToldOnce' /\ Openings' /\ PaymentsAgree'
    BY <1>1 DEF IInv, Control, EventsFit, SuccessIsToldOnce, Told, Openings, PaymentsAgree,
                Call, OfEvent, EventOf, Fits, Charged
  <1> QED BY <1>1, <1>2, <1>3, RowsRest DEF IInv

StripeState ==
  {"none", "open", "awaiting", "paid", "failed", "expired", "past_due", "canceled"}

(* Stripe moves a checkout on: what it has sent before still fits, and it  *)
(* reports success of a checkout that it has not charged yet.              *)
LEMMA StripeMovesKeeps ==
  ASSUME IInv, NEW p \in Checkout, NEW from, NEW to, NEW types \in SUBSET EventType,
         StripeMoves(p, from, to, types),
         from \in {"open", "awaiting", "paid", "past_due"},
         to \in StripeState \ {"none", "open"},
         from \in {"paid", "past_due"} => to \in {"past_due", "canceled"},
         types \cap {"completed", "async_succeeded", "sub_active", "invoice_paid",
                     "sub_past_due", "invoice_failed", "sub_deleted"} # {} =>
           to \in {"paid", "past_due", "canceled"},
         types \cap {"sub_past_due", "invoice_failed", "sub_deleted"} # {} =>
           to \in {"past_due", "canceled"},
         "async_failed" \in types => to = "failed",
         "expired" \in types => to = "expired",
         types \cap {"completed", "async_succeeded"} # {} => from \in {"open", "awaiting"},
         ~ {"completed", "async_succeeded"} \subseteq types
  PROVE  IInv'
  <1>1. /\ UNCHANGED <<subs, payment, invoices, role, call, processed, now>>
        /\ stripe[p] = from
        /\ sent' = sent \cup {[on |-> p, type |-> t] : t \in types \cap Subscribed}
    BY DEF StripeMoves
  <1>2. /\ stripe' \in [Checkout -> StripeState] /\ stripe'[p] = to
        /\ \A q \in Checkout \ {p} : stripe'[q] = stripe[q]
    <2>1. stripe \in [Checkout -> StripeState]
      BY DEF IInv, Typed, StripeState
    <2> QED BY <2>1 DEF StripeMoves
  <1>3. \A e \in sent' : e \in sent \/ \E t \in types : e = [on |-> p, type |-> t]
    BY <1>1
  <1>4. Typed'
    <2>1. sent' \subseteq Event
      BY <1>3 DEF IInv, Typed, TypeOK, Event
    <2> QED BY <1>1, <1>2, <2>1 DEF IInv, Typed, TypeOK, Call, StripeState
  <1>5. Control'
    BY <1>1 DEF IInv, Control, OfEvent, EventOf, Call
  <1>6. ASSUME NEW q \in Checkout, NEW type \in EventType, Fits(q, type)
        PROVE  Fits(q, type)'
    <2>1. CASE q # p
      BY <1>2, <1>6, <2>1 DEF Fits, Charged
    <2>2. CASE q = p
      BY <1>1, <1>2, <1>6, <2>2 DEF Fits, Charged, StripeState
    <2> QED BY <2>1, <2>2
  <1>7. \A t \in types : Fits(p, t)'
    BY <1>2 DEF Fits, Charged, StripeState
  <1>8. EventsFit'
    <2>1. \A e \in sent' : Fits(e.on, e.type)'
      <3>1. ASSUME NEW e \in sent PROVE Fits(e.on, e.type)'
        BY <1>6 DEF IInv, EventsFit, Typed, TypeOK, Event
      <3>2. ASSUME NEW t \in types, NEW e, e = [on |-> p, type |-> t]
            PROVE  Fits(e.on, e.type)'
        BY <1>7, <3>2
      <3> QED BY <1>3, <3>1, <3>2
    <2>2. ASSUME NEW d \in Call, OfEvent(d) PROVE Fits(call[d].on, call[d].op)'
      <3>1. PICK q \in Checkout, t \in EventType :
              q = call[d].on /\ t = call[d].op /\ Fits(q, t)
        BY <2>2, Known, Events DEF OfEvent
      <3>2. Fits(q, t)' /\ call'[d].on = q /\ call'[d].op = t
        BY <1>1, <1>6, <3>1
      <3> QED BY <3>2 DEF Fits, Charged
    <2> QED BY <1>1, <2>1, <2>2 DEF EventsFit, OfEvent, Call
  <1>9. \A t \in EventType : Told(p, t) => Fits(p, t)
    BY Known DEF IInv, EventsFit, Told, OfEvent
  <1>10. SuccessIsToldOnce'
    <2>1. {"completed", "async_succeeded"} \subseteq EventType
      BY DEF EventType
    <2>2. \A q \in Checkout, t \in EventType :
            Told(q, t)' => Told(q, t) \/ (q = p /\ t \in types)
      <3> SUFFICES ASSUME NEW q \in Checkout, NEW t \in EventType, Told(q, t)'
                   PROVE  Told(q, t) \/ (q = p /\ t \in types)
        OBVIOUS
      <3>1. CASE \E d \in Call : call'[d].on = q /\ call'[d].op = t
        BY <1>1, <3>1 DEF Told
      <3>2. CASE [on |-> q, type |-> t] \in sent'
        BY <1>3, <3>2 DEF Told
      <3> QED BY <3>1, <3>2 DEF Told, Call
    <2>3. types \cap {"completed", "async_succeeded"} # {} =>
            ~ Told(p, "completed") /\ ~ Told(p, "async_succeeded")
      BY <1>1, <1>9, <2>1 DEF Fits, Charged
    <2>4. \A q \in Checkout : ~ (Told(q, "completed")' /\ Told(q, "async_succeeded")')
      BY <2>1, <2>2, <2>3 DEF IInv, SuccessIsToldOnce
    <2> QED BY <1>1, <2>4 DEF IInv, SuccessIsToldOnce, OfEvent, Call
  <1>11. Openings'
    <2>1. ASSUME NEW d \in Call, call[d].todo \in Opening \cup Opened
          PROVE  stripe'[call[d].on] = "none"
      <3>1. stripe[call[d].on] = "none" /\ call[d].on \in Checkout
        BY <2>1, Known, Kinds DEF IInv, Openings
      <3> QED BY <1>1, <1>2, <3>1
    <2>2. \A q \in Checkout : payment[q].status = "none" => stripe'[q] = "none"
      BY <1>1, <1>2 DEF IInv, Openings
    <2> QED BY <1>1, <2>1, <2>2 DEF IInv, Openings, Call
  <1>12. PaymentsAgree'
    BY <1>1, <1>2 DEF IInv, PaymentsAgree, Charged
  <1> QED BY <1>1, <1>4, <1>5, <1>8, <1>10, <1>11, <1>12, RowsRest DEF IInv

(* Each step of Stripe is one that StripeMovesKeeps speaks of.             *)
LEMMA StripeKeeps ==
  ASSUME IInv, NEW p \in Checkout, StripeSteps(p)
  PROVE  IInv'
  <1>1. CASE Pay(p)
    BY <1>1, StripeMovesKeeps DEF Pay, EventType, StripeState
  <1>2. CASE PayLater(p)
    BY <1>2, StripeMovesKeeps DEF PayLater, EventType, StripeState
  <1>3. CASE Confirm(p)
    BY <1>3, StripeMovesKeeps DEF Confirm, EventType, StripeState
  <1>4. CASE Reject(p)
    BY <1>4, StripeMovesKeeps DEF Reject, EventType, StripeState
  <1>5. CASE ExpireSession(p)
    BY <1>5, StripeMovesKeeps DEF ExpireSession, EventType, StripeState
  <1>6. CASE MissRenewal(p)
    BY <1>6, StripeMovesKeeps DEF MissRenewal, EventType, StripeState
  <1>7. CASE CancelPlan(p)
    BY <1>7, StripeMovesKeeps DEF CancelPlan, EventType, StripeState
  <1> QED BY <1>1, <1>2, <1>3, <1>4, <1>5, <1>6, <1>7 DEF StripeSteps

-----------------------------------------------------------------------------
(* The invariant                                                           *)

(* At the start there is nothing to promise.                               *)
LEMMA InitInv ==
  ASSUME Init
  PROVE  IInv
  <1>1. /\ call \in [Call -> CallType] /\ \A d \in Call : call[d] = NoCall
        /\ subs = <<>> /\ invoices = {} /\ processed = {} /\ sent = {} /\ now = 0
        /\ payment = [p \in Checkout |-> [status |-> "none", ref |-> FALSE, sub |-> 0]]
        /\ stripe = [p \in Checkout |-> "none"] /\ role \in Roles
    BY NoCallType DEF Init
  <1>2. \A d \in Call : /\ call[d].op = "none" /\ call[d].on = "none" /\ call[d].todo = <<>>
                        /\ call[d].plan = "none" /\ call[d].sub = 0
    BY <1>1, NoCallType
  <1>3. /\ \A d \in Call : ~ OfEvent(d)
        /\ \A d \in Call : call[d].todo \notin Opening \cup Opened \cup Activating
                                               \cup Linking \cup Syncing
        /\ <<>> # <<"settle">>
    BY <1>2, Events, Done DEF OfEvent
  <1>4. \A p \in Checkout : /\ payment[p].status = "none" /\ payment[p].sub = 0
                            /\ stripe[p] = "none"
    BY <1>1
  <1>5. Premium = {}
    BY <1>1 DEF Premium
  <1>6. Typed
    <2>1. /\ subs \in Seq([plan : {"FREE", "PREMIUM"},
                           status : {"ACTIVE", "INACTIVE", "CANCELED", "EXPIRED"},
                           until : Int, ref : Checkout \cup {"none"}])
          /\ Len(subs) = 0
      BY <1>1
    <2>2. payment \in [Checkout ->
            [status : {"none", "PENDING", "SUCCEEDED", "FAILED", "CANCELED"},
             ref : BOOLEAN, sub : 0 .. Len(subs)]]
      BY <1>1, <2>1
    <2>3. role \in {"USER", "PREMIUM", "ADMIN", "SPECIALIST"}
      BY <1>1, BillingAssumption
    <2>4. \A d \in Call : call[d].todo \in Seq(Statement) /\ call[d].sub \in 0 .. Len(subs)
      <3>1. 0 \in 0 .. Len(subs)
        BY <2>1
      <3> QED BY <1>2, <3>1, Done
    <2>5. TypeOK
      <3>1. invoices \subseteq Checkout \X EventType /\ processed \subseteq Event /\ sent \subseteq Event
        BY <1>1
      <3> QED BY <2>1, <2>2, <2>3, <2>4, <3>1 DEF TypeOK
    <2> QED BY <1>1, <2>5 DEF Typed
  <1>7. Control
    <2>1. Standing("none", <<>>)
      BY Done DEF Op
    <2> QED BY <1>2, <1>3, <2>1 DEF Control
  <1>8. EventsFit /\ Openings /\ PaymentsAgree /\ Settlings /\ Linkings
    <2>1. EventsFit
      BY <1>1, <1>3 DEF EventsFit
    <2>2. Openings
      BY <1>3, <1>4 DEF Openings
    <2>3. PaymentsAgree
      BY <1>4 DEF PaymentsAgree
    <2>4. Settlings /\ Linkings
      BY <1>2, <1>3 DEF Settlings, Linkings
    <2> QED BY <2>1, <2>2, <2>3, <2>4
  <1>9. SuccessIsToldOnce
    BY <1>1, <1>2, <1>3 DEF SuccessIsToldOnce, Told
  <1>10. EachIsBought
    <2>1. PICK f : f \in [{} -> Checkout]
      <3>1. [i \in {} |-> {}] \in [{} -> Checkout]
        OBVIOUS
      <3> QED BY <3>1
    <2> QED BY <1>5, <2>1 DEF EachIsBought, Buys
  <1>11. Links /\ Plans
    BY <1>1, <1>2, <1>3, <1>4 DEF Links, Plans
  <1> QED BY <1>6, <1>7, <1>8, <1>9, <1>10, <1>11 DEF IInv

(* Every statement keeps the invariant.                                    *)
LEMMA ProceedKeeps ==
  ASSUME IInv, NEW c \in Call, Proceed(c)
  PROVE  IInv'
  <1>1. CASE ExpireStale(c) \/ FindCurrent(c) \/ InsertFree(c) \/ ReadRole(c) \/ WriteRole(c)
    BY <1>1, ExpireStaleKeeps, FindCurrentKeeps, InsertFreeKeeps, ReadRoleKeeps, WriteRoleKeeps
  <1>2. CASE InsertPayment(c) \/ OpenSession(c) \/ FailSession(c)
    BY <1>2, InsertPaymentKeeps, OpenSessionKeeps, FailSessionKeeps
  <1>3. CASE ReadPayment(c) \/ NoteRef(c) \/ Settle(c)
    BY <1>3, ReadPaymentKeeps, NoteRefKeeps, SettleKeeps
  <1>4. CASE Deactivate(c) \/ InsertPremium(c) \/ LinkPayment(c)
    BY <1>4, DeactivateKeeps, InsertPremiumKeeps, LinkPaymentKeeps
  <1>5. CASE FindSubscription(c) \/ SyncSubscription(c) \/ SaveInvoice(c)
    BY <1>5, FindSubscriptionKeeps, SyncSubscriptionKeeps, SaveInvoiceKeeps
  <1>6. CASE Answer(c)
    BY <1>6, AnswerKeeps
  <1> QED BY <1>1, <1>2, <1>3, <1>4, <1>5, <1>6 DEF Proceed

(* So does a step that changes nothing ...                                 *)
LEMMA StutterKeeps ==
  ASSUME IInv, UNCHANGED vars
  PROVE  IInv'
  <1>1. UNCHANGED <<subs, payment, invoices, role, call, processed, stripe, sent, now>>
    BY DEF vars
  <1>2. Typed'
    BY <1>1 DEF IInv, Typed, TypeOK, Call
  <1>3. Control' /\ EventsFit' /\ SuccessIsToldOnce' /\ Openings' /\ PaymentsAgree'
    BY <1>1 DEF IInv, Control, EventsFit, SuccessIsToldOnce, Told, Openings, PaymentsAgree,
                Call, OfEvent, EventOf, Fits, Charged
  <1> QED BY <1>1, <1>2, <1>3, RowsRest DEF IInv

(* ... and every step of the service, the clock and Stripe.                *)
LEMMA NextInv ==
  ASSUME IInv, [Next]_vars
  PROVE  IInv'
  <1>1. CASE \E c \in Client : ReadStatus(c) \/ \E p \in Checkout : RequestCheckout(c, p)
    BY <1>1, ReadStatusKeeps, RequestCheckoutKeeps DEF Call
  <1>2. CASE \E h \in Hook, e \in sent : Deliver(h, e)
    BY <1>2, DeliverKeeps
  <1>3. CASE \E c \in Call : Proceed(c) \/ Throw(c)
    BY <1>3, ProceedKeeps, ThrowKeeps
  <1>4. CASE Crash \/ \E e \in processed : Forget(e)
    BY <1>4, CrashKeeps, ForgetKeeps
  <1>5. CASE NextDay \/ \E p \in Checkout : StripeSteps(p)
    BY <1>5, NextDayKeeps, StripeKeeps
  <1>6. CASE UNCHANGED vars
    BY <1>6, StutterKeeps
  <1> QED BY <1>1, <1>2, <1>3, <1>4, <1>5, <1>6 DEF Next

(* The inductive invariant holds in every state the billing service        *)
(* reaches.                                                                *)
THEOREM Invariant == Spec => []IInv
  <1>1. Init => IInv
    BY InitInv
  <1>2. IInv /\ [Next]_vars => IInv'
    BY NextInv
  <1> QED BY <1>1, <1>2, PTL DEF Spec

(* Every variable keeps its shape, and what a call refers to exists.       *)
THEOREM TypeCorrect == Spec => []TypeOK
  <1>1. IInv => TypeOK
    BY DEF IInv, Typed
  <1> QED BY <1>1, Invariant, PTL

(* The status of a payment is the outcome Stripe arrived at, whatever the  *)
(* order, the repetition and the overlap of the events it was told by      *)
(* (applyResolutionToPayment).                                             *)
THEOREM Agreement == Spec => []PaymentsAgree
  <1>1. IInv => PaymentsAgree
    BY DEF IInv
  <1> QED BY <1>1, Invariant, PTL

(* The rows PREMIUM are counted by the payments that bought them.          *)
LEMMA BoughtOnce ==
  ASSUME IInv
  PROVE  NoPaymentBuysTwice
  <1> DEFINE S == {p \in Checkout : payment[p].status = "SUCCEEDED"}
  <1>1. PICK f \in [Premium -> Checkout] : Buys(f)
    BY DEF IInv, EachIsBought
  <1>2. f \in Injection(Premium, S)
    <2>1. f \in [Premium -> S]
      BY <1>1 DEF Buys
    <2>2. \A i, k \in Premium : f[i] = f[k] => i = k
      BY <1>1 DEF Buys
    <2> QED BY <2>1, <2>2 DEF Injection, IsInjective
  <1>3. IsFiniteSet(S)
    BY BillingAssumption, FS_Subset
  <1> HIDE DEF S
  <1>4. Cardinality(Premium) <= Cardinality(S)
    BY <1>2, <1>3, FS_Injection
  <1> QED BY <1>4 DEF NoPaymentBuysTwice, S

(* No payment buys two subscriptions or is linked to another's, and nobody *)
(* holds the role PREMIUM without one (activatePremiumSubscription,        *)
(* syncUserRoleToPlan).                                                    *)
THEOREM Bought == Spec => []PremiumIsBought
  <1>1. IInv => PremiumIsBought
    BY BoughtOnce DEF IInv, Plans, Links, PremiumIsBought
  <1> QED BY <1>1, Invariant, PTL

-----------------------------------------------------------------------------
(* Billing implements PaymentLifecycle                                     *)

(* The plan in force is one of the two, and PREMIUM only with a row.       *)
LEMMA PlanInForce ==
  IInv => /\ CurrentPlan \in {"FREE", "PREMIUM"}
          /\ CurrentPlan = "PREMIUM" => Premium # {}
  <1> SUFFICES ASSUME IInv
               PROVE  /\ CurrentPlan \in {"FREE", "PREMIUM"}
                      /\ CurrentPlan = "PREMIUM" => Premium # {}
    OBVIOUS
  <1>0. subs \in Seq(SubscriptionRow)
    BY Left
  <1>1. CASE CurrentSubs = {}
    BY <1>1 DEF CurrentPlan
  <1>2. CASE CurrentSubs # {}
    <2>1. CurrentSubs \in SUBSET DOMAIN subs
      BY DEF CurrentSubs, ActiveSubs
    <2>2. PICK i \in DOMAIN subs : i = Newest(CurrentSubs)
      BY <1>0, <1>2, <2>1, NewestIsOne
    <2>3. subs[i] \in SubscriptionRow
      BY <1>0, <2>2, Indices
    <2>4. subs[i].plan \in {"FREE", "PREMIUM"}
      BY <2>3 DEF SubscriptionRow
    <2>5. CurrentPlan = subs[i].plan
      BY <1>2, <2>2 DEF CurrentPlan
    <2> QED BY <2>2, <2>4, <2>5 DEF Premium
  <1> QED BY <1>1, <1>2

(* Whatever becomes of the rows: a plan that takes effect was paid for.    *)
LEMMA PlanStep ==
  ASSUME IInv, IInv', UNCHANGED payment
  PROVE  [Lifecycle!PaymentNext]_Lifecycle!paymentVars
  <1> DEFINE status == [p \in Checkout |-> payment[p].status]
  <1>2. CurrentPlan \in {"FREE", "PREMIUM"}
    BY PlanInForce
  <1>1. (/\ CurrentPlan \in {"FREE", "PREMIUM"}
         /\ CurrentPlan = "PREMIUM" => Premium # {})'
    BY PlanInForce, PTL
  <1>3. CurrentPlan' \in {"FREE", "PREMIUM"} /\ (CurrentPlan' = "PREMIUM" => Premium' # {})
    BY <1>1
  <1>4. Premium' # {} => \E p \in Checkout : payment[p].status = "SUCCEEDED"
    BY DEF IInv, EachIsBought, Buys
  <1>5. status' = status
    OBVIOUS
  <1>6. CASE CurrentPlan' = CurrentPlan
    BY <1>5, <1>6 DEF Lifecycle!paymentVars
  <1>7. CASE CurrentPlan = "FREE" /\ CurrentPlan' = "PREMIUM"
    BY <1>3, <1>4, <1>5, <1>7 DEF Lifecycle!PaymentNext, Lifecycle!ActivatePlan
  <1>8. CASE CurrentPlan = "PREMIUM" /\ CurrentPlan' = "FREE"
    BY <1>5, <1>8 DEF Lifecycle!PaymentNext, Lifecycle!LapsePlan
  <1> QED BY <1>2, <1>3, <1>6, <1>7, <1>8

(* The plan in force depends on the rows and the day alone.                *)
LEMMA SamePlan ==
  ASSUME UNCHANGED <<subs, now>>
  PROVE  CurrentPlan' = CurrentPlan
  BY DEF CurrentPlan, CurrentSubs, ActiveSubs, Unexpired, Newest

(* One payment moves, and nothing else that a page can see.                *)
LEMMA PaymentStep ==
  ASSUME IInv, NEW p \in Checkout, NEW to,
         UNCHANGED <<subs, now>>,
         payment'[p].status = to,
         payment' \in [Checkout -> PaymentRow],
         \A q \in Checkout \ {p} : payment'[q].status = payment[q].status,
         \/ payment[p].status = "none" /\ to = "PENDING"
         \/ payment[p].status = "PENDING" /\ to \in {"SUCCEEDED", "FAILED", "CANCELED"}
         \/ payment[p].status = to
  PROVE  [Lifecycle!PaymentNext]_Lifecycle!paymentVars
  <1> DEFINE status == [q \in Checkout |-> payment[q].status]
  <1>1. CurrentPlan' = CurrentPlan
    BY SamePlan
  <1>2. status' = [status EXCEPT ![p] = to] /\ status[p] = payment[p].status
    OBVIOUS
  <1>3. CASE payment[p].status = "none" /\ to = "PENDING"
    BY <1>1, <1>2, <1>3 DEF Lifecycle!PaymentNext, Lifecycle!OpenPayment, Lifecycle!Moves
  <1>4. CASE payment[p].status = "PENDING" /\ to \in {"SUCCEEDED", "FAILED", "CANCELED"}
    BY <1>1, <1>2, <1>4
    DEF Lifecycle!PaymentNext, Lifecycle!SettlePayment, Lifecycle!Outcome, Lifecycle!Moves
  <1>5. CASE payment[p].status = to
    <2>1. status' = status
      BY <1>2, <1>5
    <2> QED BY <1>1, <2>1 DEF Lifecycle!paymentVars
  <1> QED BY <1>3, <1>4, <1>5

(* Only these three statements change the status of a payment: they open   *)
(* one that was not there, and settle one that is pending.                 *)
LEMMA OpensOnce ==
  ASSUME IInv, IInv', NEW c \in Call, InsertPayment(c)
  PROVE  [Lifecycle!PaymentNext]_Lifecycle!paymentVars
  <1>1. CASE UNCHANGED payment
    BY <1>1, PlanStep
  <1>2. CASE payment' = [payment EXCEPT ![call[c].on].status = "PENDING"]
    <2>1. call[c].todo \in Opening
      BY Known, Where DEF InsertPayment, At
    <2>2. PICK p \in Checkout : p = call[c].on /\ payment[p].status = "none"
      BY <2>1, Known, Kinds DEF IInv, Openings
    <2>3. payment \in [Checkout -> PaymentRow]
      BY Left
    <2>4. /\ payment' \in [Checkout -> PaymentRow] /\ payment'[p].status = "PENDING"
          /\ \A q \in Checkout \ {p} : payment'[q].status = payment[q].status
      BY <1>2, <2>2, <2>3 DEF PaymentRow
    <2> QED BY <2>2, <2>4, PaymentStep DEF InsertPayment
  <1> QED BY <1>1, <1>2 DEF InsertPayment

(* A payment whose session did not open was pending, and fails.            *)
LEMMA FailsOnce ==
  ASSUME IInv, NEW c \in Call, FailSession(c)
  PROVE  [Lifecycle!PaymentNext]_Lifecycle!paymentVars
  <1>1. call[c].todo \in Opened
    BY Known, Where DEF FailSession, At
  <1>2. PICK p \in Checkout : p = call[c].on /\ payment[p].status = "PENDING"
    BY <1>1, Known, Kinds, Apart DEF IInv, Openings
  <1>3. payment \in [Checkout -> PaymentRow]
    BY Left
  <1>4. /\ payment' \in [Checkout -> PaymentRow] /\ payment'[p].status = "FAILED"
        /\ \A q \in Checkout \ {p} : payment'[q].status = payment[q].status
    BY <1>2, <1>3 DEF FailSession, PaymentRow
  <1> QED BY <1>2, <1>4, PaymentStep DEF FailSession

(* A payment that is settled was pending, or had that outcome.             *)
LEMMA SettlesOnce ==
  ASSUME IInv, NEW c \in Call, Settle(c)
  PROVE  [Lifecycle!PaymentNext]_Lifecycle!paymentVars
  <1>1. call[c].todo = <<"settle">>
    BY Known, Where, ResolvingSteps DEF Settle, At, Resolving
  <1>2. PICK p \in Checkout, op \in CheckoutEvent :
          p = call[c].on /\ op = call[c].op /\ Fits(p, op)
    BY <1>1, Resolvers
  <1>3. /\ Resolution(op) # "PENDING"
        /\ Resolution(op) = "SUCCEEDED" => payment[p].status # "SUCCEEDED"
    BY <1>1, <1>2 DEF IInv, Settlings
  <1>4. payment \in [Checkout -> PaymentRow] /\ call[c].ref \in BOOLEAN
    BY Left, Known DEF CallType
  <1>5. Resolution(op) \in {"SUCCEEDED", "FAILED", "CANCELED"}
    BY <1>2, <1>3, Outcomes
  <1>6. payment[p].status \in {"PENDING", Resolution(op)}
    <2>1. payment[p].status \in {"PENDING", "SUCCEEDED", "FAILED", "CANCELED"}
      BY <1>2, <1>4 DEF PaymentRow, Fits, IInv, Openings
    <2>2. /\ payment[p].status = "SUCCEEDED" => Charged(p)
          /\ payment[p].status = "CANCELED" => stripe[p] = "expired"
          /\ payment[p].status = "FAILED" => stripe[p] = "failed"
      BY <1>2 DEF IInv, PaymentsAgree, Fits
    <2>3. CASE Resolution(op) = "SUCCEEDED"
      BY <1>2, <1>3, <2>1, <2>2, <2>3, Outcomes DEF Charged
    <2>4. CASE Resolution(op) = "FAILED"
      BY <1>2, <2>1, <2>2, <2>4, Outcomes
    <2>5. CASE Resolution(op) = "CANCELED"
      BY <1>2, <2>1, <2>2, <2>5, Outcomes
    <2> QED BY <1>5, <2>3, <2>4, <2>5
  <1>7. /\ payment' \in [Checkout -> PaymentRow] /\ payment'[p].status = Resolution(op)
        /\ \A q \in Checkout \ {p} : payment'[q].status = payment[q].status
    BY <1>2, <1>4, <1>5 DEF Settle, PaymentRow
  <1> QED BY <1>5, <1>6, <1>7, PaymentStep DEF Settle

(* These two write other fields of the payment. *)
LEMMA WritesElse ==
  ASSUME IInv, NEW c \in Call, NoteRef(c) \/ LinkPayment(c)
  PROVE  [Lifecycle!PaymentNext]_Lifecycle!paymentVars
  <1> DEFINE status == [q \in Checkout |-> payment[q].status]
  <1>1. payment \in [Checkout -> PaymentRow]
    BY Left
  <1>2. \A q \in Checkout : payment'[q].status = payment[q].status
    BY <1>1 DEF NoteRef, LinkPayment, PaymentRow
  <1>3. status' = status
    BY <1>2
  <1>4. CurrentPlan' = CurrentPlan
    BY SamePlan DEF NoteRef, LinkPayment
  <1> QED BY <1>3, <1>4 DEF Lifecycle!paymentVars

(* Every step is one of PaymentLifecycle, or changes nothing it shows.     *)
LEMMA NextLifecycle ==
  IInv /\ IInv' /\ [Next]_vars => [Lifecycle!PaymentNext]_Lifecycle!paymentVars
  <1> SUFFICES ASSUME IInv, IInv', [Next]_vars
               PROVE  [Lifecycle!PaymentNext]_Lifecycle!paymentVars
    OBVIOUS
  <1>1. ASSUME NEW c \in Call, Proceed(c)
        PROVE  [Lifecycle!PaymentNext]_Lifecycle!paymentVars
    <2>1. CASE InsertPayment(c) \/ FailSession(c) \/ Settle(c)
      BY <2>1, OpensOnce, FailsOnce, SettlesOnce
    <2>2. CASE NoteRef(c) \/ LinkPayment(c)
      BY <2>2, WritesElse
    <2>3. CASE \/ ExpireStale(c) \/ FindCurrent(c) \/ InsertFree(c) \/ ReadRole(c)
               \/ WriteRole(c) \/ OpenSession(c) \/ ReadPayment(c) \/ Deactivate(c)
               \/ InsertPremium(c) \/ FindSubscription(c) \/ SyncSubscription(c)
               \/ SaveInvoice(c) \/ Answer(c)
      <3>1. UNCHANGED payment
        BY <2>3 DEF ExpireStale, FindCurrent, InsertFree, ReadRole, WriteRole, OpenSession,
                    ReadPayment, Deactivate, InsertPremium, FindSubscription,
                    SyncSubscription, SaveInvoice, Answer
      <3> QED BY <3>1, PlanStep
    <2> QED BY <1>1, <2>1, <2>2, <2>3 DEF Proceed
  <1>2. CASE \E c \in Client : ReadStatus(c) \/ \E p \in Checkout : RequestCheckout(c, p)
    <2>1. UNCHANGED payment
      BY <1>2 DEF ReadStatus, RequestCheckout
    <2> QED BY <2>1, PlanStep
  <1>3. CASE \E h \in Hook, e \in sent : Deliver(h, e)
    <2>1. UNCHANGED payment
      BY <1>3 DEF Deliver
    <2> QED BY <2>1, PlanStep
  <1>4. CASE \E c \in Call : Throw(c)
    <2>1. UNCHANGED payment
      BY <1>4 DEF Throw
    <2> QED BY <2>1, PlanStep
  <1>5. CASE \/ Crash \/ NextDay \/ UNCHANGED vars
             \/ \E e \in processed : Forget(e)
    <2>1. UNCHANGED payment
      BY <1>5 DEF Crash, NextDay, vars, Forget
    <2> QED BY <2>1, PlanStep
  <1>6. CASE \E p \in Checkout : StripeSteps(p)
    <2>1. UNCHANGED payment
      BY <1>6 DEF StripeSteps, Pay, PayLater, Confirm, Reject, ExpireSession, MissRenewal,
                  CancelPlan, StripeMoves
    <2> QED BY <2>1, PlanStep
  <1> QED BY <1>1, <1>2, <1>3, <1>4, <1>5, <1>6 DEF Next

(* No payment is there at the start, and the plan is FREE.                 *)
LEMMA InitLifecycle == Init => Lifecycle!PaymentInit
  <1> SUFFICES ASSUME Init PROVE Lifecycle!PaymentInit
    OBVIOUS
  <1>1. CurrentPlan = "FREE"
    BY DEF Init, CurrentPlan, CurrentSubs, ActiveSubs
  <1>2. [p \in Checkout |-> payment[p].status] = [p \in Checkout |-> "none"]
    BY DEF Init
  <1> QED BY <1>1, <1>2 DEF Lifecycle!PaymentInit

(* Whatever statements and events interleave, a payment is opened and      *)
(* settled once, and PREMIUM takes effect only after one has succeeded:    *)
(* Billing implements PaymentLifecycle.                                    *)
THEOREM Refinement == Spec => PaymentsAreSettledOnce
  <1>1. Init => Lifecycle!PaymentInit
    BY InitLifecycle
  <1>2. IInv /\ IInv' /\ [Next]_vars => [Lifecycle!PaymentNext]_Lifecycle!paymentVars
    BY NextLifecycle
  <1> QED BY <1>1, <1>2, Invariant, PTL
          DEF Spec, PaymentsAreSettledOnce, Lifecycle!PaymentSpec

-----------------------------------------------------------------------------
(* A subscription is not taken away without a cause                        *)

(* The kinds of steps that change a row which is there: it expires, it is  *)
(* deactivated by a call that activates another, or it follows Stripe.     *)
LEMMA RowStays ==
  ASSUME IInv, UNCHANGED subs, NEW i \in Premium
  PROVE  subs'[i].status = subs[i].status
  OBVIOUS

(* A row that is not ACTIVE any more has expired.                          *)
LEMMA ExpiredRow ==
  ASSUME IInv, NEW c \in Call, ExpireStale(c), NEW i \in Premium
  PROVE  /\ subs[i].status = "ACTIVE" /\ subs'[i].status # "ACTIVE" => ~ Unexpired(subs[i])
         /\ subs'[i].status = "ACTIVE" => subs[i].status = "ACTIVE"
  <1>1. i \in DOMAIN subs /\ subs[i] \in SubscriptionRow
    BY Left, Indices DEF Premium
  <1> QED BY <1>1 DEF ExpireStale, ActiveSubs, SubscriptionRow

(* A row that is deactivated was bought by another payment than the one    *)
(* that is about to buy a row, and Stripe has charged both.                *)
LEMMA DeactivatedRow ==
  ASSUME IInv, NEW c \in Call, Deactivate(c), NEW i \in Premium
  PROVE  /\ \E p, q \in Checkout : p # q /\ Charged(p) /\ Charged(q)
         /\ subs'[i].status = "ACTIVE" => subs[i].status = "ACTIVE"
  <1>1. i \in DOMAIN subs /\ subs[i] \in SubscriptionRow
    BY Left, Indices DEF Premium
  <1>2. subs'[i].status = "ACTIVE" => subs[i].status = "ACTIVE"
    BY <1>1 DEF Deactivate, ActiveSubs, SubscriptionRow
  <1>3. call[c].todo \in Activating
    BY Known, Kinds, LookSteps, OpeningSteps, OpenedSteps, LinkingSteps, SyncingSteps,
       FindingSteps, ResolvingSteps, InvoicingSteps DEF Deactivate, At
  <1>4. PICK f \in [Premium -> Checkout] : Buys(f)
    BY DEF IInv, EachIsBought
  <1>5. /\ f[i] # call[c].on /\ f[i] \in Checkout /\ call[c].on \in Checkout
        /\ payment[f[i]].status = "SUCCEEDED" /\ payment[call[c].on].status = "SUCCEEDED"
    BY <1>3, <1>4, Resolvers DEF Buys, IInv, Settlings
  <1>6. Charged(f[i]) /\ Charged(call[c].on)
    BY <1>5 DEF IInv, PaymentsAgree
  <1> QED BY <1>2, <1>5, <1>6

(* A row that follows Stripe is that of a checkout Stripe has charged, and *)
(* it ends when Stripe reports that a renewal was missed or canceled.      *)
LEMMA SyncedRow ==
  ASSUME IInv, NEW c \in Call, SyncSubscription(c), NEW i \in Premium
  PROVE  /\ subs[i].status = "ACTIVE" /\ subs'[i].status # "ACTIVE" =>
              \E p \in Checkout : stripe[p] \in {"past_due", "canceled"}
         /\ subs[i].status # "ACTIVE" /\ subs'[i].status = "ACTIVE" =>
              subs[i].ref # "none" /\ Charged(subs[i].ref)
  <1>1. call[c].op \in SubscriptionEvent \cup InvoiceEvent /\ call[c].todo \in Syncing
    BY SyncLists DEF SyncSubscription
  <1>2. PICK p \in Checkout, s \in DOMAIN subs, op \in SubscriptionEvent \cup InvoiceEvent :
          /\ p = call[c].on /\ s = call[c].sub /\ op = call[c].op
          /\ subs[s].ref = p /\ Fits(p, op)
    BY <1>1, Known, Events DEF IInv, Plans, OfEvent
  <1>3. \A k \in DOMAIN subs : subs[k] \in SubscriptionRow
    BY Left, Indices
  <1>4. PICK end : subs' = [subs EXCEPT ![s].status = MappedStatus(op), ![s].until = end]
    BY <1>2 DEF SyncSubscription
  <1>5. i \in DOMAIN subs /\ DOMAIN subs' = DOMAIN subs
    BY <1>4 DEF Premium
  <1>6. CASE i # s
    BY <1>4, <1>5, <1>6
  <1>7. CASE i = s
    <2>1. subs'[i].status = MappedStatus(op) /\ subs[i].ref = p
      BY <1>2, <1>3, <1>4, <1>5, <1>7 DEF SubscriptionRow
    <2>2. Charged(p) /\ p # "none"
      BY <1>2, BillingAssumption DEF Fits, SubscriptionEvent, InvoiceEvent
    <2>3. MappedStatus(op) # "ACTIVE" => stripe[p] \in {"past_due", "canceled"}
      BY <1>2 DEF Fits, MappedStatus, SubscriptionEvent, InvoiceEvent
    <2> QED BY <1>2, <2>1, <2>2, <2>3
  <1> QED BY <1>6, <1>7

(* A row that is appended leaves the others as they are.                   *)
LEMMA AppendedRow ==
  ASSUME IInv, NEW c \in Call, InsertFree(c) \/ InsertPremium(c), NEW i \in Premium
  PROVE  subs'[i].status = subs[i].status
  <1>1. i \in DOMAIN subs /\ subs \in Seq(SubscriptionRow) /\ DOMAIN subs = 1 .. Len(subs)
    BY Left, Indices DEF Premium
  <1>2. PICK r : subs' = Append(subs, r)
    BY DEF InsertFree, InsertPremium
  <1>3. subs'[i] = subs[i]
    BY <1>1, <1>2
  <1> QED BY <1>3

(* What PremiumLapsesForACause asks of a step.                             *)
Lapse ==
  \A i \in Premium :
    /\ subs[i].status = "ACTIVE" /\ subs'[i].status # "ACTIVE" =>
         \/ ~ Unexpired(subs[i])
         \/ \E p \in Checkout : stripe[p] \in {"past_due", "canceled"}
         \/ \E p, q \in Checkout : p # q /\ Charged(p) /\ Charged(q)
    /\ subs[i].status # "ACTIVE" /\ subs'[i].status = "ACTIVE" =>
         subs[i].ref # "none" /\ Charged(subs[i].ref)

(* Every step that takes a row away, or brings one back, has a cause.      *)
LEMMA LapseStep ==
  ASSUME IInv, [Next]_vars
  PROVE  Lapse
  <1>1. CASE UNCHANGED subs
    BY <1>1, RowStays DEF Lapse
  <1>2. ASSUME NEW c \in Call, Proceed(c), ~ UNCHANGED subs
        PROVE  Lapse
    <2>1. \/ ExpireStale(c) \/ InsertFree(c) \/ Deactivate(c) \/ InsertPremium(c)
          \/ SyncSubscription(c)
      BY <1>2 DEF Proceed, FindCurrent, ReadRole, WriteRole, InsertPayment, OpenSession,
                  FailSession, ReadPayment, NoteRef, Settle, LinkPayment, FindSubscription,
                  SaveInvoice, Answer
    <2>2. CASE ExpireStale(c)
      BY <2>2, ExpiredRow DEF Lapse
    <2>3. CASE InsertFree(c) \/ InsertPremium(c)
      BY <2>3, AppendedRow DEF Lapse
    <2>4. CASE Deactivate(c)
      BY <2>4, DeactivatedRow DEF Lapse
    <2>5. CASE SyncSubscription(c)
      BY <2>5, SyncedRow DEF Lapse
    <2> QED BY <2>1, <2>2, <2>3, <2>4, <2>5
  <1>3. (\E c \in Call : Proceed(c)) \/ UNCHANGED subs
    BY DEF Next, vars, ReadStatus, RequestCheckout, Deliver, Throw, Crash, Forget, NextDay,
           StripeSteps, Pay, PayLater, Confirm, Reject, ExpireSession, MissRenewal,
           CancelPlan, StripeMoves
  <1> QED BY <1>1, <1>2, <1>3

(* A subscription that was paid for is never taken away without a cause,   *)
(* and none comes back to an account that Stripe has not charged           *)
(* (expireStaleSubscriptions, activatePremiumSubscription,                 *)
(* syncLocalSubscriptionFromStripe).                                       *)
THEOREM LapsesForACause == Spec => PremiumLapsesForACause
  <1>1. IInv /\ [Next]_vars => [Lapse]_vars
    BY LapseStep
  <1>2. Spec => [][Lapse]_vars
    BY <1>1, Invariant, PTL DEF Spec
  <1> QED BY <1>2 DEF PremiumLapsesForACause, Lapse

=============================================================================
