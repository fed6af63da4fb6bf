-------------------------- MODULE PaymentLifecycle -------------------------
(***************************************************************************)
(* What billing promises of the payments of one account and its plan, and  *)
(* all that a page can rely on: a payment is opened once and settled once, *)
(* and the plan in force becomes PREMIUM only when one has succeeded.      *)
(* Billing implements it step by step; CheckoutReturn is a page over it.   *)
(***************************************************************************)

CONSTANT Purchase     \* the checkouts the account may start

VARIABLES
  paid,               \* Payment.status of each checkout
  inForce             \* the plan getCurrentSubscriptionForUser would find

paymentVars == <<paid, inForce>>

Outcome == {"SUCCEEDED", "FAILED", "CANCELED"}

PaymentInit ==
  /\ paid = [p \in Purchase |-> "none"]
  /\ inForce = "FREE"

Moves(p, from, to) == paid[p] = from /\ paid' = [paid EXCEPT ![p] = to]

OpenPayment(p) == Moves(p, "none", "PENDING") /\ UNCHANGED inForce

SettlePayment(p) ==
  \E outcome \in Outcome : Moves(p, "PENDING", outcome) /\ UNCHANGED inForce

ActivatePlan ==
  /\ \E p \in Purchase : paid[p] = "SUCCEEDED"
  /\ inForce = "FREE" /\ inForce' = "PREMIUM" /\ UNCHANGED paid

(* It expires, is canceled, or is hidden by another row for a while. *)
LapsePlan == inForce = "PREMIUM" /\ inForce' = "FREE" /\ UNCHANGED paid

PaymentNext ==
  \/ \E p \in Purchase : OpenPayment(p) \/ SettlePayment(p)
  \/ ActivatePlan \/ LapsePlan

PaymentSpec == PaymentInit /\ [][PaymentNext]_paymentVars

=============================================================================
