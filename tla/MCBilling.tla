----------------------------- MODULE MCBilling -----------------------------
(* Instances of Billing for TLC. *)
EXTENDS Billing, TLC

(* The webhook deliveries in flight are interchangeable. *)
MCSymmetry == Permutations(Hook)

=============================================================================
