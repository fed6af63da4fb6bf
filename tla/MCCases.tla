------------------------------ MODULE MCCases ------------------------------
(* Instances of Cases for TLC. *)
EXTENDS Cases, TLC

(* Specialists, and requests, are interchangeable. *)
MCSymmetry == Permutations(Specialist) \cup Permutations(Slot)

=============================================================================
