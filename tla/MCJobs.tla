------------------------------- MODULE MCJobs -------------------------------
(* Instances of Jobs for TLC. *)
EXTENDS Jobs, TLC

CONSTANTS j1, j2

(* A market sync, suspended after each report, and a resume parse share    *)
(* the event queue.                                                        *)
MCTypes == j1 :> "MARKET_SYNC" @@ j2 :> "RESUME_PROFILE_PARSE"

=============================================================================
