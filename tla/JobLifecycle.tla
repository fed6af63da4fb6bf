---------------------------- MODULE JobLifecycle ----------------------------
(***************************************************************************)
(* What a background job promises to whoever created it, whatever happens  *)
(* to the process that runs it: a job is queued once, its reported         *)
(* progress never moves backwards, it ends at most once, and an ended job  *)
(* never changes again (it can only disappear with the account that owns   *)
(* it).  A lost event or a restart shows up here only as a step that does  *)
(* not happen, which is why reporting may skip any number of percentages.  *)
(***************************************************************************)
EXTENDS Integers

CONSTANT Job        \* the identifiers of ProcessingJob rows

VARIABLES
  status,           \* what the row says, "NONE" before and "GONE" after it exists
  progress          \* its progressPercent

lifecycleVars == <<status, progress>>

Active == {"PENDING", "RUNNING"}

Init ==
  /\ status = [j \in Job |-> "NONE"]
  /\ progress = [j \in Job |-> 0]

(* A request queues a job. *)
Queue(j) ==
  /\ status[j] = "NONE"
  /\ status' = [status EXCEPT ![j] = "PENDING"]
  /\ progress' = [progress EXCEPT ![j] = 0]

(* The job moves on to status s, at or beyond the percentage it stood at. *)
Advance(j, s) ==
  /\ status[j] \in Active
  /\ status' = [status EXCEPT ![j] = s]
  /\ progress'[j] \in progress[j] .. 100
  /\ progress' = [progress EXCEPT ![j] = progress'[j]]

(* The job reports that it has come at least as far as before. *)
Report(j) == Advance(j, "RUNNING")

(* The job ends, a completed one at 100. *)
Complete(j) == Advance(j, "COMPLETED") /\ progress'[j] = 100

Fail(j) == Advance(j, "FAILED")

(* The account that owns the job is deleted and the row goes with it, for  *)
(* good.                                                                   *)
Remove(j) ==
  /\ status[j] \notin {"NONE", "GONE"}
  /\ status' = [status EXCEPT ![j] = "GONE"]
  /\ progress' = [progress EXCEPT ![j] = 0]

Next ==
  \E j \in Job : Queue(j) \/ Report(j) \/ Complete(j) \/ Fail(j) \/ Remove(j)

Spec == Init /\ [][Next]_lifecycleVars

=============================================================================
