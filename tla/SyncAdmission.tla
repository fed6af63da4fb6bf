--------------------------- MODULE SyncAdmission ----------------------------
(***************************************************************************)
(* The hourly limit of manual market syncs (createMarketSyncJob in         *)
(* apps/api/src/jobs/jobs.controller.ts): a request counts the jobs of the *)
(* last hour, then inserts one.  Retrying a job from the queue dashboard   *)
(* inserts one for the same administrator without counting.                *)
(***************************************************************************)
EXTENDS Integers, Sequences, FiniteSets

CONSTANTS
  SyncLimit,        \* 5 in the code
  Hour,             \* ticks of the window
  SyncRequest,      \* requests an administrator may have in flight
  MaxTime, MaxRows  \* bounds: ticks, and rows beyond which nothing is asked

ASSUME AdmissionAssumption ==
  /\ SyncLimit \in Nat \ {0} /\ Hour \in Nat
  /\ MaxTime \in Nat /\ MaxRows \in Nat
  /\ IsFiniteSet(SyncRequest)

VARIABLES
  time,
  syncJobs,         \* the MARKET_SYNC rows in order: [at, how]
  admitted          \* requests that have counted and not yet inserted

admissionVars == <<time, syncJobs, admitted>>

AdmissionInit ==
  /\ time = 0
  /\ syncJobs = <<>>
  /\ admitted = {}

LastHour == {i \in DOMAIN syncJobs : syncJobs[i].at >= time - Hour}

(* Seeded fault: the limit may be reached and passed by one.               *)
AllowsOneMore(n) == n <= SyncLimit

Admits(n) == n < SyncLimit

(* countRecentJobsForUser; a request over the limit is answered with 429.  *)
CountSyncs(r) ==
  /\ r \notin admitted /\ Len(syncJobs) < MaxRows
  /\ Admits(Cardinality(LastHour))
  /\ admitted' = admitted \cup {r}
  /\ UNCHANGED <<time, syncJobs>>

CreateSync(r) ==
  /\ r \in admitted
  /\ syncJobs' = Append(syncJobs, [at |-> time, how |-> "asked"])
  /\ admitted' = admitted \ {r}
  /\ UNCHANGED time

RetrySync ==
  /\ Len(syncJobs) \in 1 .. MaxRows - 1
  /\ syncJobs' = Append(syncJobs, [at |-> time, how |-> "retried"])
  /\ UNCHANGED <<time, admitted>>

PassTime ==
  /\ time < MaxTime
  /\ time' = time + 1
  /\ UNCHANGED <<syncJobs, admitted>>

AdmissionNext ==
  PassTime \/ RetrySync \/ \E r \in SyncRequest : CountSyncs(r) \/ CreateSync(r)

AdmissionSpec == AdmissionInit /\ [][AdmissionNext]_admissionVars

AdmissionTypeOK ==
  /\ time \in 0 .. MaxTime
  /\ \A i \in DOMAIN syncJobs : syncJobs[i].at \in 0 .. time
  /\ admitted \subseteq SyncRequest

(* The rows that were asked for in the hour from t.                        *)
AskedFrom(t) ==
  {i \in DOMAIN syncJobs : syncJobs[i].how = "asked" /\ syncJobs[i].at \in t .. t + Hour}

(* In no hour does an administrator ask for more syncs than the limit and  *)
(* the requests that were in flight together with the last admitted one:   *)
(* the count and the insert are separate statements, and retries, which    *)
(* count as rows, never make room for more.                                *)
OvershootIsBounded ==
  \A t \in 0 .. time :
    Cardinality(AskedFrom(t)) <= SyncLimit + Cardinality(SyncRequest) - 1

=============================================================================
