-------------------------------- MODULE Jobs --------------------------------
(***************************************************************************)
(* The background jobs of the API (apps/api/src/jobs): JobsController      *)
(* creates a ProcessingJob row and starts a runner, JobsRunnerService      *)
(* emits domain events on the in-process bus, JobsService applies them to  *)
(* the row one after the other through the promise chain eventQueue and    *)
(* publishes each new snapshot on the job's ReplaySubject(1).  Any number  *)
(* of HTTP reads fetch a row and publish what they fetched as well.        *)
(*                                                                         *)
(* One step is one stretch of JavaScript between two awaits, or one        *)
(* statement of the database.                                              *)
(***************************************************************************)
EXTENDS Integers, Sequences

CONSTANTS
  Job,          \* the jobs that requests may create
  Reader,       \* concurrent GET /jobs/:id and GET /jobs/active requests
  TypeOf,       \* the ProcessingJobType each job is created with
  Countries,    \* the number of TARGET_COUNTRY_CODES a market sync walks over
  Faults        \* which of "db", "crash" and "delete" may happen

JobType ==
  {"PROFILE_ANALYSIS", "MARKET_SYNC", "REPORT_GENERATION", "RESUME_PROFILE_PARSE"}

ASSUME JobsAssumption ==
  /\ TypeOf \in [Job -> JobType]
  /\ Countries \in Nat \ {0}
  /\ Faults \subseteq {"db", "crash", "delete"}

VARIABLES
  row,          \* the ProcessingJob rows, NoRow where there is none
  runner,       \* where the runner of each job stands
  emitted,      \* how many JOB_PROGRESS events each runner has emitted
  queue,        \* eventQueue: the events not applied yet, oldest first
  worker,       \* the applyDomainEvent call under way
  stream,       \* the snapshot each job's ReplaySubject(1) replays
  reads         \* the snapshot each reader has fetched and not yet published

vars == <<row, runner, emitted, queue, worker, stream, reads>>

-----------------------------------------------------------------------------
(* Rows and snapshots                                                      *)

NoRow ==
  [status |-> "NONE", progress |-> 0, started |-> FALSE,
   ended |-> FALSE, result |-> FALSE, error |-> FALSE]

(* Seeded fault: a status that is not in the enum. *)
NewRowUnlisted == [NoRow EXCEPT !.status = "QUEUED"]

NewRow == [NoRow EXCEPT !.status = "PENDING"]

Row ==
  [status : {"NONE", "PENDING", "RUNNING", "COMPLETED", "FAILED"},
   progress : 0 .. 100, started : BOOLEAN,
   ended : BOOLEAN, result : BOOLEAN, error : BOOLEAN]

Ended(r) == r.status \in {"COMPLETED", "FAILED"}

-----------------------------------------------------------------------------
(* What each kind of runner reports, and where it is suspended             *)

(* Math.round((index / total) * 100) kept within 1..99.  *)
MarketPercent(index, total) ==
  LET rounded == (200 * index + total) \div (2 * total)
  IN  IF rounded < 1 THEN 1 ELSE IF rounded > 99 THEN 99 ELSE rounded

(* The percentages a runner reports, in order.  A market sync reports each *)
(* country before and after it, so that the k-th report has index k \div 2. *)
Reports(t) ==
  CASE t = "PROFILE_ANALYSIS" -> <<10, 25, 35, 50, 70, 90, 100>>
    [] t = "MARKET_SYNC" ->
         [k \in 1 .. 2 * Countries |-> MarketPercent(k \div 2, Countries)]
    [] t = "REPORT_GENERATION" -> <<35, 90>>
    [] t = "RESUME_PROFILE_PARSE" -> <<25, 55, 82>>

ReportCount(t) == Len(Reports(t))

(* A runner is suspended at an await after the FirstAwait-th report, then  *)
(* after every report up to the LastAwait-th; what follows that one is     *)
(* emitted together with JOB_COMPLETED.                                    *)
FirstAwait(t) == IF t = "RESUME_PROFILE_PARSE" THEN 2 ELSE 1

LastAwait(t) ==
  CASE t = "PROFILE_ANALYSIS" -> 7
    [] t = "MARKET_SYNC" -> 2 * Countries
    [] t = "REPORT_GENERATION" -> 1
    [] t = "RESUME_PROFILE_PARSE" -> 2

(* Whether what a runner awaits after its n-th report may throw: nothing   *)
(* is left to do for a country that is done, or for an analysis at 100.    *)
MayThrow(t, n) ==
  CASE t = "MARKET_SYNC" -> n % 2 = 1
    [] t = "PROFILE_ANALYSIS" -> n < LastAwait(t)
    [] OTHER -> TRUE

EventKind == {"JOB_STARTED", "JOB_PROGRESS", "JOB_COMPLETED", "JOB_FAILED"}

Event == [job : Job, kind : EventKind, progress : 0 .. 100]

Progress(j, from, to) ==
  [i \in 1 .. to - from |->
     [job |-> j, kind |-> "JOB_PROGRESS", progress |-> Reports(TypeOf[j])[from + i]]]

Closing(e) == e.kind \in {"JOB_COMPLETED", "JOB_FAILED"}

-----------------------------------------------------------------------------

Idle == [phase |-> "idle"]

Worker ==
  {Idle} \cup [phase : {"found"}, job : Job]
         \cup [phase : {"applied"}, job : Job, snapshot : Row]

NoRead == [phase |-> "free"]

Read == {NoRead} \cup [phase : {"fetched"}, job : Job, snapshot : Row]

RunnerState == {"none", "created", "running", "completed", "failed", "lost"}

Init ==
  /\ row = [j \in Job |-> NoRow]
  /\ runner = [j \in Job |-> "none"]
  /\ emitted = [j \in Job |-> 0]
  /\ queue = <<>>
  /\ worker = Idle
  /\ stream = [j \in Job |-> NoRow]
  /\ reads = [r \in Reader |-> NoRead]

-----------------------------------------------------------------------------
(* Creating a job and running it                                           *)

(* createJob inserts the row; the controller is suspended on the insert.   *)
CreateJob(j) ==
  /\ runner[j] = "none"
  /\ row' = [row EXCEPT ![j] = NewRow]
  /\ runner' = [runner EXCEPT ![j] = "created"]
  /\ UNCHANGED <<emitted, queue, worker, stream, reads>>

(* Seeded fault: JOB_STARTED is emitted behind the first reports. *)
StartRunnerLate(j) ==
  LET first == FirstAwait(TypeOf[j])
      started == [job |-> j, kind |-> "JOB_STARTED", progress |-> 1]
  IN  /\ runner[j] = "created"
      /\ runner' = [runner EXCEPT ![j] = "running"]
      /\ emitted' = [emitted EXCEPT ![j] = first]
      /\ queue' = queue \o Progress(j, 0, first) \o <<started>>
      /\ stream' = [stream EXCEPT ![j] = NewRow]
      /\ UNCHANGED <<row, worker, reads>>

(* The insert has returned: createJob publishes the row it inserted and    *)
(* the controller starts the runner, which runs up to its first await.     *)
StartRunner(j) ==
  LET first == FirstAwait(TypeOf[j])
      started == [job |-> j, kind |-> "JOB_STARTED", progress |-> 1]
  IN  /\ runner[j] = "created"
      /\ runner' = [runner EXCEPT ![j] = "running"]
      /\ emitted' = [emitted EXCEPT ![j] = first]
      /\ queue' = queue \o <<started>> \o Progress(j, 0, first)
      /\ stream' = [stream EXCEPT ![j] = NewRow]
      /\ UNCHANGED <<row, worker, reads>>

(* The runner is resumed and reports its next step. *)
ReportProgress(j) ==
  /\ runner[j] = "running"
  /\ emitted[j] < LastAwait(TypeOf[j])
  /\ emitted' = [emitted EXCEPT ![j] = @ + 1]
  /\ queue' = queue \o Progress(j, emitted[j], emitted[j] + 1)
  /\ UNCHANGED <<row, runner, worker, stream, reads>>

(* The runner is resumed after its last await and ends. *)
CompleteJob(j) ==
  LET all == ReportCount(TypeOf[j])
      completed == [job |-> j, kind |-> "JOB_COMPLETED", progress |-> 100]
  IN  /\ runner[j] = "running"
      /\ emitted[j] = LastAwait(TypeOf[j])
      /\ runner' = [runner EXCEPT ![j] = "completed"]
      /\ emitted' = [emitted EXCEPT ![j] = all]
      /\ queue' = queue \o Progress(j, emitted[j], all) \o <<completed>>
      /\ UNCHANGED <<row, worker, stream, reads>>

(* Seeded fault: the runner goes on after it has reported the failure. *)
FailJobAndGoOn(j) ==
  LET failed == [job |-> j, kind |-> "JOB_FAILED",
                 progress |-> Reports(TypeOf[j])[emitted[j]]]
  IN  /\ runner[j] = "running"
      /\ MayThrow(TypeOf[j], emitted[j])
      /\ queue' = queue \o <<failed>>
      /\ UNCHANGED <<row, runner, emitted, worker, stream, reads>>

(* Seeded fault: the catch block reports a success. *)
FailJobAsSuccess(j) ==
  LET failed == [job |-> j, kind |-> "JOB_COMPLETED", progress |-> 100]
  IN  /\ runner[j] = "running"
      /\ MayThrow(TypeOf[j], emitted[j])
      /\ runner' = [runner EXCEPT ![j] = "failed"]
      /\ queue' = queue \o <<failed>>
      /\ UNCHANGED <<row, emitted, worker, stream, reads>>

(* What the runner awaited throws: it reports the last step it reached. *)
FailJob(j) ==
  LET failed == [job |-> j, kind |-> "JOB_FAILED",
                 progress |-> Reports(TypeOf[j])[emitted[j]]]
  IN  /\ runner[j] = "running"
      /\ MayThrow(TypeOf[j], emitted[j])
      /\ runner' = [runner EXCEPT ![j] = "failed"]
      /\ queue' = queue \o <<failed>>
      /\ UNCHANGED <<row, emitted, worker, stream, reads>>

-----------------------------------------------------------------------------
(* Applying the events                                                     *)

(* Seeded fault: JOB_FAILED does not set completedAt. *)
AppliedUndated(e, r) ==
  CASE e.kind = "JOB_STARTED" ->
         [r EXCEPT !.status = "RUNNING", !.progress = e.progress,
                   !.started = TRUE, !.error = FALSE]
    [] e.kind = "JOB_PROGRESS" ->
         [r EXCEPT !.status = "RUNNING", !.progress = e.progress]
    [] e.kind = "JOB_COMPLETED" ->
         [r EXCEPT !.status = "COMPLETED", !.progress = e.progress,
                   !.ended = TRUE, !.result = TRUE, !.error = FALSE]
    [] e.kind = "JOB_FAILED" ->
         [r EXCEPT !.status = "FAILED", !.progress = e.progress, !.error = TRUE]

(* What an event makes of the row it is applied to. *)
Applied(e, r) ==
  CASE e.kind = "JOB_STARTED" ->
         [r EXCEPT !.status = "RUNNING", !.progress = e.progress,
                   !.started = TRUE, !.error = FALSE]
    [] e.kind = "JOB_PROGRESS" ->
         [r EXCEPT !.status = "RUNNING", !.progress = e.progress]
    [] e.kind = "JOB_COMPLETED" ->
         [r EXCEPT !.status = "COMPLETED", !.progress = e.progress,
                   !.ended = TRUE, !.result = TRUE, !.error = FALSE]
    [] e.kind = "JOB_FAILED" ->
         [r EXCEPT !.status = "FAILED", !.progress = e.progress,
                   !.ended = TRUE, !.error = TRUE]

(* applyDomainEvent finds the row of the oldest event. *)
FindRow ==
  /\ worker = Idle
  /\ queue # <<>>
  /\ row[Head(queue).job] # NoRow
  /\ worker' = [phase |-> "found", job |-> Head(queue).job]
  /\ UNCHANGED <<row, runner, emitted, queue, stream, reads>>

(* Seeded fault: an event that is not applied stays at the head. *)
SkipEventNever ==
  /\ \/ worker = Idle /\ queue # <<>> /\ row[Head(queue).job] = NoRow
     \/ worker = Idle /\ queue # <<>> /\ "db" \in Faults
     \/ worker.phase = "found" /\ row[worker.job] = NoRow
     \/ worker.phase = "found" /\ "db" \in Faults
  /\ worker' = Idle
  /\ UNCHANGED <<row, runner, emitted, queue, stream, reads>>

(* The row is gone, or the database fails: the event is not applied and    *)
(* the chain goes on with the next one.                                    *)
SkipEvent ==
  /\ \/ worker = Idle /\ queue # <<>> /\ row[Head(queue).job] = NoRow
     \/ worker = Idle /\ queue # <<>> /\ "db" \in Faults
     \/ worker.phase = "found" /\ row[worker.job] = NoRow
     \/ worker.phase = "found" /\ "db" \in Faults
  /\ worker' = Idle
  /\ queue' = Tail(queue)
  /\ UNCHANGED <<row, runner, emitted, stream, reads>>

(* The update commits. *)
UpdateRow ==
  LET e == Head(queue)
      new == Applied(e, row[e.job])
  IN  /\ worker.phase = "found"
      /\ row[e.job] # NoRow
      /\ row' = [row EXCEPT ![e.job] = new]
      /\ worker' = [phase |-> "applied", job |-> e.job, snapshot |-> new]
      /\ queue' = Tail(queue)
      /\ UNCHANGED <<runner, emitted, stream, reads>>

(* The update has returned: its row is published.  It is not when the      *)
(* answer of the database was lost.                                        *)
PublishUpdate ==
  /\ worker.phase = "applied"
  /\ \/ stream' = [stream EXCEPT ![worker.job] = worker.snapshot]
     \/ "db" \in Faults /\ UNCHANGED stream
  /\ worker' = Idle
  /\ UNCHANGED <<row, runner, emitted, queue, reads>>

-----------------------------------------------------------------------------
(* Reads, deletions and restarts                                           *)

(* getJobForUser, getJobById or findActiveJobForUser fetches the row ...   *)
FetchJob(r, j) ==
  /\ reads[r] = NoRead
  /\ row[j] # NoRow
  /\ reads' = [reads EXCEPT ![r] = [phase |-> "fetched", job |-> j,
                                    snapshot |-> row[j]]]
  /\ UNCHANGED <<row, runner, emitted, queue, worker, stream>>

(* ... and, when the answer arrives, publishes what it fetched. *)
PublishFetched(r) ==
  /\ reads[r].phase = "fetched"
  /\ stream' = [stream EXCEPT ![reads[r].job] = reads[r].snapshot]
  /\ reads' = [reads EXCEPT ![r] = NoRead]
  /\ UNCHANGED <<row, runner, emitted, queue, worker>>

(* The owner's account is deleted, and its jobs with it (onDelete: Cascade). *)
DeleteOwner(j) ==
  /\ "delete" \in Faults
  /\ row[j] # NoRow
  /\ row' = [row EXCEPT ![j] = NoRow]
  /\ UNCHANGED <<runner, emitted, queue, worker, stream, reads>>

(* The process dies and is restarted.  Runners, queue and streams were in  *)
(* memory; nothing at startup looks for the rows they leave behind.        *)
Restart ==
  /\ "crash" \in Faults
  /\ runner' = [j \in Job |-> IF runner[j] \in {"created", "running"}
                              THEN "lost" ELSE runner[j]]
  /\ queue' = <<>>
  /\ worker' = Idle
  /\ stream' = [j \in Job |-> NoRow]
  /\ reads' = [r \in Reader |-> NoRead]
  /\ UNCHANGED <<row, emitted>>

RunJob(j) ==
  StartRunner(j) \/ ReportProgress(j) \/ CompleteJob(j) \/ FailJob(j)

ApplyEvents == FindRow \/ SkipEvent \/ UpdateRow \/ PublishUpdate

Next ==
  \/ \E j \in Job : CreateJob(j) \/ RunJob(j) \/ DeleteOwner(j)
  \/ ApplyEvents
  \/ \E r \in Reader : PublishFetched(r) \/ \E j \in Job : FetchJob(r, j)
  \/ Restart

Spec == Init /\ [][Next]_vars

(* Promises settle: what a runner awaits returns or throws, and the        *)
(* database answers the promise chain.  Nobody owes the system a request.  *)
FairSpec ==
  /\ Spec
  /\ \A j \in Job : WF_vars(RunJob(j))
  /\ WF_vars(ApplyEvents)
  /\ \A r \in Reader : WF_vars(PublishFetched(r))

-----------------------------------------------------------------------------
(* Properties                                                              *)

(* Every variable keeps its shape: in particular a percentage is always    *)
(* within 0..100 and the row never holds a status outside the enum of      *)
(* schema.prisma.                                                          *)
TypeOK ==
  /\ row \in [Job -> Row]
  /\ runner \in [Job -> RunnerState]
  /\ emitted \in [Job -> Nat]
  /\ \A j \in Job : emitted[j] <= ReportCount(TypeOf[j])
  /\ queue \in Seq(Event)
  /\ worker \in Worker
  /\ stream \in [Job -> Row]
  /\ reads \in [Reader -> Read]

(* The row trails the runner of the same job: it never shows an outcome    *)
(* the runner has not reached, nor a percentage it has not reported, in    *)
(* spite of the events of other jobs in the same queue (jobs.service.ts    *)
(* enqueueEvent, applyDomainEvent).                                        *)
RowTrailsRunner ==
  \A j \in Job :
    /\ row[j].status = "COMPLETED" => runner[j] = "completed"
    /\ row[j].status = "FAILED" => runner[j] = "failed"
    /\ row[j].status = "RUNNING" =>
         /\ runner[j] \notin {"none", "created"}
         /\ \E k \in 0 .. emitted[j] :
              row[j].progress = IF k = 0 THEN 1 ELSE Reports(TypeOf[j])[k]

(* The fields of a row agree with its status: completedAt is set exactly   *)
(* when the job has ended, a result exactly when it completed, an error    *)
(* exactly when it failed, and a completed job stands at 100.              *)
OutcomeFields ==
  \A j \in Job :
    /\ row[j].ended <=> Ended(row[j])
    /\ row[j].result <=> row[j].status = "COMPLETED"
    /\ row[j].error <=> row[j].status = "FAILED"
    /\ row[j].status = "COMPLETED" => row[j].progress = 100

(* A published outcome is the outcome: however late a read publishes what  *)
(* it fetched, a subscriber that is shown an ended job is shown the row as *)
(* it will stay (publishSnapshot has three concurrent callers).            *)
ShownOutcomeIsFinal ==
  \A j \in Job : Ended(stream[j]) => row[j] \in {stream[j], NoRow}

(* Where a caller finds job j: its row is gone once it has been there. *)
Stage(j) == IF row[j] = NoRow /\ runner[j] # "none" THEN "GONE" ELSE row[j].status

(* The rows behave as JobLifecycle says: no late event brings a deleted    *)
(* job back, moves progress back or reopens a job that has ended.          *)
Lifecycle == INSTANCE JobLifecycle WITH
  status <- [j \in Job |-> Stage(j)],
  progress <- [j \in Job |-> row[j].progress]

ImplementsLifecycle == Lifecycle!Spec

(* A job whose runner was started ends in its row, unless its owner is     *)
(* deleted: one failing runner does not hold up the queue of the others.   *)
StartedJobEnds ==
  \A j \in Job :
    runner[j] = "created" ~> (Ended(row[j]) \/ row[j] = NoRow)

=============================================================================
