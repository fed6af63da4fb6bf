----------------------------- MODULE JobsProofs -----------------------------
(***************************************************************************)
(* Proofs about Jobs, for any number of jobs and readers, any assignment   *)
(* of types, any number of countries and any combination of faults.        *)
(***************************************************************************)
EXTENDS Jobs, SequenceTheorems, TLAPS

-----------------------------------------------------------------------------
(* The inductive invariant                                                 *)

(* The percentage reported last by a runner of type t after n reports. *)
Reached(t, n) == IF n = 0 THEN 0 ELSE Reports(t)[n]

(* Event e has been emitted by its runner, which stands at run, n reports. *)
EmittedBy(e, run, n) ==
  /\ run \notin {"none", "created"}
  /\ n > 0
  /\ e.kind = "JOB_STARTED" => e.progress = 1
  /\ e.kind = "JOB_PROGRESS" =>
       \E k \in 1 .. n : e.progress = Reports(TypeOf[e.job])[k]
  /\ e.kind = "JOB_COMPLETED" => run = "completed" /\ e.progress = 100
  /\ e.kind = "JOB_FAILED" => run = "failed"
  /\ e.kind # "JOB_COMPLETED" => e.progress <= Reached(TypeOf[e.job], n)

QueueEmitted ==
  \A n \in 1 .. Len(queue) :
    EmittedBy(queue[n], runner[queue[n].job], emitted[queue[n].job])

(* The events of one job are queued in the order of their percentages and  *)
(* nothing is queued behind its closing event.                             *)
QueueOrdered ==
  \A m, n \in 1 .. Len(queue) :
    m < n /\ queue[m].job = queue[n].job =>
      /\ ~ Closing(queue[m])
      /\ queue[m].progress <= queue[n].progress

(* No queued event finds its job ended or further than itself. *)
RowBehindQueue ==
  \A n \in 1 .. Len(queue) :
    LET r == row[queue[n].job]
    IN  r # NoRow => ~ Ended(r) /\ r.progress <= queue[n].progress

RunnerMatchesRow ==
  \A j \in Job :
    /\ runner[j] = "none" => row[j] = NoRow
    /\ runner[j] = "created" => row[j] \in {NewRow, NoRow}
    /\ runner[j] \in {"none", "created"} => emitted[j] = 0
    /\ runner[j] \in {"running", "completed", "failed"} => emitted[j] > 0
    /\ runner[j] = "running" => emitted[j] <= LastAwait(TypeOf[j])
    /\ row[j].status \in {"PENDING", "NONE"} => row[j].progress = 0
    /\ row[j].status = "NONE" => row[j] = NoRow
    /\ ~ Ended(row[j]) => row[j].progress <= Reached(TypeOf[j], emitted[j])

(* A snapshot of job j that was taken once, at whatever time. *)
OldSnapshot(j, s) ==
  Ended(s) => runner[j] # "none" /\ row[j] \in {s, NoRow}

Snapshots ==
  /\ \A j \in Job : OldSnapshot(j, stream[j])
  /\ \A r \in Reader : reads[r].phase = "fetched" => OldSnapshot(reads[r].job, reads[r].snapshot)
  /\ worker.phase = "applied" => OldSnapshot(worker.job, worker.snapshot)
  /\ worker.phase = "found" => queue # <<>> /\ worker.job = Head(queue).job

IInv ==
  /\ TypeOK
  /\ QueueEmitted
  /\ QueueOrdered
  /\ RowBehindQueue
  /\ RunnerMatchesRow
  /\ RowTrailsRunner
  /\ OutcomeFields
  /\ Snapshots

-----------------------------------------------------------------------------
(* What the runners report                                                 *)

(* Integer division by a positive number is monotone. *)
LEMMA DivMonotone ==
  ASSUME NEW a \in Nat, NEW b \in Nat, NEW d \in Nat \ {0}, a <= b
  PROVE  a \div d \in Nat /\ b \div d \in Nat /\ a \div d <= b \div d
<1> DEFINE p == a \div d
           q == b \div d
<1>1. /\ p \in Nat /\ d * p <= a /\ a < d * p + d
      /\ q \in Nat /\ d * q <= b /\ b < d * q + d
  BY SMT
<1> HIDE DEF p, q
<1>2. ~ (p > q)
  <2> SUFFICES ASSUME p > q PROVE FALSE
    OBVIOUS
  <2>1. PICK k \in Nat : p = q + 1 + k
    <3>1. p - q - 1 \in Nat /\ p = q + 1 + (p - q - 1)
      BY <1>1
    <3> QED BY <3>1
  <2>2. d * p = d * q + d + d * k /\ d * k >= 0
    BY <1>1, <2>1
  <2> QED BY <1>1, <2>2
<1> QED BY <1>1, <1>2 DEF p, q

(* A market sync never reports less than 1, more than 99, or less for a    *)
(* later country.                                                          *)
LEMMA MarketPercentMonotone ==
  ASSUME NEW i \in Nat, NEW k \in Nat, i <= k, NEW n \in Nat \ {0}
  PROVE  /\ MarketPercent(i, n) \in 1 .. 99
         /\ MarketPercent(i, n) <= MarketPercent(k, n)
<1> DEFINE a == (200 * i + n) \div (2 * n)
           b == (200 * k + n) \div (2 * n)
<1>1. /\ 200 * i + n \in Nat /\ 200 * k + n \in Nat
      /\ 200 * i + n <= 200 * k + n
      /\ 2 * n \in Nat \ {0}
  OBVIOUS
<1>2. a \in Nat /\ b \in Nat /\ a <= b
  BY <1>1, DivMonotone
<1>3. /\ MarketPercent(i, n) = IF a < 1 THEN 1 ELSE IF a > 99 THEN 99 ELSE a
      /\ MarketPercent(k, n) = IF b < 1 THEN 1 ELSE IF b > 99 THEN 99 ELSE b
  BY DEF MarketPercent
<1> HIDE DEF a, b
<1> QED BY <1>2, <1>3

(* Every runner reports percentages in 1..100, in non-decreasing order,    *)
(* and its awaits lie within its reports.                                  *)
LEMMA ReportsOrdered ==
  ASSUME NEW t \in JobType
  PROVE  /\ Reports(t) \in Seq(1 .. 100)
         /\ FirstAwait(t) \in 1 .. LastAwait(t)
         /\ ReportCount(t) \in Nat
         /\ LastAwait(t) \in 1 .. ReportCount(t)
         /\ \A m, n \in 1 .. ReportCount(t) :
              /\ Reports(t)[m] \in 1 .. 100
              /\ m <= n => Reports(t)[m] <= Reports(t)[n]
<1>1. CASE t = "PROFILE_ANALYSIS"
  <2>1. Reports(t) = <<10, 25, 35, 50, 70, 90, 100>> /\ FirstAwait(t) = 1 /\ LastAwait(t) = 7
    BY <1>1 DEF Reports, FirstAwait, LastAwait
  <2> QED BY <2>1 DEF ReportCount
<1>2. CASE t = "MARKET_SYNC"
  <2>1. /\ Reports(t) = [k \in 1 .. 2 * Countries |-> MarketPercent(k \div 2, Countries)]
        /\ FirstAwait(t) = 1 /\ LastAwait(t) = 2 * Countries
    BY <1>2 DEF Reports, FirstAwait, LastAwait
  <2>2. Countries \in Nat \ {0} /\ 2 * Countries \in Nat /\ 2 * Countries >= 2
    BY JobsAssumption
  <2>3. ASSUME NEW m \in 1 .. 2 * Countries, NEW n \in 1 .. 2 * Countries, m <= n
        PROVE  /\ MarketPercent(m \div 2, Countries) \in 1 .. 99
               /\ MarketPercent(m \div 2, Countries) <= MarketPercent(n \div 2, Countries)
    <3>1. m \div 2 \in Nat /\ n \div 2 \in Nat /\ m \div 2 <= n \div 2
      BY <2>2, <2>3
    <3> QED BY <3>1, <2>2, MarketPercentMonotone
  <2>4. \A k \in 1 .. 2 * Countries : MarketPercent(k \div 2, Countries) \in 1 .. 100
    <3> SUFFICES ASSUME NEW k \in 1 .. 2 * Countries
                 PROVE  MarketPercent(k \div 2, Countries) \in 1 .. 100
      OBVIOUS
    <3>1. k <= k
      BY <2>2
    <3>2. MarketPercent(k \div 2, Countries) \in 1 .. 99
      BY <2>3, <3>1
    <3> QED BY <3>2
  <2>5. Reports(t) \in Seq(1 .. 100) /\ Len(Reports(t)) = 2 * Countries
    BY <2>1, <2>2, <2>4
  <2>6. \A k \in 1 .. 2 * Countries : Reports(t)[k] = MarketPercent(k \div 2, Countries)
    BY <2>1
  <2>7. ReportCount(t) = 2 * Countries
    BY <2>5 DEF ReportCount
  <2>8. ASSUME NEW m \in 1 .. ReportCount(t), NEW n \in 1 .. ReportCount(t)
        PROVE  /\ Reports(t)[m] \in 1 .. 100
               /\ m <= n => Reports(t)[m] <= Reports(t)[n]
    BY <2>3, <2>4, <2>6, <2>7
  <2> QED BY <2>1, <2>2, <2>5, <2>7, <2>8
<1>3. CASE t = "REPORT_GENERATION"
  <2>1. Reports(t) = <<35, 90>> /\ FirstAwait(t) = 1 /\ LastAwait(t) = 1
    BY <1>3 DEF Reports, FirstAwait, LastAwait
  <2> QED BY <2>1 DEF ReportCount
<1>4. CASE t = "RESUME_PROFILE_PARSE"
  <2>1. Reports(t) = <<25, 55, 82>> /\ FirstAwait(t) = 2 /\ LastAwait(t) = 2
    BY <1>4 DEF Reports, FirstAwait, LastAwait
  <2> QED BY <2>1 DEF ReportCount
<1> QED BY <1>1, <1>2, <1>3, <1>4 DEF JobType

-----------------------------------------------------------------------------
(* The steps preserve the invariant                                        *)

(* Progress makes a sequence of events of job j out of reports from + 1    *)
(* to to.                                                                  *)
LEMMA ProgressEvents ==
  ASSUME NEW j \in Job, NEW to \in 0 .. ReportCount(TypeOf[j]), NEW from \in 0 .. to
  PROVE  /\ Progress(j, from, to) \in Seq(Event)
         /\ Len(Progress(j, from, to)) = to - from
         /\ \A i \in 1 .. to - from :
              /\ Progress(j, from, to)[i].job = j
              /\ Progress(j, from, to)[i].kind = "JOB_PROGRESS"
              /\ Progress(j, from, to)[i].progress = Reports(TypeOf[j])[from + i]
<1>1. TypeOf[j] \in JobType
  BY JobsAssumption
<1>2. /\ ReportCount(TypeOf[j]) \in Nat
      /\ \A n \in 1 .. ReportCount(TypeOf[j]) : Reports(TypeOf[j])[n] \in 1 .. 100
  BY <1>1, ReportsOrdered
<1>3. \A i \in 1 .. to - from :
        /\ from + i \in 1 .. ReportCount(TypeOf[j])
        /\ Reports(TypeOf[j])[from + i] \in 0 .. 100
  BY <1>2
<1>4. to - from \in Nat
  BY <1>2
<1> DEFINE ev(i) == [job |-> j, kind |-> "JOB_PROGRESS",
                     progress |-> Reports(TypeOf[j])[from + i]]
<1>5. \A i \in 1 .. to - from : ev(i) \in Event
  BY <1>3 DEF Event, EventKind
<1>6. Progress(j, from, to) = [i \in 1 .. to - from |-> ev(i)]
  BY DEF Progress
<1>7. \A i \in 1 .. to - from :
        ev(i).job = j /\ ev(i).kind = "JOB_PROGRESS"
          /\ ev(i).progress = Reports(TypeOf[j])[from + i]
  OBVIOUS
<1> HIDE DEF ev
<1>8. Progress(j, from, to) \in Seq(Event) /\ Len(Progress(j, from, to)) = to - from
  BY <1>4, <1>5, <1>6
<1> QED BY <1>6, <1>7, <1>8

LEMMA EventFields ==
  ASSUME NEW e \in Event
  PROVE  e.job \in Job /\ e.kind \in EventKind /\ e.progress \in 0 .. 100
BY DEF Event

LEMMA RowFields ==
  ASSUME NEW r \in Row
  PROVE  r.progress \in 0 .. 100 /\ r.progress \in Int
BY DEF Row

LEMMA BlankRows ==
  /\ NoRow \in Row /\ NewRow \in Row
  /\ NoRow.status = "NONE" /\ NewRow.status = "PENDING"
  /\ NoRow.progress = 0 /\ NewRow.progress = 0
<1>1. 0 \in 0 .. 100
  OBVIOUS
<1>2. NoRow \in Row
  BY <1>1, Zenon DEF NoRow, Row
<1>3. NewRow \in Row
  BY <1>2, Zenon DEF NewRow, Row
<1>4. NoRow.status = "NONE" /\ NoRow.progress = 0
  BY DEF NoRow
<1>5. NewRow.status = "PENDING" /\ NewRow.progress = 0
  BY DEF NewRow, NoRow
<1> QED BY <1>2, <1>3, <1>4, <1>5

LEMMA WorkerFields ==
  ASSUME NEW w \in Worker
  PROVE  /\ w.phase \in {"idle", "found", "applied"}
         /\ w.phase = "idle" <=> w = Idle
         /\ w.phase # "idle" => w.job \in Job
         /\ w.phase = "applied" => w.snapshot \in Row
BY DEF Worker, Idle

LEMMA ReadFields ==
  ASSUME NEW r \in Read
  PROVE  r.phase = "fetched" => r.job \in Job /\ r.snapshot \in Row
BY DEF Read, NoRead

(* More reports never take a runner back. *)
LEMMA ReachedMonotone ==
  ASSUME NEW t \in JobType, NEW n \in 0 .. ReportCount(t), NEW m \in 0 .. n
  PROVE  Reached(t, m) \in 0 .. 100 /\ Reached(t, n) \in 0 .. 100
         /\ Reached(t, m) <= Reached(t, n)
<1>1. /\ ReportCount(t) \in Nat
      /\ \A i, k \in 1 .. ReportCount(t) :
           Reports(t)[i] \in 1 .. 100 /\ (i <= k => Reports(t)[i] <= Reports(t)[k])
  BY ReportsOrdered
<1> QED BY <1>1 DEF Reached

(* An event that does not close its job stays emitted by its runner. *)
LEMMA EmittedStays ==
  ASSUME NEW e \in Event, NEW run, NEW newRun,
         NEW n \in 0 .. ReportCount(TypeOf[e.job]), NEW m \in 0 .. n,
         EmittedBy(e, run, m), ~ Closing(e), newRun \notin {"none", "created"}
  PROVE  EmittedBy(e, newRun, n)
<1>1. /\ e.job \in Job /\ TypeOf[e.job] \in JobType
      /\ e.kind \in {"JOB_STARTED", "JOB_PROGRESS"} /\ e.progress \in 0 .. 100
  BY EventFields, JobsAssumption DEF Closing, EventKind
<1>2. /\ Reached(TypeOf[e.job], m) \in 0 .. 100
      /\ Reached(TypeOf[e.job], n) \in 0 .. 100
      /\ Reached(TypeOf[e.job], m) <= Reached(TypeOf[e.job], n)
  BY <1>1, ReachedMonotone
<1>3. n \in Nat /\ m \in Nat /\ m <= n
  BY <1>1, ReportsOrdered
<1>4. e.progress <= Reached(TypeOf[e.job], m)
  BY <1>1 DEF EmittedBy
<1>5. e.progress <= Reached(TypeOf[e.job], n)
  BY <1>1, <1>2, <1>4
<1>6. e.kind = "JOB_PROGRESS" => \E k \in 1 .. n : e.progress = Reports(TypeOf[e.job])[k]
  BY <1>3 DEF EmittedBy
<1>7. n > 0
  BY <1>3 DEF EmittedBy
<1> QED BY <1>1, <1>5, <1>6, <1>7 DEF EmittedBy

(* Kept folded in the steps that do not need to know what a sequence is. *)
EventSeq == Seq(Event)

(* A runner puts evs on the queue: they are in order, it has emitted them, *)
(* and none is behind what it had reported before.                         *)
Emits(j, evs) ==
  /\ runner[j] \in {"created", "running"}
  /\ runner'[j] \notin {"none", "created"}
  /\ emitted[j] <= emitted'[j]
  /\ emitted'[j] \in 0 .. ReportCount(TypeOf[j])
  /\ \A i \in Job \ {j} : runner'[i] = runner[i] /\ emitted'[i] = emitted[i]
  /\ queue' = queue \o evs
  /\ row' = row
  /\ \A n \in 1 .. Len(evs) :
       /\ evs[n].job = j
       /\ EmittedBy(evs[n], runner'[j], emitted'[j])
       /\ evs[n].progress >= Reached(TypeOf[j], emitted[j])
  /\ \A m, n \in 1 .. Len(evs) :
       m < n => ~ Closing(evs[m]) /\ evs[m].progress <= evs[n].progress

LEMMA EmittingKeepsOrder ==
  ASSUME IInv, NEW j \in Job, NEW evs \in EventSeq, Emits(j, evs)
  PROVE  queue' \in EventSeq /\ QueueEmitted' /\ QueueOrdered' /\ RowBehindQueue'
<1> DEFINE old == Len(queue)
           new == Len(queue')
<1>0. queue \in EventSeq /\ old \in Nat /\ Len(evs) \in Nat /\ row[j] \in Row
  BY LenProperties DEF IInv, TypeOK, EventSeq
<1>1. /\ queue' \in EventSeq /\ new = old + Len(evs) /\ new \in Nat
      /\ \A n \in 1 .. new :
           queue'[n] = IF n <= old THEN queue[n] ELSE evs[n - old]
  BY <1>0, ConcatProperties DEF Emits, EventSeq
<1>2. \A n \in 1 .. new :
        \/ n \in 1 .. old /\ queue'[n] = queue[n]
        \/ n - old \in 1 .. Len(evs) /\ queue'[n] = evs[n - old]
  BY <1>0, <1>1
<1>3. /\ \A n \in 1 .. old : queue[n] \in Event /\ queue[n].progress \in Int
      /\ \A n \in 1 .. Len(evs) : evs[n] \in Event /\ evs[n].progress \in Int
  <2>1. /\ \A n \in 1 .. old : queue[n] \in Event
        /\ \A n \in 1 .. Len(evs) : evs[n] \in Event
    BY <1>0, ElementOfSeq DEF EventSeq
  <2>2. \A e \in Event : e.progress \in Int
    BY EventFields
  <2> QED BY <2>1, <2>2
<1>4. \A n \in 1 .. old : queue[n].job = j =>
        /\ ~ Closing(queue[n])
        /\ queue[n].progress <= Reached(TypeOf[j], emitted[j])
  BY DEF IInv, QueueEmitted, EmittedBy, Closing, Emits
<1>5. /\ emitted[j] \in 0 .. emitted'[j]
      /\ Reached(TypeOf[j], emitted[j]) \in 0 .. 100
  <2>1. TypeOf[j] \in JobType
    BY JobsAssumption
  <2>2. ReportCount(TypeOf[j]) \in Nat
    BY <2>1, ReportsOrdered
  <2>3. emitted[j] \in 0 .. ReportCount(TypeOf[j])
    BY <2>2 DEF IInv, TypeOK
  <2>4. emitted[j] \in 0 .. emitted[j] /\ emitted[j] \in 0 .. emitted'[j]
    BY <2>2, <2>3 DEF Emits
  <2> QED BY <2>1, <2>3, <2>4, ReachedMonotone
<1> HIDE DEF new
<1>6. QueueEmitted'
  <2> SUFFICES ASSUME NEW n \in 1 .. new
               PROVE  EmittedBy(queue'[n], runner'[queue'[n].job], emitted'[queue'[n].job])
    BY DEF QueueEmitted, new
  <2>1. CASE n \in 1 .. old /\ queue'[n] = queue[n]
    <3>1. /\ queue[n] \in Event /\ queue[n].job \in Job
          /\ EmittedBy(queue[n], runner[queue[n].job], emitted[queue[n].job])
      BY <1>3, <2>1, EventFields DEF IInv, QueueEmitted
    <3>2. CASE queue[n].job # j
      BY <3>1, <3>2, <2>1 DEF Emits
    <3>3. CASE queue[n].job = j
      <4>1. ~ Closing(queue[n]) /\ EmittedBy(queue[n], runner[j], emitted[j])
        BY <1>4, <2>1, <3>1, <3>3
      <4>2. /\ runner'[j] \notin {"none", "created"}
            /\ emitted'[j] \in 0 .. ReportCount(TypeOf[j])
        BY DEF Emits
      <4>3. EmittedBy(queue[n], runner'[j], emitted'[j])
        BY <1>5, <3>1, <3>3, <4>1, <4>2, EmittedStays
      <4> QED BY <4>3, <3>3, <2>1
    <3> QED BY <3>2, <3>3
  <2>2. CASE n - old \in 1 .. Len(evs) /\ queue'[n] = evs[n - old]
    BY <2>2 DEF Emits
  <2> QED BY <1>2, <2>1, <2>2
<1>7. QueueOrdered'
  <2> SUFFICES ASSUME NEW m \in 1 .. new, NEW n \in 1 .. new,
                      m < n, queue'[m].job = queue'[n].job
               PROVE  ~ Closing(queue'[m]) /\ queue'[m].progress <= queue'[n].progress
    BY DEF QueueOrdered, Closing, new
  <2>1. CASE n \in 1 .. old /\ queue'[n] = queue[n]
    <3>1. m \in 1 .. old /\ queue'[m] = queue[m]
      BY <1>0, <1>1, <2>1
    <3> QED BY <3>1, <2>1 DEF IInv, QueueOrdered
  <2>2. CASE n - old \in 1 .. Len(evs) /\ queue'[n] = evs[n - old]
    <3>0. /\ queue'[n].job = j /\ queue'[n].progress \in Int
          /\ queue'[n].progress >= Reached(TypeOf[j], emitted[j])
      BY <1>3, <2>2 DEF Emits
    <3>1. CASE m \in 1 .. old /\ queue'[m] = queue[m]
      <4>1. /\ ~ Closing(queue'[m]) /\ queue'[m].progress \in Int
            /\ queue'[m].progress <= Reached(TypeOf[j], emitted[j])
        BY <1>3, <1>4, <3>0, <3>1
      <4>2. queue'[m].progress <= queue'[n].progress
        BY <3>0, <4>1, <1>5
      <4> QED BY <4>1, <4>2
    <3>2. CASE m - old \in 1 .. Len(evs) /\ queue'[m] = evs[m - old]
      <4>1. m - old < n - old
        BY <1>0, <1>1
      <4> QED BY <4>1, <2>2, <3>2 DEF Emits
    <3> QED BY <1>2, <3>1, <3>2
  <2> QED BY <1>2, <2>1, <2>2
<1>8. RowBehindQueue'
  <2> SUFFICES ASSUME NEW n \in 1 .. new, row[queue'[n].job] # NoRow
               PROVE  /\ ~ Ended(row[queue'[n].job])
                      /\ row[queue'[n].job].progress <= queue'[n].progress
    BY DEF RowBehindQueue, Ended, Emits, new
  <2>1. CASE n \in 1 .. old /\ queue'[n] = queue[n]
    BY <2>1 DEF IInv, RowBehindQueue
  <2>2. CASE n - old \in 1 .. Len(evs) /\ queue'[n] = evs[n - old]
    <3>1. /\ queue'[n].job = j /\ queue'[n].progress \in Int
          /\ queue'[n].progress >= Reached(TypeOf[j], emitted[j])
      BY <1>3, <2>2 DEF Emits
    <3>2. ~ Ended(row[j])
      BY DEF IInv, RowTrailsRunner, Emits, Ended
    <3>3. row[j].progress <= Reached(TypeOf[j], emitted[j]) /\ row[j].progress \in Int
      <4>1. row[j].progress <= Reached(TypeOf[j], emitted[j])
        BY <3>2 DEF IInv, RunnerMatchesRow
      <4>2. row[j].progress \in Int
        BY <1>0, RowFields
      <4> QED BY <4>1, <4>2
    <3>4. row[j].progress <= queue'[n].progress
      BY <3>1, <3>3, <1>5
    <3> QED BY <3>1, <3>2, <3>4
  <2> QED BY <1>2, <2>1, <2>2
<1> QED BY <1>1, <1>6, <1>7, <1>8

(* The other conjuncts of the invariant after a step that puts events on   *)
(* the queue: no row and no snapshot but that of a new stream changes.     *)
LEMMA EmittingKeepsRest ==
  ASSUME IInv, NEW j \in Job, NEW evs \in EventSeq, Emits(j, evs),
         runner'[j] \in {"running", "completed", "failed"},
         emitted'[j] > 0,
         runner'[j] = "running" => emitted'[j] <= LastAwait(TypeOf[j]),
         runner' \in [Job -> RunnerState], emitted' \in [Job -> Nat],
         stream' \in {stream, [stream EXCEPT ![j] = NewRow]},
         worker' = worker, reads' = reads
  PROVE  IInv'
<1>1. queue' \in Seq(Event) /\ QueueEmitted' /\ QueueOrdered' /\ RowBehindQueue'
  BY EmittingKeepsOrder DEF EventSeq
<1>2. TypeOK'
  <2>1. NewRow \in Row
    BY BlankRows
  <2>2. stream' \in [Job -> Row]
    BY <2>1 DEF IInv, TypeOK
  <2>3. \A i \in Job : emitted'[i] <= ReportCount(TypeOf[i])
    <3>1. \A i \in Job \ {j} : emitted'[i] = emitted[i]
      BY DEF Emits
    <3>2. \A i \in Job : emitted[i] <= ReportCount(TypeOf[i])
      BY DEF IInv, TypeOK
    <3>3. emitted'[j] <= ReportCount(TypeOf[j])
      BY DEF Emits
    <3> QED BY <3>1, <3>2, <3>3
  <2> QED BY <1>1, <2>2, <2>3 DEF IInv, TypeOK, Emits
<1>3. /\ ReportCount(TypeOf[j]) \in Nat
      /\ emitted[j] \in Nat /\ emitted'[j] \in Nat /\ emitted[j] \in 0 .. emitted'[j]
  <2>1. TypeOf[j] \in JobType
    BY JobsAssumption
  <2>2. ReportCount(TypeOf[j]) \in Nat
    BY <2>1, ReportsOrdered
  <2> QED BY <2>2 DEF IInv, TypeOK, Emits
<1>4. RunnerMatchesRow'
  <2> SUFFICES ASSUME NEW i \in Job
               PROVE  /\ runner'[i] = "none" => row[i] = NoRow
                      /\ runner'[i] = "created" => row[i] \in {NewRow, NoRow}
                      /\ runner'[i] \in {"none", "created"} => emitted'[i] = 0
                      /\ runner'[i] \in {"running", "completed", "failed"} => emitted'[i] > 0
                      /\ runner'[i] = "running" => emitted'[i] <= LastAwait(TypeOf[i])
                      /\ row[i].status \in {"PENDING", "NONE"} => row[i].progress = 0
                      /\ row[i].status = "NONE" => row[i] = NoRow
                      /\ ~ Ended(row[i]) => row[i].progress <= Reached(TypeOf[i], emitted'[i])
    BY DEF RunnerMatchesRow, Emits, Ended
  <2>1. CASE i # j
    BY <2>1 DEF IInv, RunnerMatchesRow, Emits
  <2>2. CASE i = j
    <3>1. ASSUME ~ Ended(row[j])
          PROVE  row[j].progress <= Reached(TypeOf[j], emitted'[j])
      <4>1. row[j].progress <= Reached(TypeOf[j], emitted[j])
        BY <3>1 DEF IInv, RunnerMatchesRow
      <4>2. row[j].progress \in Int
        BY RowFields DEF IInv, TypeOK
      <4>3. /\ Reached(TypeOf[j], emitted[j]) \in 0 .. 100
            /\ Reached(TypeOf[j], emitted'[j]) \in 0 .. 100
            /\ Reached(TypeOf[j], emitted[j]) <= Reached(TypeOf[j], emitted'[j])
        <5>1. TypeOf[j] \in JobType
          BY JobsAssumption
        <5> QED BY <5>1, <1>3, ReachedMonotone DEF Emits
      <4> QED BY <4>1, <4>2, <4>3
    <3>2. runner'[j] \notin {"none", "created"}
      OBVIOUS
    <3> QED BY <2>2, <3>1, <3>2 DEF IInv, RunnerMatchesRow
  <2> QED BY <2>1, <2>2
<1>5. RowTrailsRunner'
  <2> SUFFICES ASSUME NEW i \in Job
               PROVE  /\ row[i].status = "COMPLETED" => runner'[i] = "completed"
                      /\ row[i].status = "FAILED" => runner'[i] = "failed"
                      /\ row[i].status = "RUNNING" =>
                           /\ runner'[i] \notin {"none", "created"}
                           /\ \E k \in 0 .. emitted'[i] :
                                row[i].progress =
                                  IF k = 0 THEN 1 ELSE Reports(TypeOf[i])[k]
    BY DEF RowTrailsRunner, Emits
  <2>1. CASE i # j
    BY <2>1 DEF IInv, RowTrailsRunner, Emits
  <2>2. CASE i = j
    <3>1. row[j].status \notin {"COMPLETED", "FAILED"}
      BY DEF IInv, RowTrailsRunner, Emits
    <3>2. \A k \in 0 .. emitted[j] : k \in 0 .. emitted'[j]
      BY <1>3
    <3> QED BY <2>2, <3>1, <3>2 DEF IInv, RowTrailsRunner, Emits
  <2> QED BY <2>1, <2>2
<1>6. OutcomeFields'
  BY DEF IInv, OutcomeFields, Emits, Ended
<1>7. Snapshots'
  <2>1. \A i \in Job : \A s : OldSnapshot(i, s) => OldSnapshot(i, s)'
    BY DEF OldSnapshot, Emits, Ended
  <2>2. /\ \A r \in Reader : reads[r].phase = "fetched" => reads[r].job \in Job
        /\ worker.phase # "idle" => worker.job \in Job
    BY ReadFields, WorkerFields DEF IInv, TypeOK
  <2>3. OldSnapshot(j, NewRow)
    BY DEF OldSnapshot, NewRow, NoRow, Ended
  <2>4. \A i \in Job : OldSnapshot(i, stream[i])'
    <3> SUFFICES ASSUME NEW i \in Job
                 PROVE  OldSnapshot(i, stream[i])'
      OBVIOUS
    <3>1. stream'[i] = stream[i] \/ (i = j /\ stream'[i] = NewRow)
      <4>1. stream \in [Job -> Row]
        BY DEF IInv, TypeOK
      <4>2. CASE stream' = stream
        BY <4>2
      <4>3. CASE stream' = [stream EXCEPT ![j] = NewRow]
        BY <4>1, <4>3
      <4> QED BY <4>2, <4>3
    <3>2. OldSnapshot(i, stream[i])
      BY DEF IInv, Snapshots
    <3>3. Ended(stream'[i]) => Ended(stream[i]) /\ stream'[i] = stream[i]
      BY <3>1, BlankRows DEF Ended
    <3> QED BY <3>2, <3>3 DEF OldSnapshot, Emits, Ended
  <2>5. worker.phase = "found" => queue' # <<>> /\ worker.job = Head(queue').job
    BY EmittingKeepsOrder, ConcatProperties, EmptySeq DEF IInv, Snapshots, TypeOK, Emits, EventSeq
  <2>6. ASSUME NEW r \in Reader, reads[r].phase = "fetched"
        PROVE  OldSnapshot(reads[r].job, reads[r].snapshot)'
    BY <2>1, <2>2, <2>6 DEF IInv, Snapshots, OldSnapshot, Ended, Emits
  <2>7. ASSUME worker.phase = "applied"
        PROVE  OldSnapshot(worker.job, worker.snapshot)'
    BY <2>1, <2>2, <2>7 DEF IInv, Snapshots, OldSnapshot, Ended, Emits
  <2> QED BY <2>4, <2>5, <2>6, <2>7 DEF Snapshots
<1> QED BY <1>1, <1>2, <1>4, <1>5, <1>6, <1>7 DEF IInv

LEMMA StartRunnerKeeps ==
  ASSUME IInv, NEW j \in Job, StartRunner(j)
  PROVE  IInv'
<1> DEFINE t == TypeOf[j]
           first == FirstAwait(t)
           started == [job |-> j, kind |-> "JOB_STARTED", progress |-> 1]
           evs == <<started>> \o Progress(j, 0, first)
<1>1. /\ t \in JobType /\ ReportCount(t) \in Nat
      /\ first \in 1 .. ReportCount(t) /\ first <= LastAwait(t)
      /\ \A m, n \in 1 .. ReportCount(t) :
           Reports(t)[m] \in 1 .. 100 /\ (m <= n => Reports(t)[m] <= Reports(t)[n])
  BY JobsAssumption, ReportsOrdered
<1>2. /\ runner[j] = "created"
      /\ runner' = [runner EXCEPT ![j] = "running"]
      /\ emitted' = [emitted EXCEPT ![j] = first]
      /\ queue' = queue \o <<started>> \o Progress(j, 0, first)
      /\ stream' = [stream EXCEPT ![j] = NewRow]
      /\ UNCHANGED <<row, worker, reads>>
  BY DEF StartRunner
<1> HIDE DEF first, t
<1>3. /\ runner \in [Job -> RunnerState] /\ emitted \in [Job -> Nat]
      /\ queue \in EventSeq /\ emitted[j] = 0
  BY <1>2 DEF IInv, TypeOK, RunnerMatchesRow, EventSeq
<1>4. /\ Progress(j, 0, first) \in EventSeq
      /\ Len(Progress(j, 0, first)) = first
      /\ \A i \in 1 .. first :
           /\ Progress(j, 0, first)[i].job = j
           /\ Progress(j, 0, first)[i].kind = "JOB_PROGRESS"
           /\ Progress(j, 0, first)[i].progress = Reports(t)[i]
  <2>1. first \in 0 .. ReportCount(t) /\ 0 \in 0 .. first /\ first - 0 = first
    BY <1>1
  <2>2. /\ Progress(j, 0, first) \in Seq(Event)
        /\ Len(Progress(j, 0, first)) = first
        /\ \A i \in 1 .. first :
             /\ Progress(j, 0, first)[i].job = j
             /\ Progress(j, 0, first)[i].kind = "JOB_PROGRESS"
             /\ Progress(j, 0, first)[i].progress = Reports(t)[0 + i]
    <3>1. /\ Progress(j, 0, first) \in Seq(Event)
          /\ Len(Progress(j, 0, first)) = first - 0
          /\ \A i \in 1 .. first - 0 :
               /\ Progress(j, 0, first)[i].job = j
               /\ Progress(j, 0, first)[i].kind = "JOB_PROGRESS"
               /\ Progress(j, 0, first)[i].progress = Reports(t)[0 + i]
      BY <2>1, ProgressEvents, Zenon DEF t
    <3> QED BY <2>1, <3>1, Zenon
  <2>3. \A i \in 1 .. first : 0 + i = i
    BY <1>1
  <2> QED BY <2>2, <2>3 DEF EventSeq
<1>5. started \in Event /\ <<started>> \in EventSeq
  BY DEF Event, EventKind, EventSeq
<1>6. started.job = j /\ started.kind = "JOB_STARTED" /\ started.progress = 1
  OBVIOUS
<1> HIDE DEF started
<1>7. /\ evs \in EventSeq /\ Len(evs) = 1 + first /\ evs[1] = started
      /\ \A n \in 2 .. 1 + first : evs[n] = Progress(j, 0, first)[n - 1]
  BY <1>1, <1>4, <1>5, ConcatProperties DEF EventSeq
<1>8. queue' = queue \o evs
  BY <1>2, <1>3, <1>4, <1>5, ConcatAssociative DEF EventSeq
<1> HIDE DEF evs
<1>9. /\ runner'[j] = "running" /\ emitted'[j] = first
      /\ runner' \in [Job -> RunnerState] /\ emitted' \in [Job -> Nat]
      /\ \A i \in Job \ {j} : runner'[i] = runner[i] /\ emitted'[i] = emitted[i]
  <2>1. "running" \in RunnerState /\ first \in Nat
    BY <1>1 DEF RunnerState
  <2> QED BY <1>2, <1>3, <2>1
<1>10. /\ Reached(t, first) = Reports(t)[first] /\ Reached(t, 0) = 0
       /\ \A i \in 1 .. first : Reports(t)[i] \in 1 .. 100 /\ Reports(t)[i] <= Reached(t, first)
  BY <1>1 DEF Reached
<1>11. ASSUME NEW n \in 1 .. 1 + first
       PROVE  /\ evs[n].job = j
              /\ \/ /\ n = 1 /\ evs[n].kind = "JOB_STARTED" /\ evs[n].progress = 1
                 \/ /\ n - 1 \in 1 .. first /\ evs[n].kind = "JOB_PROGRESS"
                    /\ evs[n].progress = Reports(t)[n - 1]
  <2>1. n = 1 \/ (n \in 2 .. 1 + first /\ n - 1 \in 1 .. first)
    BY <1>1
  <2> QED BY <2>1, <1>4, <1>6, <1>7
<1>12. ASSUME NEW n \in 1 .. 1 + first
       PROVE  EmittedBy(evs[n], "running", first) /\ evs[n].progress >= 0
  <2>1. CASE evs[n].kind = "JOB_STARTED" /\ evs[n].progress = 1
    BY <1>1, <1>10, <1>11, <2>1 DEF EmittedBy, t
  <2>2. CASE /\ n - 1 \in 1 .. first /\ evs[n].kind = "JOB_PROGRESS"
             /\ evs[n].progress = Reports(t)[n - 1]
    <3>1. evs[n].progress \in 1 .. 100 /\ evs[n].progress <= Reached(t, first)
      BY <1>10, <2>2
    <3> QED BY <1>1, <1>11, <2>2, <3>1 DEF EmittedBy, t
  <2> QED BY <1>11, <2>1, <2>2
<1>13. ASSUME NEW m \in 1 .. 1 + first, NEW n \in 1 .. 1 + first, m < n
       PROVE  ~ Closing(evs[m]) /\ evs[m].progress <= evs[n].progress
  <2>1. ~ Closing(evs[m])
    BY <1>11 DEF Closing
  <2>2. /\ n - 1 \in 1 .. first
        /\ evs[n].progress = Reports(t)[n - 1] /\ evs[n].progress \in 1 .. 100
    <3>1. n # 1
      BY <1>1, <1>13
    <3>2. n - 1 \in 1 .. first /\ evs[n].progress = Reports(t)[n - 1]
      BY <1>11, <3>1
    <3> QED BY <1>10, <3>2
  <2>3. ASSUME m = 1 PROVE evs[m].progress <= evs[n].progress
    <3>1. evs[m].progress = 1
      BY <1>1, <1>11, <2>3
    <3> QED BY <2>2, <3>1
  <2>4. ASSUME m # 1 PROVE evs[m].progress <= evs[n].progress
    <3>1. m - 1 \in 1 .. first /\ evs[m].progress = Reports(t)[m - 1]
      BY <1>11, <2>4
    <3>2. m - 1 \in 1 .. ReportCount(t) /\ n - 1 \in 1 .. ReportCount(t) /\ m - 1 <= n - 1
      BY <1>1, <1>13, <2>2, <3>1
    <3>3. Reports(t)[m - 1] <= Reports(t)[n - 1]
      BY <1>1, <3>2
    <3> QED BY <2>2, <3>1, <3>3
  <2> QED BY <2>1, <2>3, <2>4
<1>14. Emits(j, evs)
  <2>1. emitted'[j] \in 0 .. ReportCount(TypeOf[j]) /\ emitted[j] <= emitted'[j]
    BY <1>1, <1>3, <1>9 DEF t
  <2> QED BY <1>2, <1>3, <1>7, <1>8, <1>9, <1>10, <1>11, <1>12, <1>13, <2>1 DEF Emits, t
<1>15. emitted'[j] > 0 /\ emitted'[j] <= LastAwait(TypeOf[j])
  BY <1>1, <1>9 DEF t
<1> QED BY <1>2, <1>7, <1>9, <1>14, <1>15, EmittingKeepsRest

(* What is known of the runner of a job before one of its later steps. *)
LEMMA RunningJob ==
  ASSUME IInv, NEW j \in Job, runner[j] = "running"
  PROVE  /\ TypeOf[j] \in JobType /\ ReportCount(TypeOf[j]) \in Nat
         /\ LastAwait(TypeOf[j]) \in 1 .. ReportCount(TypeOf[j])
         /\ emitted[j] \in 1 .. LastAwait(TypeOf[j])
         /\ Reached(TypeOf[j], emitted[j]) = Reports(TypeOf[j])[emitted[j]]
         /\ runner \in [Job -> RunnerState] /\ emitted \in [Job -> Nat]
         /\ queue \in EventSeq
<1>1. TypeOf[j] \in JobType
  BY JobsAssumption
<1>2. /\ ReportCount(TypeOf[j]) \in Nat
      /\ LastAwait(TypeOf[j]) \in 1 .. ReportCount(TypeOf[j])
  BY <1>1, ReportsOrdered
<1>3. /\ runner \in [Job -> RunnerState] /\ emitted \in [Job -> Nat]
      /\ queue \in EventSeq
  BY DEF IInv, TypeOK, EventSeq
<1>4. emitted[j] > 0 /\ emitted[j] <= LastAwait(TypeOf[j])
  BY DEF IInv, RunnerMatchesRow
<1>5. emitted[j] \in 1 .. LastAwait(TypeOf[j])
  BY <1>2, <1>3, <1>4
<1> QED BY <1>1, <1>2, <1>3, <1>5 DEF Reached

LEMMA ReportProgressKeeps ==
  ASSUME IInv, NEW j \in Job, ReportProgress(j)
  PROVE  IInv'
<1> DEFINE t == TypeOf[j]
           n == emitted[j]
           evs == Progress(j, n, n + 1)
<1>1. /\ runner[j] = "running" /\ n < LastAwait(t)
      /\ emitted' = [emitted EXCEPT ![j] = n + 1]
      /\ queue' = queue \o evs
      /\ UNCHANGED <<row, runner, worker, stream, reads>>
  BY DEF ReportProgress
<1>2. /\ t \in JobType /\ ReportCount(t) \in Nat
      /\ LastAwait(t) \in 1 .. ReportCount(t) /\ n \in 1 .. LastAwait(t)
      /\ Reached(t, n) = Reports(t)[n]
      /\ runner \in [Job -> RunnerState] /\ emitted \in [Job -> Nat]
  BY <1>1, RunningJob
<1> HIDE DEF t, n
<1>3. n + 1 \in 0 .. ReportCount(t) /\ n \in 0 .. n + 1 /\ (n + 1) - n = 1
      /\ n + 1 \in 1 .. ReportCount(t)
  BY <1>1, <1>2
<1>4. evs \in EventSeq /\ Len(evs) = 1
      /\ evs[1].job = j /\ evs[1].kind = "JOB_PROGRESS"
      /\ evs[1].progress = Reports(t)[n + 1]
  <2>1. /\ evs \in Seq(Event)
        /\ Len(evs) = (n + 1) - n
        /\ \A i \in 1 .. (n + 1) - n :
             /\ evs[i].job = j
             /\ evs[i].kind = "JOB_PROGRESS"
             /\ evs[i].progress = Reports(t)[n + i]
    BY <1>3, ProgressEvents, Zenon DEF t
  <2>2. 1 \in 1 .. 1
    OBVIOUS
  <2> QED BY <1>3, <2>1, <2>2, Zenon DEF EventSeq
<1> HIDE DEF evs
<1>5. /\ Reports(t)[n] \in 1 .. 100 /\ Reports(t)[n + 1] \in 1 .. 100
      /\ Reports(t)[n] <= Reports(t)[n + 1]
      /\ Reached(t, n + 1) = Reports(t)[n + 1]
  <2>1. n \in 1 .. ReportCount(t) /\ n <= n + 1 /\ n + 1 # 0
    BY <1>2, <1>3
  <2> QED BY <1>2, <1>3, <2>1, ReportsOrdered DEF Reached
<1>6. EmittedBy(evs[1], "running", n + 1) /\ evs[1].progress >= Reached(t, n)
  BY <1>2, <1>3, <1>4, <1>5 DEF EmittedBy, t
<1>7. /\ emitted'[j] = n + 1 /\ emitted' \in [Job -> Nat]
      /\ \A i \in Job \ {j} : emitted'[i] = emitted[i]
  <2>1. n + 1 \in Nat
    BY <1>2
  <2> QED BY <1>1, <1>2, <2>1
<1>8. /\ emitted[j] <= emitted'[j] /\ emitted'[j] \in 0 .. ReportCount(TypeOf[j])
      /\ emitted'[j] > 0 /\ emitted'[j] <= LastAwait(TypeOf[j])
  BY <1>1, <1>2, <1>3, <1>7 DEF t, n
<1>9. \A i \in 1 .. Len(evs) : i = 1
  BY <1>4
<1>10. \A i, k \in 1 .. Len(evs) : ~ (i < k)
  BY <1>4
<1>11. Emits(j, evs)
  BY <1>1, <1>4, <1>6, <1>7, <1>8, <1>9, <1>10 DEF Emits, t, n
<1> QED BY <1>1, <1>2, <1>4, <1>7, <1>8, <1>11, EmittingKeepsRest

LEMMA FailJobKeeps ==
  ASSUME IInv, NEW j \in Job, FailJob(j)
  PROVE  IInv'
<1> DEFINE t == TypeOf[j]
           n == emitted[j]
           failed == [job |-> j, kind |-> "JOB_FAILED", progress |-> Reports(t)[n]]
           evs == <<failed>>
<1>1. /\ runner[j] = "running"
      /\ runner' = [runner EXCEPT ![j] = "failed"]
      /\ queue' = queue \o evs
      /\ UNCHANGED <<row, emitted, worker, stream, reads>>
  BY DEF FailJob
<1>2. /\ t \in JobType /\ ReportCount(t) \in Nat
      /\ LastAwait(t) \in 1 .. ReportCount(t) /\ n \in 1 .. LastAwait(t)
      /\ Reached(t, n) = Reports(t)[n]
      /\ runner \in [Job -> RunnerState] /\ emitted \in [Job -> Nat]
  BY <1>1, RunningJob
<1> HIDE DEF t, n
<1>3. n \in 1 .. ReportCount(t) /\ Reports(t)[n] \in 1 .. 100
  <2>1. n \in 1 .. ReportCount(t)
    BY <1>2
  <2> QED BY <1>2, <2>1, ReportsOrdered
<1>4. /\ failed \in Event /\ failed.job = j /\ failed.kind = "JOB_FAILED"
      /\ failed.progress = Reached(t, n)
  BY <1>2, <1>3 DEF Event, EventKind
<1> HIDE DEF failed
<1>5. evs \in EventSeq /\ Len(evs) = 1 /\ evs[1] = failed
  BY <1>4 DEF EventSeq
<1> HIDE DEF evs
<1>6. EmittedBy(evs[1], "failed", n) /\ evs[1].progress >= Reached(t, n)
  <2>1. failed.progress \in Int
    BY <1>2, <1>3, <1>4
  <2> QED BY <1>2, <1>3, <1>4, <1>5, <2>1 DEF EmittedBy, t
<1>7. /\ runner'[j] = "failed" /\ runner' \in [Job -> RunnerState]
      /\ \A i \in Job \ {j} : runner'[i] = runner[i]
  BY <1>1, <1>2 DEF RunnerState
<1>8. /\ emitted[j] <= emitted'[j] /\ emitted'[j] \in 0 .. ReportCount(TypeOf[j])
      /\ emitted'[j] > 0 /\ emitted'[j] = n
  BY <1>1, <1>2, <1>3 DEF t, n
<1>9. \A i \in 1 .. Len(evs) : i = 1
  BY <1>5
<1>10. \A i, k \in 1 .. Len(evs) : ~ (i < k)
  BY <1>5
<1>11. Emits(j, evs)
  BY <1>1, <1>4, <1>5, <1>6, <1>7, <1>8, <1>9, <1>10 DEF Emits, t, n
<1> QED BY <1>1, <1>2, <1>5, <1>7, <1>8, <1>11, EmittingKeepsRest

LEMMA CompleteJobKeeps ==
  ASSUME IInv, NEW j \in Job, CompleteJob(j)
  PROVE  IInv'
<1> DEFINE t == TypeOf[j]
           n == emitted[j]
           all == ReportCount(t)
           rest == Progress(j, n, all)
           completed == [job |-> j, kind |-> "JOB_COMPLETED", progress |-> 100]
           evs == rest \o <<completed>>
<1>1. /\ runner[j] = "running" /\ n = LastAwait(t)
      /\ runner' = [runner EXCEPT ![j] = "completed"]
      /\ emitted' = [emitted EXCEPT ![j] = all]
      /\ queue' = queue \o rest \o <<completed>>
      /\ UNCHANGED <<row, worker, stream, reads>>
  BY DEF CompleteJob
<1>2. /\ t \in JobType /\ all \in Nat
      /\ LastAwait(t) \in 1 .. all /\ n \in 1 .. LastAwait(t)
      /\ Reached(t, n) = Reports(t)[n]
      /\ runner \in [Job -> RunnerState] /\ emitted \in [Job -> Nat]
      /\ queue \in EventSeq
  BY <1>1, RunningJob
<1>3. \A i, k \in 1 .. all :
        Reports(t)[i] \in 1 .. 100 /\ (i <= k => Reports(t)[i] <= Reports(t)[k])
  BY <1>2, ReportsOrdered
<1>4. /\ rest \in EventSeq
      /\ Len(rest) = all - n
      /\ \A i \in 1 .. all - n :
           /\ rest[i].job = j
           /\ rest[i].kind = "JOB_PROGRESS"
           /\ rest[i].progress = Reports(t)[n + i]
  <2>1. all \in 0 .. ReportCount(TypeOf[j]) /\ n \in 0 .. all
    BY <1>2
  <2> QED BY <2>1, ProgressEvents, Zenon DEF EventSeq
<1>5. /\ completed \in Event /\ <<completed>> \in EventSeq
      /\ completed.job = j /\ completed.kind = "JOB_COMPLETED" /\ completed.progress = 100
  BY DEF Event, EventKind, EventSeq
<1> HIDE DEF rest, completed, n, all, t
<1>6. all - n \in Nat /\ all - n + 1 \in Nat /\ n \in 1 .. all
  BY <1>2
<1>7. /\ evs \in EventSeq /\ Len(evs) = all - n + 1
      /\ \A i \in 1 .. all - n : evs[i] = rest[i]
      /\ evs[all - n + 1] = completed
  BY <1>4, <1>5, <1>6, ConcatProperties DEF EventSeq
<1>8. queue' = queue \o evs
  <2>1. /\ queue \in Seq(Event) /\ rest \in Seq(Event)
        /\ <<completed>> \in Seq(Event)
    BY <1>2, <1>4, <1>5 DEF EventSeq
  <2>2. (queue \o rest) \o <<completed>> = queue \o (rest \o <<completed>>)
    BY <2>1, ConcatAssociative
  <2> QED BY <1>1, <2>2, Zenon
<1> HIDE DEF evs
<1>9. /\ runner'[j] = "completed" /\ emitted'[j] = all
      /\ runner' \in [Job -> RunnerState] /\ emitted' \in [Job -> Nat]
      /\ \A i \in Job \ {j} : runner'[i] = runner[i] /\ emitted'[i] = emitted[i]
  BY <1>1, <1>2 DEF RunnerState
<1>10. Reached(t, all) = Reports(t)[all] /\ Reached(t, n) \in 1 .. 100
  BY <1>2, <1>3, <1>6 DEF Reached
<1>11. ASSUME NEW i \in 1 .. all - n + 1
       PROVE  /\ evs[i].job = j
              /\ \/ /\ i \in 1 .. all - n /\ evs[i].kind = "JOB_PROGRESS"
                    /\ n + i \in 1 .. all /\ evs[i].progress = Reports(t)[n + i]
                 \/ /\ i = all - n + 1 /\ evs[i].kind = "JOB_COMPLETED"
                    /\ evs[i].progress = 100
  <2>1. i = all - n + 1 \/ (i \in 1 .. all - n /\ n + i \in 1 .. all)
    BY <1>2, <1>6
  <2> QED BY <2>1, <1>4, <1>5, <1>7
<1>12. ASSUME NEW i \in 1 .. all - n + 1
       PROVE  EmittedBy(evs[i], "completed", all) /\ evs[i].progress >= Reached(t, n)
  <2>1. CASE i = all - n + 1 /\ evs[i].kind = "JOB_COMPLETED" /\ evs[i].progress = 100
    BY <1>2, <1>10, <2>1 DEF EmittedBy
  <2>2. CASE /\ n + i \in 1 .. all /\ evs[i].kind = "JOB_PROGRESS"
             /\ evs[i].progress = Reports(t)[n + i]
    <3>1. /\ evs[i].progress \in 1 .. 100 /\ evs[i].progress <= Reached(t, all)
          /\ evs[i].progress >= Reached(t, n)
      <4>1. n <= n + i /\ n + i <= all /\ all \in 1 .. all
        BY <1>2, <1>6, <2>2
      <4> QED BY <1>2, <1>3, <1>6, <1>10, <2>2, <4>1
    <3>2. \E k \in 1 .. all : evs[i].progress = Reports(t)[k]
      BY <2>2
    <3>3. all > 0
      BY <1>2
    <3> QED BY <1>11, <2>2, <3>1, <3>2, <3>3 DEF EmittedBy, t
  <2> QED BY <1>11, <2>1, <2>2
<1>13. ASSUME NEW i \in 1 .. all - n + 1, NEW k \in 1 .. all - n + 1, i < k
       PROVE  ~ Closing(evs[i]) /\ evs[i].progress <= evs[k].progress
  <2>1. i # all - n + 1
    BY <1>6, <1>13
  <2>2. ~ Closing(evs[i])
    BY <1>11, <2>1 DEF Closing
  <2>3. evs[i].progress = Reports(t)[n + i] /\ n + i \in 1 .. all
    BY <1>11, <2>1
  <2>4. \/ evs[k].progress = 100
        \/ evs[k].progress = Reports(t)[n + k] /\ n + k \in 1 .. all
    BY <1>11
  <2>5. n + i <= n + k
    BY <1>2, <1>6, <1>13
  <2>6. evs[i].progress <= evs[k].progress
    BY <1>3, <2>3, <2>4, <2>5
  <2> QED BY <2>2, <2>6
<1>14. Emits(j, evs)
  <2>1. emitted'[j] \in 0 .. ReportCount(TypeOf[j]) /\ emitted[j] <= emitted'[j]
    BY <1>1, <1>2, <1>6, <1>9 DEF t, n, all
  <2> QED BY <1>1, <1>7, <1>8, <1>9, <1>11, <1>12, <1>13, <2>1 DEF Emits, t, n
<1>15. emitted'[j] > 0
  BY <1>2, <1>9
<1> QED BY <1>1, <1>7, <1>9, <1>14, <1>15, EmittingKeepsRest

-----------------------------------------------------------------------------
(* The steps of applyDomainEvent                                           *)

(* Dropping the oldest event keeps what is known of the others, as long as *)
(* no other job changes and the rest of the queue still suits the rows.    *)
LEMMA TailFacts ==
  ASSUME IInv, queue # <<>>
  PROVE  /\ Head(queue) \in Event /\ Head(queue) = queue[1]
         /\ Len(queue) \in Nat /\ 1 \in 1 .. Len(queue)
         /\ Tail(queue) \in EventSeq
         /\ Len(Tail(queue)) \in Nat
         /\ \A n \in 1 .. Len(Tail(queue)) :
              /\ n + 1 \in 1 .. Len(queue) /\ 1 < n + 1
              /\ Tail(queue)[n] = queue[n + 1]
<1>1. queue \in Seq(Event)
  BY DEF IInv, TypeOK
<1>2. /\ Head(queue) \in Event /\ Tail(queue) \in EventSeq
      /\ Len(Tail(queue)) = Len(queue) - 1
      /\ \A n \in 1 .. Len(Tail(queue)) : Tail(queue)[n] = queue[n + 1]
  BY <1>1, HeadTailProperties DEF EventSeq
<1>3. Len(queue) \in Nat \ {0}
  BY <1>1, EmptySeq
<1>4. Head(queue) = queue[1]
  BY <1>1
<1> QED BY <1>2, <1>3, <1>4

LEMMA TailKeepsOrder ==
  ASSUME IInv, queue # <<>>, queue' = Tail(queue),
         runner' = runner, emitted' = emitted
  PROVE  queue' \in Seq(Event) /\ QueueEmitted' /\ QueueOrdered'
<1> DEFINE new == Len(queue')
<1>1. /\ queue' \in EventSeq /\ new \in Nat
      /\ \A n \in 1 .. new : n + 1 \in 1 .. Len(queue) /\ queue'[n] = queue[n + 1]
  BY TailFacts
<1> HIDE DEF new
<1>2. QueueEmitted'
  <2> SUFFICES ASSUME NEW n \in 1 .. new
               PROVE  EmittedBy(queue'[n], runner[queue'[n].job], emitted[queue'[n].job])
    BY DEF QueueEmitted, new
  <2> QED BY <1>1 DEF IInv, QueueEmitted
<1>3. QueueOrdered'
  <2> SUFFICES ASSUME NEW m \in 1 .. new, NEW n \in 1 .. new,
                      m < n, queue'[m].job = queue'[n].job
               PROVE  ~ Closing(queue'[m]) /\ queue'[m].progress <= queue'[n].progress
    BY DEF QueueOrdered, Closing, new
  <2>1. /\ m + 1 \in 1 .. Len(queue) /\ n + 1 \in 1 .. Len(queue)
        /\ queue'[m] = queue[m + 1] /\ queue'[n] = queue[n + 1]
    BY <1>1
  <2>2. m + 1 < n + 1
    BY <1>1
  <2> QED BY <2>1, <2>2 DEF IInv, QueueOrdered
<1> QED BY <1>1, <1>2, <1>3 DEF EventSeq

LEMMA FindRowKeeps ==
  ASSUME IInv, FindRow
  PROVE  IInv'
<1> DEFINE j == Head(queue).job
<1>1. /\ worker = Idle /\ queue # <<>>
      /\ worker' = [phase |-> "found", job |-> j]
      /\ UNCHANGED <<row, runner, emitted, queue, stream, reads>>
  BY DEF FindRow
<1>2. j \in Job /\ row[j] \in Row
  BY <1>1, TailFacts, EventFields DEF IInv, TypeOK
<1> HIDE DEF j
<1>3. worker' \in Worker
  BY <1>1, <1>2 DEF Worker
<1>4. TypeOK'
  BY <1>1, <1>3 DEF IInv, TypeOK
<1>5. Snapshots'
  <2>1. worker'.phase = "found" /\ worker'.job = Head(queue').job
    BY <1>1 DEF j
  <2> QED BY <1>1, <2>1 DEF IInv, Snapshots, OldSnapshot, Ended
<1>6. QueueEmitted' /\ QueueOrdered' /\ RowBehindQueue' /\ RunnerMatchesRow'
        /\ RowTrailsRunner' /\ OutcomeFields'
  BY <1>1 DEF IInv, QueueEmitted, QueueOrdered, RowBehindQueue, RunnerMatchesRow,
              RowTrailsRunner, OutcomeFields, Ended, Closing
<1> QED BY <1>4, <1>5, <1>6 DEF IInv

LEMMA SkipEventKeeps ==
  ASSUME IInv, SkipEvent
  PROVE  IInv'
<1>1. /\ queue # <<>> /\ queue' = Tail(queue) /\ worker' = Idle
      /\ UNCHANGED <<row, runner, emitted, stream, reads>>
  BY DEF SkipEvent, IInv, Snapshots
<1>2. queue' \in Seq(Event) /\ QueueEmitted' /\ QueueOrdered'
  BY <1>1, TailKeepsOrder
<1>3. TypeOK'
  BY <1>1, <1>2 DEF IInv, TypeOK, Worker
<1>4. RowBehindQueue'
  BY <1>1, TailFacts DEF IInv, RowBehindQueue, Ended
<1>5. Snapshots'
  <2>1. worker'.phase = "idle"
    BY <1>1 DEF Idle
  <2> QED BY <1>1, <2>1 DEF IInv, Snapshots, OldSnapshot, Ended
<1>6. RunnerMatchesRow' /\ RowTrailsRunner' /\ OutcomeFields'
  BY <1>1 DEF IInv, RunnerMatchesRow, RowTrailsRunner, OutcomeFields, Ended
<1> QED BY <1>2, <1>3, <1>4, <1>5, <1>6 DEF IInv

(* What an event makes of a row. *)
LEMMA AppliedFields ==
  ASSUME NEW e \in Event, NEW r \in Row
  PROVE  /\ Applied(e, r) \in Row
         /\ Applied(e, r).progress = e.progress
         /\ e.kind \in {"JOB_STARTED", "JOB_PROGRESS"} =>
              /\ Applied(e, r).status = "RUNNING"
              /\ Applied(e, r).ended = r.ended
              /\ Applied(e, r).result = r.result
         /\ e.kind = "JOB_STARTED" => ~ Applied(e, r).error
         /\ e.kind = "JOB_PROGRESS" => Applied(e, r).error = r.error
         /\ e.kind = "JOB_COMPLETED" =>
              /\ Applied(e, r).status = "COMPLETED"
              /\ Applied(e, r).ended /\ Applied(e, r).result /\ ~ Applied(e, r).error
         /\ e.kind = "JOB_FAILED" =>
              /\ Applied(e, r).status = "FAILED"
              /\ Applied(e, r).ended /\ Applied(e, r).error
              /\ Applied(e, r).result = r.result
<1>1. e.kind \in EventKind /\ e.progress \in 0 .. 100
  BY EventFields
<1>2. CASE e.kind = "JOB_STARTED"
  <2>1. Applied(e, r) = [r EXCEPT !.status = "RUNNING", !.progress = e.progress,
                                  !.started = TRUE, !.error = FALSE]
    BY <1>2 DEF Applied
  <2> QED BY <1>1, <1>2, <2>1, Zenon DEF Row
<1>3. CASE e.kind = "JOB_PROGRESS"
  <2>1. Applied(e, r) = [r EXCEPT !.status = "RUNNING", !.progress = e.progress]
    BY <1>3 DEF Applied
  <2> QED BY <1>1, <1>3, <2>1, Zenon DEF Row
<1>4. CASE e.kind = "JOB_COMPLETED"
  <2>1. Applied(e, r) = [r EXCEPT !.status = "COMPLETED", !.progress = e.progress,
                                  !.ended = TRUE, !.result = TRUE, !.error = FALSE]
    BY <1>4 DEF Applied
  <2> QED BY <1>1, <1>4, <2>1, Zenon DEF Row
<1>5. CASE e.kind = "JOB_FAILED"
  <2>1. Applied(e, r) = [r EXCEPT !.status = "FAILED", !.progress = e.progress,
                                  !.ended = TRUE, !.error = TRUE]
    BY <1>5 DEF Applied
  <2> QED BY <1>1, <1>5, <2>1, Zenon DEF Row
<1> QED BY <1>1, <1>2, <1>3, <1>4, <1>5 DEF EventKind

(* The update writes a row that its queue, its runner and everything shown *)
(* of it allow.                                                            *)
LEMMA UpdateMeets ==
  ASSUME IInv, worker.phase = "found", row[Head(queue).job] # NoRow
  PROVE  /\ queue # <<>> /\ Head(queue) \in Event /\ Head(queue).job \in Job
         /\ row[Head(queue).job] \in Row
         /\ ~ Ended(row[Head(queue).job])
         /\ row[Head(queue).job].progress <= Head(queue).progress
         /\ EmittedBy(Head(queue), runner[Head(queue).job], emitted[Head(queue).job])
<1>1. queue # <<>>
  BY DEF IInv, Snapshots
<1>2. Head(queue) \in Event /\ Head(queue) = queue[1] /\ 1 \in 1 .. Len(queue)
  BY <1>1, TailFacts
<1>3. Head(queue).job \in Job
  BY <1>2, EventFields
<1>4. row[Head(queue).job] \in Row
  BY <1>3 DEF IInv, TypeOK
<1>5. /\ ~ Ended(row[Head(queue).job])
      /\ row[Head(queue).job].progress <= Head(queue).progress
  BY <1>2 DEF IInv, RowBehindQueue
<1>6. EmittedBy(Head(queue), runner[Head(queue).job], emitted[Head(queue).job])
  BY <1>2 DEF IInv, QueueEmitted
<1> QED BY <1>1, <1>2, <1>3, <1>4, <1>5, <1>6

LEMMA UpdateRowKeeps ==
  ASSUME IInv, UpdateRow
  PROVE  IInv'
<1> DEFINE e == Head(queue)
           j == e.job
           new == Applied(e, row[j])
<1>1. /\ worker.phase = "found" /\ row[j] # NoRow
      /\ row' = [row EXCEPT ![j] = new]
      /\ worker' = [phase |-> "applied", job |-> j, snapshot |-> new]
      /\ queue' = Tail(queue)
      /\ UNCHANGED <<runner, emitted, stream, reads>>
  BY DEF UpdateRow
<1>2. /\ queue # <<>> /\ e \in Event /\ j \in Job /\ row[j] \in Row /\ ~ Ended(row[j])
      /\ row[j].progress <= e.progress
      /\ EmittedBy(e, runner[j], emitted[j])
      /\ e = queue[1]
  BY <1>1, UpdateMeets, TailFacts
<1>3. /\ new \in Row /\ new.progress = e.progress
      /\ e.kind \in {"JOB_STARTED", "JOB_PROGRESS"} =>
           new.status = "RUNNING" /\ new.ended = row[j].ended /\ new.result = row[j].result
      /\ e.kind = "JOB_STARTED" => ~ new.error
      /\ e.kind = "JOB_PROGRESS" => new.error = row[j].error
      /\ e.kind = "JOB_COMPLETED" =>
           new.status = "COMPLETED" /\ new.ended /\ new.result /\ ~ new.error
      /\ e.kind = "JOB_FAILED" =>
           new.status = "FAILED" /\ new.ended /\ new.error /\ new.result = row[j].result
  BY <1>2, AppliedFields, Zenon
<1>4. e.kind \in EventKind
  BY <1>2, EventFields
<1> HIDE DEF new, e, j
<1>5. row \in [Job -> Row]
  BY DEF IInv, TypeOK
<1>6. row' \in [Job -> Row] /\ row'[j] = new /\ \A i \in Job \ {j} : row'[i] = row[i]
  BY <1>1, <1>2, <1>3, <1>5
<1>7. queue' \in Seq(Event) /\ QueueEmitted' /\ QueueOrdered'
  BY <1>1, <1>2, TailKeepsOrder
<1>8. TypeOK'
  <2>1. worker' \in Worker
    BY <1>1, <1>2, <1>3 DEF Worker
  <2> QED BY <1>1, <1>6, <1>7, <2>1 DEF IInv, TypeOK
<1>9. Ended(new) <=> Closing(e)
  BY <1>3, <1>4 DEF Ended, Closing, EventKind
<1>10. RowBehindQueue'
  <2> DEFINE rest == Len(queue')
  <2>1. \A n \in 1 .. rest :
          n + 1 \in 1 .. Len(queue) /\ 1 < n + 1 /\ queue'[n] = queue[n + 1]
    BY <1>1, <1>2, TailFacts
  <2>2. 1 \in 1 .. Len(queue)
    BY <1>2, TailFacts
  <2> HIDE DEF rest
  <2> SUFFICES ASSUME NEW n \in 1 .. rest, row'[queue'[n].job] # NoRow
               PROVE  /\ ~ Ended(row'[queue'[n].job])
                      /\ row'[queue'[n].job].progress <= queue'[n].progress
    BY DEF RowBehindQueue, Ended, rest
  <2>3. CASE queue'[n].job = j
    <3>1. ~ Closing(e) /\ e.progress <= queue'[n].progress
      BY <1>2, <2>1, <2>2, <2>3 DEF IInv, QueueOrdered, j
    <3> QED BY <1>3, <1>6, <1>9, <2>3, <3>1
  <2>4. CASE queue'[n].job # j
    <3>1. queue[n + 1].job \in Job
      BY <2>1, ElementOfSeq, EventFields DEF IInv, TypeOK
    <3>2. row'[queue'[n].job] = row[queue[n + 1].job] /\ queue'[n] = queue[n + 1]
      BY <1>6, <2>1, <2>4, <3>1
    <3> QED BY <2>1, <3>2 DEF IInv, RowBehindQueue
  <2> QED BY <2>3, <2>4
<1>11. RunnerMatchesRow'
  <2> SUFFICES ASSUME NEW i \in Job
               PROVE  /\ runner[i] = "none" => row'[i] = NoRow
                      /\ runner[i] = "created" => row'[i] \in {NewRow, NoRow}
                      /\ runner[i] \in {"none", "created"} => emitted[i] = 0
                      /\ runner[i] \in {"running", "completed", "failed"} => emitted[i] > 0
                      /\ runner[i] = "running" => emitted[i] <= LastAwait(TypeOf[i])
                      /\ row'[i].status \in {"PENDING", "NONE"} => row'[i].progress = 0
                      /\ row'[i].status = "NONE" => row'[i] = NoRow
                      /\ ~ Ended(row'[i]) => row'[i].progress <= Reached(TypeOf[i], emitted[i])
    BY <1>1 DEF RunnerMatchesRow, Ended
  <2>1. CASE i # j
    BY <1>6, <2>1 DEF IInv, RunnerMatchesRow
  <2>2. CASE i = j
    <3>1. runner[j] \notin {"none", "created"} /\ new.status \notin {"PENDING", "NONE"}
      BY <1>2, <1>3, <1>4 DEF EmittedBy, EventKind
    <3>2. ~ Ended(new) => new.progress <= Reached(TypeOf[j], emitted[j])
      BY <1>2, <1>3, <1>9 DEF EmittedBy, Closing, j
    <3> QED BY <1>6, <2>2, <3>1, <3>2 DEF IInv, RunnerMatchesRow
  <2> QED BY <2>1, <2>2
<1>12. RowTrailsRunner'
  <2> SUFFICES ASSUME NEW i \in Job
               PROVE  /\ row'[i].status = "COMPLETED" => runner[i] = "completed"
                      /\ row'[i].status = "FAILED" => runner[i] = "failed"
                      /\ row'[i].status = "RUNNING" =>
                           /\ runner[i] \notin {"none", "created"}
                           /\ \E k \in 0 .. emitted[i] :
                                row'[i].progress =
                                  IF k = 0 THEN 1 ELSE Reports(TypeOf[i])[k]
    BY <1>1 DEF RowTrailsRunner
  <2>1. CASE i # j
    BY <1>6, <2>1 DEF IInv, RowTrailsRunner
  <2>2. CASE i = j
    <3>1. new.status = "COMPLETED" => runner[j] = "completed"
      BY <1>2, <1>3, <1>4 DEF EmittedBy, EventKind
    <3>2. new.status = "FAILED" => runner[j] = "failed"
      BY <1>2, <1>3, <1>4 DEF EmittedBy, EventKind
    <3>3. ASSUME new.status = "RUNNING"
          PROVE  \E k \in 0 .. emitted[j] :
                   new.progress = IF k = 0 THEN 1 ELSE Reports(TypeOf[j])[k]
      <4>1. e.kind \in {"JOB_STARTED", "JOB_PROGRESS"}
        BY <1>3, <1>4, <3>3 DEF EventKind
      <4>2. emitted[j] \in Nat
        BY <1>2 DEF IInv, TypeOK
      <4>3. CASE e.kind = "JOB_STARTED"
        BY <1>2, <1>3, <4>2, <4>3 DEF EmittedBy
      <4>4. CASE e.kind = "JOB_PROGRESS"
        BY <1>2, <1>3, <4>2, <4>4 DEF EmittedBy, j
      <4> QED BY <4>1, <4>3, <4>4
    <3>4. runner[j] \notin {"none", "created"}
      BY <1>2 DEF EmittedBy
    <3> QED BY <1>6, <2>2, <3>1, <3>2, <3>3, <3>4
  <2> QED BY <2>1, <2>2
<1>13. OutcomeFields'
  <2>1. /\ ~ row[j].ended /\ ~ row[j].result /\ ~ row[j].error
    <3>1. row[j].ended \in BOOLEAN /\ row[j].result \in BOOLEAN /\ row[j].error \in BOOLEAN
      BY <1>2, Zenon DEF Row
    <3> QED BY <1>2, <3>1 DEF IInv, OutcomeFields, Ended
  <2>2. /\ new.ended <=> Ended(new)
        /\ new.result <=> new.status = "COMPLETED"
        /\ new.error <=> new.status = "FAILED"
    <3>1. CASE e.kind = "JOB_STARTED" \/ e.kind = "JOB_PROGRESS"
      BY <1>3, <2>1, <3>1, Zenon DEF Ended
    <3>2. CASE e.kind = "JOB_COMPLETED"
      BY <1>3, <2>1, <3>2, Zenon DEF Ended
    <3>3. CASE e.kind = "JOB_FAILED"
      BY <1>3, <2>1, <3>3, Zenon DEF Ended
    <3> QED BY <1>4, <3>1, <3>2, <3>3 DEF EventKind
  <2>3. new.status = "COMPLETED" => new.progress = 100
    BY <1>2, <1>3, <1>4 DEF EmittedBy, EventKind
  <2> SUFFICES ASSUME NEW i \in Job
               PROVE  /\ row'[i].ended <=> Ended(row'[i])
                      /\ row'[i].result <=> row'[i].status = "COMPLETED"
                      /\ row'[i].error <=> row'[i].status = "FAILED"
                      /\ row'[i].status = "COMPLETED" => row'[i].progress = 100
    BY DEF OutcomeFields, Ended
  <2>4. CASE i # j
    BY <1>6, <2>4 DEF IInv, OutcomeFields
  <2>5. CASE i = j
    BY <1>6, <2>2, <2>3, <2>5
  <2> QED BY <2>4, <2>5
<1>14. Snapshots'
  <2>1. ASSUME NEW i \in Job, NEW snap, OldSnapshot(i, snap)
        PROVE  Ended(snap) => runner[i] # "none" /\ row'[i] \in {snap, NoRow}
    BY <1>1, <1>2, <1>6, <2>1 DEF OldSnapshot
  <2>2. \A i \in Job : OldSnapshot(i, stream[i])'
    BY <1>1, <2>1 DEF IInv, Snapshots, OldSnapshot, Ended
  <2>3. ASSUME NEW r \in Reader, reads[r].phase = "fetched"
        PROVE  OldSnapshot(reads[r].job, reads[r].snapshot)'
    <3>1. reads[r].job \in Job
      BY <2>3, ReadFields DEF IInv, TypeOK
    <3> QED BY <1>1, <2>1, <2>3, <3>1 DEF IInv, Snapshots, OldSnapshot, Ended
  <2>4. OldSnapshot(worker.job, worker.snapshot)'
    <3>1. runner[j] # "none"
      BY <1>2 DEF EmittedBy
    <3> QED BY <1>1, <1>6, <3>1 DEF OldSnapshot, Ended
  <2>5. worker'.phase = "applied"
    BY <1>1
  <2> QED BY <1>1, <2>2, <2>3, <2>4, <2>5 DEF Snapshots
<1> QED BY <1>7, <1>8, <1>10, <1>11, <1>12, <1>13, <1>14 DEF IInv

LEMMA PublishUpdateKeeps ==
  ASSUME IInv, PublishUpdate
  PROVE  IInv'
<1>1. /\ worker.phase = "applied" /\ worker' = Idle
      /\ stream' \in {stream, [stream EXCEPT ![worker.job] = worker.snapshot]}
      /\ UNCHANGED <<row, runner, emitted, queue, reads>>
  BY DEF PublishUpdate
<1>2. worker.job \in Job /\ worker.snapshot \in Row /\ stream \in [Job -> Row]
  BY <1>1, WorkerFields DEF IInv, TypeOK
<1>3. \A i \in Job : \/ stream'[i] = stream[i]
                     \/ i = worker.job /\ stream'[i] = worker.snapshot
  BY <1>1, <1>2
<1>4. stream' \in [Job -> Row]
  BY <1>1, <1>2
<1>5. TypeOK'
  BY <1>1, <1>4 DEF IInv, TypeOK, Worker
<1>6. Snapshots'
  <2>1. worker'.phase = "idle"
    BY <1>1 DEF Idle
  <2>2. \A i \in Job : OldSnapshot(i, stream'[i])
    BY <1>1, <1>3 DEF IInv, Snapshots
  <2> QED BY <1>1, <2>1, <2>2 DEF IInv, Snapshots, OldSnapshot, Ended
<1>7. QueueEmitted' /\ QueueOrdered' /\ RowBehindQueue' /\ RunnerMatchesRow'
        /\ RowTrailsRunner' /\ OutcomeFields'
  BY <1>1 DEF IInv, QueueEmitted, QueueOrdered, RowBehindQueue, RunnerMatchesRow,
              RowTrailsRunner, OutcomeFields, Ended, Closing
<1> QED BY <1>5, <1>6, <1>7 DEF IInv

-----------------------------------------------------------------------------
(* Requests, deletions and restarts                                        *)

LEMMA FetchJobKeeps ==
  ASSUME IInv, NEW r \in Reader, NEW j \in Job, FetchJob(r, j)
  PROVE  IInv'
<1> DEFINE got == [phase |-> "fetched", job |-> j, snapshot |-> row[j]]
<1>1. /\ row[j] # NoRow /\ reads' = [reads EXCEPT ![r] = got]
      /\ UNCHANGED <<row, runner, emitted, queue, worker, stream>>
  BY DEF FetchJob
<1>2. row[j] \in Row /\ reads \in [Reader -> Read] /\ got \in Read
  BY DEF IInv, TypeOK, Read
<1>3. got.phase = "fetched" /\ got.job = j /\ got.snapshot = row[j]
  OBVIOUS
<1> HIDE DEF got
<1>4. /\ reads' \in [Reader -> Read]
      /\ \A i \in Reader : reads'[i] = reads[i] \/ reads'[i] = got
  BY <1>1, <1>2
<1>5. TypeOK'
  BY <1>1, <1>4 DEF IInv, TypeOK
<1>6. OldSnapshot(j, row[j])
  BY <1>1 DEF IInv, RunnerMatchesRow, OldSnapshot
<1>7. Snapshots'
  <2>1. ASSUME NEW i \in Reader, reads'[i].phase = "fetched"
        PROVE  OldSnapshot(reads'[i].job, reads'[i].snapshot)
    BY <1>3, <1>4, <1>6, <2>1 DEF IInv, Snapshots
  <2> QED BY <1>1, <2>1 DEF IInv, Snapshots, OldSnapshot, Ended
<1>8. QueueEmitted' /\ QueueOrdered' /\ RowBehindQueue' /\ RunnerMatchesRow'
        /\ RowTrailsRunner' /\ OutcomeFields'
  BY <1>1 DEF IInv, QueueEmitted, QueueOrdered, RowBehindQueue, RunnerMatchesRow,
              RowTrailsRunner, OutcomeFields, Ended, Closing
<1> QED BY <1>5, <1>7, <1>8 DEF IInv

LEMMA PublishFetchedKeeps ==
  ASSUME IInv, NEW r \in Reader, PublishFetched(r)
  PROVE  IInv'
<1>1. /\ reads[r].phase = "fetched"
      /\ stream' = [stream EXCEPT ![reads[r].job] = reads[r].snapshot]
      /\ reads' = [reads EXCEPT ![r] = NoRead]
      /\ UNCHANGED <<row, runner, emitted, queue, worker>>
  BY DEF PublishFetched
<1>2. /\ reads[r].job \in Job /\ reads[r].snapshot \in Row
      /\ stream \in [Job -> Row] /\ reads \in [Reader -> Read] /\ NoRead \in Read
  BY <1>1, ReadFields DEF IInv, TypeOK, Read
<1>3. /\ reads' \in [Reader -> Read] /\ stream' \in [Job -> Row]
      /\ \A i \in Reader : reads'[i] = reads[i] \/ reads'[i] = NoRead
      /\ \A i \in Job : \/ stream'[i] = stream[i]
                        \/ i = reads[r].job /\ stream'[i] = reads[r].snapshot
  BY <1>1, <1>2
<1>4. TypeOK'
  BY <1>1, <1>3 DEF IInv, TypeOK
<1>5. Snapshots'
  <2>1. ASSUME NEW i \in Reader, reads'[i].phase = "fetched"
        PROVE  OldSnapshot(reads'[i].job, reads'[i].snapshot)
    BY <1>3, <2>1 DEF IInv, Snapshots, NoRead
  <2>2. \A i \in Job : OldSnapshot(i, stream'[i])
    BY <1>1, <1>3 DEF IInv, Snapshots
  <2> QED BY <1>1, <2>1, <2>2 DEF IInv, Snapshots, OldSnapshot, Ended
<1>6. QueueEmitted' /\ QueueOrdered' /\ RowBehindQueue' /\ RunnerMatchesRow'
        /\ RowTrailsRunner' /\ OutcomeFields'
  BY <1>1 DEF IInv, QueueEmitted, QueueOrdered, RowBehindQueue, RunnerMatchesRow,
              RowTrailsRunner, OutcomeFields, Ended, Closing
<1> QED BY <1>4, <1>5, <1>6 DEF IInv

(* Zero is behind whatever a runner has reported. *)
LEMMA NothingReached ==
  ASSUME IInv, NEW j \in Job
  PROVE  0 <= Reached(TypeOf[j], emitted[j])
<1>1. TypeOf[j] \in JobType /\ ReportCount(TypeOf[j]) \in Nat
  BY JobsAssumption, ReportsOrdered
<1>2. emitted[j] \in 0 .. ReportCount(TypeOf[j]) /\ 0 \in 0 .. emitted[j]
  BY <1>1 DEF IInv, TypeOK
<1>3. Reached(TypeOf[j], emitted[j]) \in 0 .. 100
  BY <1>1, <1>2, ReachedMonotone
<1> QED BY <1>3

(* A row that is queued or removed: blank is NewRow or NoRow. *)
LEMMA BlankRowKeeps ==
  ASSUME IInv, NEW j \in Job, NEW blank \in {NewRow, NoRow},
         row' = [row EXCEPT ![j] = blank],
         runner'[j] # "none", runner'[j] = "created" => emitted[j] = 0,
         runner'[j] # runner[j] => runner'[j] = "created" /\ runner[j] = "none",
         blank = NewRow => runner[j] = "none" /\ runner'[j] = "created",
         \A i \in Job \ {j} : runner'[i] = runner[i],
         runner' \in [Job -> RunnerState],
         UNCHANGED <<emitted, queue, worker, stream, reads>>
  PROVE  IInv'
<1>1. row \in [Job -> Row] /\ blank \in Row
  BY BlankRows DEF IInv, TypeOK
<1>2. row' \in [Job -> Row] /\ row'[j] = blank /\ \A i \in Job \ {j} : row'[i] = row[i]
  BY <1>1
<1>3. /\ blank.progress = 0 /\ blank.status \in {"NONE", "PENDING"} /\ ~ Ended(blank)
      /\ blank.status = "NONE" => blank = NoRow
  BY BlankRows DEF Ended
<1>4. TypeOK'
  BY <1>2 DEF IInv, TypeOK
<1>5. ASSUME NEW n \in 1 .. Len(queue)
      PROVE  /\ queue[n] \in Event /\ queue[n].job \in Job
             /\ EmittedBy(queue[n], runner[queue[n].job], emitted[queue[n].job])
             /\ runner'[queue[n].job] = runner[queue[n].job]
  <2>1. queue[n] \in Event /\ queue[n].job \in Job
    BY ElementOfSeq, EventFields DEF IInv, TypeOK
  <2>2. EmittedBy(queue[n], runner[queue[n].job], emitted[queue[n].job])
    BY DEF IInv, QueueEmitted
  <2> QED BY <2>1, <2>2 DEF EmittedBy
<1>6. QueueEmitted' /\ QueueOrdered'
  BY <1>5 DEF IInv, QueueEmitted, QueueOrdered, Closing
<1>7. RowBehindQueue'
  <2> SUFFICES ASSUME NEW n \in 1 .. Len(queue), row'[queue[n].job] # NoRow
               PROVE  /\ ~ Ended(row'[queue[n].job])
                      /\ row'[queue[n].job].progress <= queue[n].progress
    BY DEF RowBehindQueue, Ended
  <2>1. CASE queue[n].job = j
    <3>1. runner'[j] \notin {"none", "created"}
      BY <1>5, <2>1 DEF EmittedBy
    <3> QED BY <1>2, <2>1, <3>1
  <2>2. CASE queue[n].job # j
    BY <1>2, <1>5, <2>2 DEF IInv, RowBehindQueue
  <2> QED BY <2>1, <2>2
<1>8. RunnerMatchesRow'
  <2> SUFFICES ASSUME NEW i \in Job
               PROVE  /\ runner'[i] = "none" => row'[i] = NoRow
                      /\ runner'[i] = "created" => row'[i] \in {NewRow, NoRow}
                      /\ runner'[i] \in {"none", "created"} => emitted[i] = 0
                      /\ runner'[i] \in {"running", "completed", "failed"} => emitted[i] > 0
                      /\ runner'[i] = "running" => emitted[i] <= LastAwait(TypeOf[i])
                      /\ row'[i].status \in {"PENDING", "NONE"} => row'[i].progress = 0
                      /\ row'[i].status = "NONE" => row'[i] = NoRow
                      /\ ~ Ended(row'[i]) => row'[i].progress <= Reached(TypeOf[i], emitted[i])
    BY DEF RunnerMatchesRow, Ended
  <2>1. CASE i # j
    BY <1>2, <2>1 DEF IInv, RunnerMatchesRow
  <2>2. CASE i = j
    BY <1>2, <1>3, <2>2, NothingReached DEF IInv, RunnerMatchesRow
  <2> QED BY <2>1, <2>2
<1>9. RowTrailsRunner'
  <2> SUFFICES ASSUME NEW i \in Job
               PROVE  /\ row'[i].status = "COMPLETED" => runner'[i] = "completed"
                      /\ row'[i].status = "FAILED" => runner'[i] = "failed"
                      /\ row'[i].status = "RUNNING" =>
                           /\ runner'[i] \notin {"none", "created"}
                           /\ \E k \in 0 .. emitted[i] :
                                row'[i].progress =
                                  IF k = 0 THEN 1 ELSE Reports(TypeOf[i])[k]
    BY DEF RowTrailsRunner
  <2>1. CASE i # j
    BY <1>2, <2>1 DEF IInv, RowTrailsRunner
  <2>2. CASE i = j
    BY <1>2, <1>3, <2>2
  <2> QED BY <2>1, <2>2
<1>10. OutcomeFields'
  <2>1. ~ blank.ended /\ ~ blank.result /\ ~ blank.error
    BY DEF NewRow, NoRow
  <2> SUFFICES ASSUME NEW i \in Job
               PROVE  /\ row'[i].ended <=> Ended(row'[i])
                      /\ row'[i].result <=> row'[i].status = "COMPLETED"
                      /\ row'[i].error <=> row'[i].status = "FAILED"
                      /\ row'[i].status = "COMPLETED" => row'[i].progress = 100
    BY DEF OutcomeFields, Ended
  <2>2. CASE i # j
    BY <1>2, <2>2 DEF IInv, OutcomeFields
  <2>3. CASE i = j
    BY <1>2, <1>3, <2>1, <2>3
  <2> QED BY <2>2, <2>3
<1>11. Snapshots'
  <2>1. ASSUME NEW i \in Job, NEW s, OldSnapshot(i, s)
        PROVE  Ended(s) => runner'[i] # "none" /\ row'[i] \in {s, NoRow}
    <3>1. CASE i # j
      BY <1>2, <2>1, <3>1 DEF OldSnapshot
    <3>2. CASE i = j
      BY <1>2, <2>1, <3>2 DEF OldSnapshot, IInv, RunnerMatchesRow
    <3> QED BY <3>1, <3>2
  <2>2. \A i \in Job : OldSnapshot(i, stream[i])'
    BY <2>1 DEF IInv, Snapshots, OldSnapshot, Ended
  <2>3. ASSUME NEW r \in Reader, reads[r].phase = "fetched"
        PROVE  OldSnapshot(reads[r].job, reads[r].snapshot)'
    <3>1. reads[r].job \in Job
      BY <2>3, ReadFields DEF IInv, TypeOK
    <3> QED BY <2>1, <2>3, <3>1 DEF IInv, Snapshots, OldSnapshot, Ended
  <2>4. ASSUME worker.phase = "applied"
        PROVE  OldSnapshot(worker.job, worker.snapshot)'
    <3>1. worker.job \in Job
      BY <2>4, WorkerFields DEF IInv, TypeOK
    <3> QED BY <2>1, <2>4, <3>1 DEF IInv, Snapshots, OldSnapshot, Ended
  <2> QED BY <2>2, <2>3, <2>4 DEF IInv, Snapshots
<1> QED BY <1>4, <1>6, <1>7, <1>8, <1>9, <1>10, <1>11 DEF IInv

LEMMA CreateJobKeeps ==
  ASSUME IInv, NEW j \in Job, CreateJob(j)
  PROVE  IInv'
<1>1. /\ runner[j] = "none" /\ row' = [row EXCEPT ![j] = NewRow]
      /\ runner' = [runner EXCEPT ![j] = "created"]
      /\ UNCHANGED <<emitted, queue, worker, stream, reads>>
  BY DEF CreateJob
<1>2. runner \in [Job -> RunnerState] /\ emitted[j] = 0
  BY <1>1 DEF IInv, TypeOK, RunnerMatchesRow
<1>3. /\ runner' \in [Job -> RunnerState] /\ runner'[j] = "created"
      /\ \A i \in Job \ {j} : runner'[i] = runner[i]
  BY <1>1, <1>2 DEF RunnerState
<1> QED BY <1>1, <1>2, <1>3, BlankRowKeeps

LEMMA DeleteOwnerKeeps ==
  ASSUME IInv, NEW j \in Job, DeleteOwner(j)
  PROVE  IInv'
<1>1. /\ row[j] # NoRow /\ row' = [row EXCEPT ![j] = NoRow]
      /\ UNCHANGED <<runner, emitted, queue, worker, stream, reads>>
  BY DEF DeleteOwner
<1>2. /\ runner' \in [Job -> RunnerState] /\ runner'[j] # "none"
      /\ runner'[j] = "created" => emitted[j] = 0
  BY <1>1 DEF IInv, TypeOK, RunnerMatchesRow
<1>3. NoRow # NewRow
  BY BlankRows
<1> QED BY <1>1, <1>2, <1>3, BlankRowKeeps

LEMMA RestartKeeps ==
  ASSUME IInv, Restart
  PROVE  IInv'
<1>1. /\ runner' = [j \in Job |-> IF runner[j] \in {"created", "running"}
                                 THEN "lost" ELSE runner[j]]
      /\ queue' = <<>> /\ worker' = Idle
      /\ stream' = [j \in Job |-> NoRow]
      /\ reads' = [r \in Reader |-> NoRead]
      /\ UNCHANGED <<row, emitted>>
  BY DEF Restart
<1>2. \A j \in Job : \/ runner'[j] = runner[j] /\ runner[j] \notin {"created", "running"}
                     \/ runner'[j] = "lost" /\ runner[j] \in {"created", "running"}
  BY <1>1
<1>3. TypeOK'
  <2>1. runner' \in [Job -> RunnerState]
    BY <1>1 DEF IInv, TypeOK, RunnerState
  <2>2. /\ queue' \in Seq(Event) /\ worker' \in Worker
        /\ stream' \in [Job -> Row] /\ reads' \in [Reader -> Read]
    BY <1>1, BlankRows DEF Worker, Read
  <2> QED BY <1>1, <2>1, <2>2 DEF IInv, TypeOK
<1>4. QueueEmitted' /\ QueueOrdered' /\ RowBehindQueue'
  BY <1>1 DEF QueueEmitted, QueueOrdered, RowBehindQueue
<1>5. RunnerMatchesRow'
  BY <1>1, <1>2 DEF IInv, RunnerMatchesRow, Ended
<1>6. RowTrailsRunner'
  BY <1>1, <1>2 DEF IInv, RowTrailsRunner
<1>7. OutcomeFields'
  BY <1>1 DEF IInv, OutcomeFields, Ended
<1>8. Snapshots'
  BY <1>1, BlankRows DEF Snapshots, OldSnapshot, Ended, Idle, NoRead
<1> QED BY <1>3, <1>4, <1>5, <1>6, <1>7, <1>8 DEF IInv

-----------------------------------------------------------------------------
(* The theorems                                                            *)

LEMMA InitIInv == Init => IInv
<1> SUFFICES ASSUME Init PROVE IInv
  OBVIOUS
<1>1. /\ row = [j \in Job |-> NoRow] /\ runner = [j \in Job |-> "none"]
      /\ emitted = [j \in Job |-> 0] /\ queue = <<>> /\ worker = Idle
      /\ stream = [j \in Job |-> NoRow] /\ reads = [r \in Reader |-> NoRead]
  BY DEF Init
<1>2. TypeOK
  <2>1. \A j \in Job : ReportCount(TypeOf[j]) >= 0
    <3> SUFFICES ASSUME NEW j \in Job PROVE ReportCount(TypeOf[j]) >= 0
      OBVIOUS
    <3>1. TypeOf[j] \in JobType
      BY JobsAssumption
    <3>2. ReportCount(TypeOf[j]) \in Nat
      BY <3>1, ReportsOrdered
    <3> QED BY <3>2
  <2>2. emitted \in [Job -> Nat] /\ \A j \in Job : emitted[j] <= ReportCount(TypeOf[j])
    BY <1>1, <2>1
  <2> QED BY <1>1, <2>2, BlankRows DEF TypeOK, RunnerState, Worker, Read
<1>3. QueueEmitted /\ QueueOrdered /\ RowBehindQueue
  BY <1>1 DEF QueueEmitted, QueueOrdered, RowBehindQueue
<1>4. RunnerMatchesRow
  <2>1. 0 <= 0
    OBVIOUS
  <2> QED BY <1>1, <2>1, BlankRows DEF RunnerMatchesRow, Reached
<1>5. RowTrailsRunner
  BY <1>1, BlankRows DEF RowTrailsRunner
<1>6. OutcomeFields
  BY <1>1, BlankRows DEF OutcomeFields, Ended, NoRow
<1>7. Snapshots
  BY <1>1, BlankRows DEF Snapshots, OldSnapshot, Ended, Idle, NoRead
<1> QED BY <1>2, <1>3, <1>4, <1>5, <1>6, <1>7 DEF IInv

LEMMA NextIInv == IInv /\ [Next]_vars => IInv'
<1> SUFFICES ASSUME IInv, [Next]_vars PROVE IInv'
  OBVIOUS
<1>1. ASSUME NEW j \in Job, CreateJob(j) PROVE IInv'
  BY <1>1, CreateJobKeeps
<1>2. ASSUME NEW j \in Job, RunJob(j) PROVE IInv'
  BY <1>2, StartRunnerKeeps, ReportProgressKeeps, CompleteJobKeeps, FailJobKeeps DEF RunJob
<1>3. ASSUME NEW j \in Job, DeleteOwner(j) PROVE IInv'
  BY <1>3, DeleteOwnerKeeps
<1>4. CASE ApplyEvents
  BY <1>4, FindRowKeeps, SkipEventKeeps, UpdateRowKeeps, PublishUpdateKeeps DEF ApplyEvents
<1>5. ASSUME NEW r \in Reader, PublishFetched(r) PROVE IInv'
  BY <1>5, PublishFetchedKeeps
<1>6. ASSUME NEW r \in Reader, NEW j \in Job, FetchJob(r, j) PROVE IInv'
  BY <1>6, FetchJobKeeps
<1>7. CASE Restart
  BY <1>7, RestartKeeps
<1>8. CASE UNCHANGED vars
  BY <1>8 DEF vars, IInv, TypeOK, QueueEmitted, QueueOrdered, RowBehindQueue,
              RunnerMatchesRow, RowTrailsRunner, OutcomeFields, Snapshots,
              OldSnapshot, Ended, Closing
<1> QED BY <1>1, <1>2, <1>3, <1>4, <1>5, <1>6, <1>7, <1>8 DEF Next

(* The strengthened invariant holds of every run of the job system. *)
THEOREM Invariant == Spec => []IInv
<1>1. Init => IInv
  BY InitIInv
<1>2. IInv /\ [Next]_vars => IInv'
  BY NextIInv
<1> QED BY <1>1, <1>2, PTL DEF Spec

(* Rows, events, snapshots and percentages keep their types, however many  *)
(* jobs of whatever types share the queue.                                 *)
THEOREM TypeCorrect == Spec => []TypeOK
<1>1. IInv => TypeOK
  BY DEF IInv
<1> QED BY <1>1, Invariant, PTL

(* The row of a job never shows an outcome its runner has not reached nor  *)
(* a percentage it has not reported.                                       *)
THEOREM RowAlwaysTrails == Spec => []RowTrailsRunner
<1>1. IInv => RowTrailsRunner
  BY DEF IInv
<1> QED BY <1>1, Invariant, PTL

(* completedAt, result and errorMessage always agree with the status.      *)
THEOREM FieldsAgree == Spec => []OutcomeFields
<1>1. IInv => OutcomeFields
  BY DEF IInv
<1> QED BY <1>1, Invariant, PTL

(* Whatever the interleaving of the worker with any number of reads, an    *)
(* ended snapshot on a stream is the row as it stays.                      *)
THEOREM ShownOutcomes == Spec => []ShownOutcomeIsFinal
<1>1. IInv => ShownOutcomeIsFinal
  BY DEF IInv, Snapshots, OldSnapshot, ShownOutcomeIsFinal
<1> QED BY <1>1, Invariant, PTL

-----------------------------------------------------------------------------
(* The rows implement JobLifecycle                                         *)

(* A step that changes no row and creates no job stutters. *)
LEMMA SameRows ==
  ASSUME row' = row, \A j \in Job : runner'[j] = "none" <=> runner[j] = "none"
  PROVE  UNCHANGED Lifecycle!lifecycleVars
<1>1. \A j \in Job : Stage(j)' = Stage(j)
  BY DEF Stage
<1> QED BY <1>1 DEF Lifecycle!lifecycleVars

(* What a step that writes the row of job j does to the lifecycle. *)
LEMMA OneRow ==
  ASSUME row \in [Job -> Row], NEW j \in Job, NEW new \in Row, NEW stage,
         row' = [row EXCEPT ![j] = new],
         \A i \in Job \ {j} : runner'[i] = runner[i],
         Stage(j)' = stage
  PROVE  /\ [i \in Job |-> Stage(i)]' = [[i \in Job |-> Stage(i)] EXCEPT ![j] = stage]
         /\ [i \in Job |-> row[i].progress]' = [[i \in Job |-> row[i].progress] EXCEPT ![j] = new.progress]
         /\ [i \in Job |-> Stage(i)][j] = Stage(j)
         /\ [i \in Job |-> row[i].progress][j] = row[j].progress
         /\ [i \in Job |-> row[i].progress]'[j] = new.progress
<1>1. \A i \in Job \ {j} : Stage(i)' = Stage(i)
  BY DEF Stage
<1>2. [i \in Job |-> Stage(i)]' = [[i \in Job |-> Stage(i)] EXCEPT ![j] = stage]
  BY <1>1
<1> QED BY <1>2

LEMMA CreateQueues ==
  ASSUME IInv, NEW j \in Job, CreateJob(j)
  PROVE  Lifecycle!Queue(j)
<1>1. /\ runner[j] = "none" /\ row' = [row EXCEPT ![j] = NewRow]
      /\ \A i \in Job \ {j} : runner'[i] = runner[i]
  BY DEF CreateJob, IInv, TypeOK
<1>2. row \in [Job -> Row] /\ row[j] = NoRow
  BY <1>1 DEF IInv, TypeOK, RunnerMatchesRow
<1>3. Stage(j) = "NONE" /\ Stage(j)' = "PENDING"
  BY <1>1, <1>2, BlankRows DEF Stage
<1> QED BY <1>1, <1>2, <1>3, OneRow, BlankRows DEF Lifecycle!Queue

LEMMA DeleteRemoves ==
  ASSUME IInv, NEW j \in Job, DeleteOwner(j)
  PROVE  Lifecycle!Remove(j)
<1>1. row[j] # NoRow /\ row' = [row EXCEPT ![j] = NoRow] /\ runner' = runner
  BY DEF DeleteOwner
<1>2. /\ row \in [Job -> Row] /\ row[j].status # "NONE"
      /\ runner[j] # "none"
  BY <1>1 DEF IInv, TypeOK, RunnerMatchesRow
<1>3. row[j].status # "GONE"
  BY <1>2, Zenon DEF Row
<1>4. Stage(j) \notin {"NONE", "GONE"} /\ Stage(j)' = "GONE"
  BY <1>1, <1>2, <1>3 DEF Stage
<1> QED BY <1>1, <1>2, <1>4, OneRow, BlankRows DEF Lifecycle!Remove

LEMMA UpdateAdvances ==
  ASSUME IInv, UpdateRow, NEW j \in Job, j = Head(queue).job
  PROVE  Lifecycle!Report(j) \/ Lifecycle!Complete(j) \/ Lifecycle!Fail(j)
<1> DEFINE e == Head(queue)
           new == Applied(e, row[j])
<1>1. /\ worker.phase = "found" /\ row[j] # NoRow
      /\ row' = [row EXCEPT ![j] = new] /\ runner' = runner
  BY DEF UpdateRow
<1>2. /\ e \in Event /\ j \in Job /\ row[j] \in Row /\ ~ Ended(row[j])
      /\ row[j].progress <= e.progress
      /\ EmittedBy(e, runner[j], emitted[j])
  BY <1>1, UpdateMeets
<1>3. /\ new \in Row /\ new.progress = e.progress
      /\ e.kind \in {"JOB_STARTED", "JOB_PROGRESS"} => new.status = "RUNNING"
      /\ e.kind = "JOB_COMPLETED" => new.status = "COMPLETED"
      /\ e.kind = "JOB_FAILED" => new.status = "FAILED"
  BY <1>2, AppliedFields, Zenon
<1>4. e.kind \in EventKind /\ e.progress \in 0 .. 100
  BY <1>2, EventFields
<1> HIDE DEF new, e
<1>5. row \in [Job -> Row] /\ row[j].status \in Lifecycle!Active
  <2>1. row[j].status # "NONE"
    BY <1>1, <1>2 DEF IInv, RunnerMatchesRow
  <2>2. row[j].status \in {"NONE", "PENDING", "RUNNING", "COMPLETED", "FAILED"}
    BY <1>2, Zenon DEF Row
  <2> QED BY <1>2, <2>1, <2>2 DEF IInv, TypeOK, Ended, Lifecycle!Active
<1>6. new.progress \in row[j].progress .. 100
  BY <1>2, <1>3, <1>4, RowFields
<1> DEFINE status == [i \in Job |-> Stage(i)]
           progress == [i \in Job |-> row[i].progress]
<1>7. /\ status' = [status EXCEPT ![j] = new.status]
      /\ progress' = [progress EXCEPT ![j] = new.progress]
      /\ status[j] = row[j].status /\ progress[j] = row[j].progress
      /\ progress'[j] = new.progress
  <2>1. e.kind \in {"JOB_STARTED", "JOB_PROGRESS", "JOB_COMPLETED", "JOB_FAILED"}
    BY <1>4 DEF EventKind
  <2>2. new # NoRow
    BY <1>3, <2>1, BlankRows
  <2>3. Stage(j)' = new.status
    BY <1>1, <1>5, <2>2 DEF Stage
  <2>4. Stage(j) = row[j].status
    BY <1>1 DEF Stage
  <2>5. \A i \in Job \ {j} : Stage(i)' = Stage(i)
    BY <1>1, <1>5 DEF Stage
  <2>6. status' = [status EXCEPT ![j] = new.status]
    BY <2>3, <2>5
  <2>7. progress' = [progress EXCEPT ![j] = new.progress]
    BY <1>1, <1>5
  <2> QED BY <2>4, <2>6, <2>7
<1>8. ASSUME e.kind \in {"JOB_STARTED", "JOB_PROGRESS"} PROVE Lifecycle!Report(j)
  <2>1. Lifecycle!Advance(j, "RUNNING")
    BY <1>3, <1>5, <1>6, <1>7, <1>8 DEF Lifecycle!Advance
  <2> QED BY <2>1 DEF Lifecycle!Report
<1>9. ASSUME e.kind = "JOB_COMPLETED" PROVE Lifecycle!Complete(j)
  <2>1. new.progress = 100
    BY <1>2, <1>3, <1>9 DEF EmittedBy
  <2>2. Lifecycle!Advance(j, "COMPLETED")
    BY <1>3, <1>5, <1>6, <1>7, <1>9 DEF Lifecycle!Advance
  <2>3. progress'[j] = 100
    BY <1>7, <2>1
  <2> QED BY <2>2, <2>3 DEF Lifecycle!Complete, progress
<1>10. ASSUME e.kind = "JOB_FAILED" PROVE Lifecycle!Fail(j)
  <2>1. Lifecycle!Advance(j, "FAILED")
    BY <1>3, <1>5, <1>6, <1>7, <1>10 DEF Lifecycle!Advance
  <2> QED BY <2>1 DEF Lifecycle!Fail
<1>11. e.kind \in {"JOB_STARTED", "JOB_PROGRESS", "JOB_COMPLETED", "JOB_FAILED"}
  BY <1>4 DEF EventKind
<1> QED BY <1>8, <1>9, <1>10, <1>11, Zenon

LEMMA NextLifecycle ==
  IInv /\ [Next]_vars => [Lifecycle!Next]_Lifecycle!lifecycleVars
<1> SUFFICES ASSUME IInv, [Next]_vars
             PROVE  [Lifecycle!Next]_Lifecycle!lifecycleVars
  OBVIOUS
<1>1. ASSUME NEW j \in Job, CreateJob(j) PROVE Lifecycle!Next
  BY <1>1, CreateQueues DEF Lifecycle!Next
<1>2. ASSUME NEW j \in Job, DeleteOwner(j) PROVE Lifecycle!Next
  BY <1>2, DeleteRemoves DEF Lifecycle!Next
<1>3. ASSUME UpdateRow PROVE Lifecycle!Next
  <2>1. Head(queue).job \in Job
    BY <1>3, UpdateMeets DEF UpdateRow
  <2>2. PICK j \in Job : j = Head(queue).job
    BY <2>1
  <2> QED BY <1>3, <2>2, UpdateAdvances DEF Lifecycle!Next
<1>4. ASSUME NEW j \in Job, RunJob(j) PROVE UNCHANGED Lifecycle!lifecycleVars
  BY <1>4, SameRows
     DEF RunJob, StartRunner, ReportProgress, CompleteJob, FailJob, IInv, TypeOK
<1>5. CASE FindRow \/ SkipEvent \/ PublishUpdate
  BY <1>5, SameRows DEF FindRow, SkipEvent, PublishUpdate
<1>6. ASSUME NEW r \in Reader, PublishFetched(r) \/ \E j \in Job : FetchJob(r, j)
      PROVE  UNCHANGED Lifecycle!lifecycleVars
  BY <1>6, SameRows DEF PublishFetched, FetchJob
<1>7. CASE Restart \/ UNCHANGED vars
  BY <1>7, SameRows DEF Restart, vars, IInv, TypeOK
<1> QED BY <1>1, <1>2, <1>3, <1>4, <1>5, <1>6, <1>7 DEF Next, ApplyEvents

LEMMA InitLifecycle == Init => Lifecycle!Init
BY BlankRows DEF Init, Stage, Lifecycle!Init

(* A job is queued once, its progress never falls, it ends at most once    *)
(* and then stays as it is, whatever runners, reads, lost updates and      *)
(* restarts do: the rows implement JobLifecycle.                           *)
THEOREM Refinement == Spec => ImplementsLifecycle
<1> USE DEF ImplementsLifecycle
<1>1. Init => Lifecycle!Init
  BY InitLifecycle
<1>2. IInv /\ [Next]_vars => [Lifecycle!Next]_Lifecycle!lifecycleVars
  BY NextLifecycle
<1> QED BY <1>1, <1>2, Invariant, PTL DEF Spec, Lifecycle!Spec

=============================================================================
