------------------------------- MODULE Panel --------------------------------
(***************************************************************************)
(* How the dashboard follows a background job: the hook                    *)
(* usePersistentJobStream of the client, the event stream of               *)
(* jobs.controller.ts, and a job of which nothing is assumed but what      *)
(* JobLifecycle promises.  The panel asks for an active job when the page  *)
(* opens; the user may start one before the answer is there.               *)
(***************************************************************************)
EXTENDS Integers, Sequences, FiniteSets, SequencesExt

CONSTANTS
  Job,              \* the jobs
  PanelScenarios    \* [before, clicks, reports, opens, drops]: jobs there are already,
                    \*   jobs that clicks may create, in this order, jobs that report
                    \*   before they end, bounds on how often the page is opened and on
                    \*   requests and connections that fail

(* The jobs there are already are jobs, and finitely many.                 *)
ASSUME PanelAssumption == \A s \in PanelScenarios : s.before \subseteq Job /\ IsFiniteSet(s.before)

Active == {"PENDING", "RUNNING"}

Final == {"COMPLETED", "FAILED"}

NoJob == "none"
NoSnap == [job |-> NoJob, status |-> NoJob]
NoSource == <<NoJob, NoJob>>
NoPage == [open |-> FALSE]
Idle == [at |-> "idle", snap |-> NoSnap]

VARIABLES
  panelScenario,
  row, percent,     \* the rows (JobLifecycle)
  created,          \* the jobs in order of createdAt
  unsent,           \* rows updated and not yet published
  page,             \* the state of the hook, or NoPage
  restore,          \* the request for an active job
  start,            \* job -> the startJob call that is to create it
  sources,          \* event sources: [id, at, inbox, late]
  stored,           \* the active snapshot in local storage, or NoSnap
  opens, drops      \* counters for the bounds

panelVars == <<panelScenario, row, percent, created, unsent, page, restore, start, sources,
               stored, opens, drops>>

Lifecycle == INSTANCE JobLifecycle WITH status <- row, progress <- percent

Snapshot(j) == [job |-> j, status |-> row[j]]

PanelInit ==
  /\ panelScenario \in PanelScenarios
  /\ row = [j \in Job |-> IF j \in panelScenario.before THEN "PENDING" ELSE "NONE"]
  /\ percent = [j \in Job |-> 0]
  /\ created = SetToSeq(panelScenario.before)
  /\ unsent = {}
  /\ page = NoPage
  /\ restore = Idle
  /\ start = [j \in Job |-> Idle]
  /\ sources = {}
  /\ stored = NoSnap
  /\ opens = 0 /\ drops = 0

-----------------------------------------------------------------------------
(* The server.                                                             *)

JobOf(s) == s.id[2]

(* Every subscriber of the job gets the snapshot.                          *)
Sent(snap) ==
  {IF JobOf(s) = snap.job /\ s.at = "open" THEN [s EXCEPT !.inbox = Append(@, snap)] ELSE s :
     s \in sources}

(* The event worker updates the row, then publishes what it has written.   *)
AdvanceJob(j) ==
  /\ j \notin unsent
  /\ \/ /\ row[j] = "PENDING" /\ j \in panelScenario.reports
        /\ percent' = percent /\ Lifecycle!Report(j)
     \/ percent' = [percent EXCEPT ![j] = 100] /\ Lifecycle!Complete(j)
     \/ percent' = percent /\ Lifecycle!Fail(j)
  /\ unsent' = unsent \cup {j}
  /\ UNCHANGED <<panelScenario, created, page, restore, start, sources, stored, opens, drops>>

Publish(j) ==
  /\ j \in unsent
  /\ unsent' = unsent \ {j}
  /\ sources' = Sent(Snapshot(j))
  /\ UNCHANGED <<panelScenario, row, percent, created, page, restore, start, stored, opens, drops>>

(* The POST arrives, even if the page that sent it is closed by now.       *)
CreateJob(j) ==
  /\ start[j].at \in {"posting", "orphan"}
  /\ percent' = percent /\ Lifecycle!Queue(j)
  /\ created' = Append(created, j)
  /\ start' = [start EXCEPT ![j].at = IF @ = "posting" THEN "created" ELSE "over"]
  /\ UNCHANGED <<panelScenario, unsent, page, restore, sources, stored, opens, drops>>

(* The stream is asked for, and the row is fetched.                        *)
FetchInitial(s) ==
  /\ s \in sources /\ s.at = "asked"
  /\ sources' = (sources \ {s}) \cup
                  {[s EXCEPT !.at = "fetched", !.inbox = <<Snapshot(JobOf(s))>>]}
  /\ UNCHANGED <<panelScenario, row, percent, created, unsent, page, restore, start, stored, opens, drops>>

Overtaken(snap) == snap.status \in Active /\ row[snap.job] \notin Active /\ snap.job \notin unsent

(* getJobForUser publishes what it fetched, and observeJob subscribes in   *)
(* the same turn of the event loop: the ReplaySubject replays that very    *)
(* snapshot.  The stream is `late` if the job's end was published between  *)
(* the fetch and this.                                                     *)
Subscribe(s) ==
  /\ s \in sources /\ s.at = "fetched"
  /\ LET snap == Head(s.inbox)
     IN sources' = (Sent(snap) \ {s}) \cup
          {[s EXCEPT !.at = "open", !.inbox = <<snap, snap>>, !.late = Overtaken(snap)]}
  /\ UNCHANGED <<panelScenario, row, percent, created, unsent, page, restore, start, stored, opens, drops>>

-----------------------------------------------------------------------------
(* The hook.  Of a page, `shown` is the job it shows, `done` is            *)
(* finishedRef, `current` eventSourceRef, `overlap` whether a second job   *)
(* was attached before the first was done with.                            *)

Ends(p, snap) == snap.status \in Final /\ ~p.done

(* applySnapshot on page p.                                                *)
Applied(p, snap) ==
  IF Ends(p, snap)
    THEN [p EXCEPT !.shown = snap, !.done = TRUE, !.running = FALSE, !.current = NoSource,
                   !.error = @ \/ snap.status = "FAILED", !.handled = @ \cup {snap.job}]
    ELSE [p EXCEPT !.shown = snap]

(* What local storage holds after it; a final snapshot counts for nothing, *)
(* whether it is cleared now or when the page opens.                       *)
Kept(snap) == IF snap.status \in Active THEN snap ELSE NoSnap

Unclosed(id) == {s \in sources : s.id # id}

(* Seeded fault: a panel that is done stays so.                            *)
StillDone(p) == [p EXCEPT !.running = TRUE, !.error = FALSE, !.current = NoSource]

(* Where reset and attachToJob begin again.                                *)
Attached(p) == [p EXCEPT !.done = FALSE, !.running = TRUE, !.error = FALSE, !.current = NoSource]

Busy == page.current # NoSource \/ \E j \in Job : start[j].at \notin {"idle", "over"}

NewSource(id) == [id |-> id, at |-> "asked", inbox |-> <<>>, late |-> FALSE]

(* The page opens: what is stored is shown, and the active job asked for.  *)
Open ==
  /\ ~page.open /\ opens < panelScenario.opens
  /\ opens' = opens + 1
  /\ page' = [open |-> TRUE, shown |-> stored, running |-> stored # NoSnap, error |-> FALSE,
              done |-> FALSE, current |-> NoSource, handled |-> {}, overlap |-> FALSE]
  /\ restore' = [Idle EXCEPT !.at = "asked"]
  /\ UNCHANGED <<panelScenario, row, percent, created, unsent, start, sources, stored, drops>>

(* The page is left or reloaded.                                           *)
Close ==
  /\ page.open
  /\ page' = NoPage
  /\ restore' = Idle
  /\ start' = [j \in Job |-> CASE start[j].at = "idle"    -> Idle
                               [] start[j].at = "posting" -> [Idle EXCEPT !.at = "orphan"]
                               [] OTHER                   -> [Idle EXCEPT !.at = "over"]]
  /\ sources' = {}
  /\ UNCHANGED <<panelScenario, row, percent, created, unsent, stored, opens, drops>>

(* The newest of the jobs that are active, if any is.                      *)
FetchActive ==
  /\ restore.at = "asked"
  /\ \/ /\ \A i \in DOMAIN created : row[created[i]] \notin Active
        /\ restore' = [at |-> "answered", snap |-> NoSnap]
     \/ \E i \in DOMAIN created :
          /\ row[created[i]] \in Active
          /\ \A k \in i + 1 .. Len(created) : row[created[k]] \notin Active
          /\ restore' = [at |-> "answered", snap |-> Snapshot(created[i])]
  /\ UNCHANGED <<panelScenario, row, percent, created, unsent, page, start, sources, stored, opens, drops>>

(* restoreActiveJob goes on with no job: unless a failed one is shown, the *)
(* panel is emptied, whatever a click has put there.                       *)
NothingToRestore ==
  /\ restore.at = "answered" /\ restore.snap = NoSnap
  /\ IF page.shown.status = "FAILED"
       THEN page' = [page EXCEPT !.running = FALSE] /\ UNCHANGED stored
       ELSE page' = [page EXCEPT !.running = FALSE, !.shown = NoSnap] /\ stored' = NoSnap
  /\ restore' = Idle
  /\ UNCHANGED <<panelScenario, row, percent, created, unsent, start, sources, opens, drops>>

(* ... or with the newest active one, which the server published as well.  *)
RestoreJob ==
  /\ restore.at = "answered" /\ restore.snap # NoSnap
  /\ LET id == <<"restore", restore.snap.job>>
     IN /\ page' = [Attached(page) EXCEPT !.shown = restore.snap, !.current = id,
                                          !.overlap = @ \/ Busy]
        /\ sources' = {s \in Sent(restore.snap) : s.id # page.current} \cup {NewSource(id)}
  /\ stored' = restore.snap
  /\ restore' = Idle
  /\ UNCHANGED <<panelScenario, row, percent, created, unsent, start, opens, drops>>

(* runAnalysis: the button works while the panel is not running.           *)
Click(j) ==
  /\ page.open /\ ~page.running /\ start[j].at = "idle"
  /\ \E i \in DOMAIN panelScenario.clicks :
       /\ panelScenario.clicks[i] = j
       /\ \A k \in 1 .. i - 1 : start[panelScenario.clicks[k]].at # "idle"
  /\ page' = [Attached(page) EXCEPT !.shown = NoSnap, !.overlap = @ \/ Busy \/ restore # Idle]
  /\ start' = [start EXCEPT ![j].at = "posting"]
  /\ sources' = Unclosed(page.current)
  /\ stored' = NoSnap
  /\ UNCHANGED <<panelScenario, row, percent, created, unsent, restore, opens, drops>>

AttachCreated(j) ==
  /\ start[j].at = "created"
  /\ page' = [Attached(page) EXCEPT !.overlap = @ \/ page.current # NoSource]
  /\ start' = [start EXCEPT ![j].at = "getting"]
  /\ sources' = Unclosed(page.current)
  /\ UNCHANGED <<panelScenario, row, percent, created, unsent, restore, stored, opens, drops>>

FetchStatus(j) ==
  /\ start[j].at = "getting"
  /\ start' = [start EXCEPT ![j] = [at |-> "got", snap |-> Snapshot(j)]]
  /\ UNCHANGED <<panelScenario, row, percent, created, unsent, page, restore, sources, stored, opens, drops>>

(* attachToJob goes on with the snapshot: the stream is opened unless the  *)
(* panel is done; but a job that is found completed is handled first, and  *)
(* onCompleted is awaited.                                                 *)
ApplyStatus(j) ==
  /\ start[j].at = "got"
  /\ LET snap  == start[j].snap
         next  == Applied(page, snap)
         id    == <<"start", j>>
         waits == Ends(page, snap) /\ snap.status = "COMPLETED"
     IN /\ start' = [start EXCEPT ![j] =
             [Idle EXCEPT !.at = IF waits THEN "completing" ELSE "over"]]
        /\ IF next.done
             THEN /\ page' = next
                  /\ sources' = {s \in Sent(snap) : Ends(page, snap) => s.id # page.current}
             ELSE /\ page' = [next EXCEPT !.current = id]
                  /\ sources' = Sent(snap) \cup {NewSource(id)}
  /\ stored' = Kept(start[j].snap)
  /\ UNCHANGED <<panelScenario, row, percent, created, unsent, restore, opens, drops>>

(* attachToJob goes on after onCompleted.  The button worked meanwhile: if *)
(* the user started the next job, finishedRef was reset, and a stream is   *)
(* opened for the job that is completed; the one in eventSourceRef is not  *)
(* closed.                                                                 *)
CompletionHandled(j) ==
  /\ start[j].at = "completing"
  /\ IF page.done THEN UNCHANGED <<page, sources>>
     ELSE /\ page' = [page EXCEPT !.current = <<"start", j>>]
          /\ sources' = sources \cup {NewSource(<<"start", j>>)}
  /\ start' = [start EXCEPT ![j] = [Idle EXCEPT !.at = "over"]]
  /\ UNCHANGED <<panelScenario, row, percent, created, unsent, restore, stored, opens, drops>>

(* An event arrives at the page.  A final one closes the current source,   *)
(* which need not be the one it came from.                                 *)
Deliver(s) ==
  /\ s \in sources /\ s.at = "open" /\ s.inbox # <<>>
  /\ LET snap == Head(s.inbox)
         rest == (sources \ {s}) \cup {[s EXCEPT !.inbox = Tail(@)]}
     IN /\ page' = Applied(page, snap)
        /\ stored' = Kept(snap)
        /\ sources' = {x \in rest : Ends(page, snap) => x.id # page.current}
  /\ UNCHANGED <<panelScenario, row, percent, created, unsent, restore, start, opens, drops>>

(* Seeded fault: the panel counts on the source to connect again.          *)
StillRunning(p) == [p EXCEPT !.error = TRUE, !.current = NoSource]

Disconnected(p) == [p EXCEPT !.running = FALSE, !.error = TRUE, !.current = NoSource]

(* onerror: the current source is closed; another one connects again.      *)
Drop(s) ==
  /\ s \in sources /\ drops < panelScenario.drops
  /\ drops' = drops + 1
  /\ LET again == (sources \ {s}) \cup {NewSource(s.id)}
     IN IF page.done THEN /\ sources' = again
                          /\ UNCHANGED page
        ELSE /\ page' = Disconnected(page)
             /\ sources' = {x \in again : x.id # page.current}
  /\ UNCHANGED <<panelScenario, row, percent, created, unsent, restore, start, stored, opens>>

(* A request fails: of restore, silently; of startJob, which awaits those  *)
(* of onCompleted too, with a message.                                     *)
FailRestore ==
  /\ restore.at \in {"asked", "answered"} /\ drops < panelScenario.drops
  /\ drops' = drops + 1
  /\ page' = [page EXCEPT !.running = FALSE]
  /\ restore' = Idle
  /\ UNCHANGED <<panelScenario, row, percent, created, unsent, start, sources, stored, opens>>

FailStart(j) ==
  /\ start[j].at \in {"posting", "created", "getting", "got", "completing"}
  /\ drops < panelScenario.drops
  /\ drops' = drops + 1
  /\ page' = Disconnected(page)
  /\ sources' = Unclosed(page.current)
  /\ start' = [start EXCEPT ![j] = [Idle EXCEPT !.at = IF start[j].at = "posting" THEN "orphan"
                                                       ELSE "over"]]
  /\ UNCHANGED <<panelScenario, row, percent, created, unsent, restore, stored, opens>>

StartStep(j) ==
  \/ CreateJob(j) \/ AttachCreated(j) \/ FetchStatus(j) \/ ApplyStatus(j)
  \/ CompletionHandled(j)
RestoreStep == FetchActive \/ NothingToRestore \/ RestoreJob
StreamStep(s) == FetchInitial(s) \/ Subscribe(s) \/ Deliver(s)
JobStep(j) == AdvanceJob(j) \/ Publish(j)

PanelNext ==
  \/ Open \/ Close \/ RestoreStep \/ FailRestore
  \/ \E j \in Job : Click(j) \/ StartStep(j) \/ FailStart(j) \/ JobStep(j)
  \/ \E s \in sources : StreamStep(s) \/ Drop(s)

Ids == {"restore", "start"} \X Job

(* A job ends (StartedJobEnds of Jobs), requests and streams make progress *)
(* or fail; nobody has to click, open or leave the page.  Each of these    *)
(* takes finitely many steps, so that one condition for all jobs, or for   *)
(* all streams, asks for as much as one for each.                          *)
PanelFairness ==
  /\ WF_panelVars(\E j \in Job : JobStep(j) \/ StartStep(j))
  /\ WF_panelVars(RestoreStep)
  /\ WF_panelVars(\E s \in sources : StreamStep(s))

PanelSpec == PanelInit /\ [][PanelNext]_panelVars /\ PanelFairness

-----------------------------------------------------------------------------
(* A page that is running is not done, and a source is of its own.         *)
PanelTypeOK ==
  /\ \A s \in sources : page.open /\ s.id \in Ids /\ s.at \in {"asked", "fetched", "open"}
  /\ \A s, t \in sources : s.id = t.id => s = t
  /\ page.open => ~(page.running /\ page.done)
  /\ stored.status \in Active \cup {NoJob}
  /\ ToSet(created) = {j \in Job : row[j] # "NONE"}

Lost == \E s \in sources : s.late

(* A panel does not say for ever that it is running: the job's end, a lost *)
(* connection or a failed request reaches it, also if it was opened from   *)
(* what local storage held, or if a click overtook the restored job; and   *)
(* while it follows one job at a time, that job's outcome is handled or a  *)
(* message shown, unless the page is left before.  The exception is a      *)
(* stream whose own first read was overtaken by the job's last event       *)
(* (streamJobEvents): nothing is sent to it any more.                      *)
PanelEnds ==
  /\ (page.open /\ page.running) ~> (~page.open \/ ~page.running \/ Lost)
  /\ \A j \in Job :
       (page.open /\ page.current[2] = j)
         ~> (~page.open \/ j \in page.handled \/ page.error \/ page.overlap \/ Lost)

=============================================================================
