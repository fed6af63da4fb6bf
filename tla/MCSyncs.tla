------------------------------- MODULE MCSyncs ------------------------------
(* A behaviour works on the market syncs, on the limit of how many an      *)
(* administrator asks for, on the jobs that share the event queue, or on   *)
(* the panel that follows a job, which share no state: `topic` says on     *)
(* which, and the others stay as they begin.                               *)
EXTENDS MarketSync, SyncAdmission, Panel

CONSTANT Topics
VARIABLES topic, jobRow, runner, emitted, queue, worker, stream, reads

(* A market sync, suspended after each of its reports, and a report.       *)
J == INSTANCE Jobs WITH
  row <- jobRow, Reader <- {}, Countries <- 1, Faults <- {"delete"},
  TypeOf <- [j \in Job |-> IF j = "j1" THEN "MARKET_SYNC" ELSE "REPORT_GENERATION"]

jobVars == <<jobRow, runner, emitted, queue, worker, stream, reads>>
vars == <<topic, marketVars, admissionVars, panelVars, jobVars>>

First(S) == CHOOSE x \in S : TRUE

Init ==
  /\ topic \in Topics
  /\ MarketInit /\ AdmissionInit /\ PanelInit /\ J!Init
  /\ topic # "market" => marketScenario = First(SyncScenarios)
  /\ topic # "panel" => panelScenario = First({s \in PanelScenarios : s.before = {}})

Next ==
  \/ topic = "market" /\ MarketNext /\ UNCHANGED <<topic, admissionVars, panelVars, jobVars>>
  \/ topic = "admission" /\ AdmissionNext /\ UNCHANGED <<topic, marketVars, panelVars, jobVars>>
  \/ topic = "panel" /\ PanelNext /\ UNCHANGED <<topic, marketVars, admissionVars, jobVars>>
  \/ topic = "jobs" /\ J!Next /\ UNCHANGED <<topic, marketVars, admissionVars, panelVars>>

(* The fairness of each part; where it is not the topic, nothing of it is  *)
(* enabled, or it is asked for nothing.                                    *)
Spec ==
  /\ Init /\ [][Next]_vars /\ MarketFairness /\ PanelFairness
  /\ \A j \in Job : WF_jobVars(topic = "jobs" /\ J!RunJob(j))
  /\ WF_jobVars(topic = "jobs" /\ J!ApplyEvents)

(* Each part keeps its types.                                              *)
TypeOK == MarketTypeOK /\ AdmissionTypeOK /\ PanelTypeOK

(* A job whose runner was started ends in its row, unless its owner is     *)
(* deleted: one failing runner does not hold up the queue of the others    *)
(* (enqueueEvent of JobsService).                                          *)
StartedJobEnds == J!StartedJobEnds

-----------------------------------------------------------------------------
MCSyncScenarios ==
  {[calls |-> {"startup", "scheduled"}, countries |-> <<"DE">>, days |-> 1, restarts |-> 1],
   [calls |-> {"scheduled", "single"}, countries |-> <<"DE">>, days |-> 1, restarts |-> 0],
   [calls |-> {"startup", "scheduled"}, countries |-> <<"DE", "NL">>, days |-> 0, restarts |-> 0],
   [calls |-> {"manual", "single"}, countries |-> <<"DE", "NL">>, days |-> 0, restarts |-> 0]}

(* In the last, the second job may be clicked while onCompleted of the     *)
(* first is awaited; without reports, which keeps it small.                *)
MCPanelScenarios ==
  {[before |-> {}, clicks |-> <<"j1">>, reports |-> Job, opens |-> 2, drops |-> 1],
   [before |-> {"j1"}, clicks |-> <<"j2">>, reports |-> {"j1"}, opens |-> 1, drops |-> 0],
   [before |-> {}, clicks |-> <<"j1", "j2">>, reports |-> {}, opens |-> 1, drops |-> 0]}

=============================================================================
