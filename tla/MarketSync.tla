----------------------------- MODULE MarketSync -----------------------------
(***************************************************************************)
(* The synchronisation of market snapshots (apps/api/src/market/           *)
(* market-sync.service.ts): one at the start of the process, one every     *)
(* night, forced ones of an administrator for all countries or for one.    *)
(* Nothing keeps them from overlapping.  Snapshots survive a restart; the  *)
(* run history is in memory; the last outcome of each country, which only   *)
(* a page reads, is left out.                                              *)
(***************************************************************************)
EXTENDS Integers, Sequences, FiniteSets, SequencesExt

CONSTANTS
  SyncScenarios,    \* [calls, countries, days, restarts]: the calls there may be,
                    \*   TARGET_COUNTRY_CODES, bounds on midnights and restarts
  OtherCodes,       \* codes without an adapter that an administrator may name
  MaxLateErrors     \* bound on statements that commit and yet fail

Trigger == {"startup", "scheduled", "manual", "single"}

(* There are countries to ask for, and the codes without an adapter are    *)
(* others.                                                                 *)
ASSUME MarketAssumption ==
  /\ OtherCodes \subseteq STRING
  /\ \A z \in SyncScenarios : /\ z.calls \subseteq Trigger
                              /\ z.countries \in Seq(STRING) \ {<<>>}
                              /\ OtherCodes \cap ToSet(z.countries) = {}
                              /\ z.days \in Nat /\ z.restarts \in Nat

MaxSyncAttempts == 3                  \* MAX_SYNC_RETRIES + 1
MaxRunHistory == 2                \* MAX_RUN_HISTORY, 30 in the code
NotYet == [at |-> "idle"]
Over == [at |-> "over"]

VARIABLES
  marketScenario,
  day,
  snapshots,        \* MarketSnapshot rows with source 'api', in order of insertion
  syncing,          \* where each call stands
  runHistory,       \* the newest runs first: who asked, and the status
  restarts, lateErrors  \* counters for the bounds

marketVars ==
  <<marketScenario, day, snapshots, syncing, runHistory, restarts, lateErrors>>

SyncCountries == marketScenario.countries
Adapted == ToSet(SyncCountries)

Forced(s) == s \in {"manual", "single"}

MarketInit ==
  /\ marketScenario \in SyncScenarios
  /\ day = 0
  /\ snapshots = <<>>
  /\ syncing = [s \in marketScenario.calls |-> NotYet]
  /\ runHistory = <<>>
  /\ restarts = 0
  /\ lateErrors = 0

(* onApplicationBootstrap, the cron job, a MARKET_SYNC job or one of the   *)
(* two endpoints, of which one is for a single country.  Bound: each once  *)
(* in a process and a day.                                                 *)
BeginSync(s) ==
  /\ syncing[s] = NotYet
  /\ \E codes \in IF s = "single" THEN {<<c>> : c \in Adapted \cup OtherCodes}
                                   ELSE {SyncCountries} :
       syncing' = [syncing EXCEPT ![s] = [at |-> "check", left |-> codes, attempt |-> 1,
                                          today |-> 0, known |-> 0, failed |-> 0]]
  /\ UNCHANGED <<marketScenario, day, snapshots, runHistory, restarts, lateErrors>>

CountryOf(s) == Head(syncing[s].left)

Step(s, at) == syncing[s].at = at

(* syncCountry ends with a status; the call goes on with the next country. *)
End(s, status) ==
  syncing' = [syncing EXCEPT ![s] =
    IF s = "single" THEN Over
    ELSE [at |-> IF Len(@.left) = 1 THEN "remember" ELSE "check", left |-> Tail(@.left),
          attempt |-> 1, today |-> 0, known |-> 0,
          failed |-> @.failed + (IF status = "error" THEN 1 ELSE 0)]]

(* Seeded fault: only the first attempt looks for a snapshot of today.     *)
FoundAtFirst(s) ==
  /\ syncing[s].attempt = 1
  /\ \E i \in DOMAIN snapshots : snapshots[i].country = CountryOf(s) /\ snapshots[i].day = day

Found(s) ==
  \E i \in DOMAIN snapshots : snapshots[i].country = CountryOf(s) /\ snapshots[i].day = day

(* The findFirst of an attempt, and the early returns around it.           *)
CheckToday(s) ==
  /\ Step(s, "check")
  /\ CASE CountryOf(s) \notin Adapted -> End(s, "error")
       [] CountryOf(s) \in Adapted /\ Found(s) /\ ~Forced(s) -> End(s, "skipped")
       [] OTHER -> syncing' = [syncing EXCEPT ![s].at = "fetch", ![s].today = day,
                                              ![s].known = Len(snapshots)]
  /\ UNCHANGED <<marketScenario, day, snapshots, runHistory, restarts, lateErrors>>

(* The findFirst throws: nothing catches it, and the whole call is over,   *)
(* neither remembered nor retried.                                         *)
CheckThrows(s) ==
  /\ Step(s, "check") /\ CountryOf(s) \in Adapted
  /\ syncing' = [syncing EXCEPT ![s] = Over]
  /\ UNCHANGED <<marketScenario, day, snapshots, runHistory, restarts, lateErrors>>

(* The adapter answers; AdzunaAdapter turns its own failures into an empty *)
(* answer, so that it does not throw for a country it knows.  An answer    *)
(* that is empty, too low or of unknown skills is skipped.                 *)
FetchMarketData(s) ==
  /\ Step(s, "fetch")
  /\ \/ syncing' = [syncing EXCEPT ![s].at = "store"]
     \/ End(s, "skipped")
  /\ UNCHANGED <<marketScenario, day, snapshots, runHistory, restarts, lateErrors>>

(* A forced snapshot is of the day it is stored, the others of the day of  *)
(* the check.                                                              *)
Stored(s) ==
  Append(snapshots, [country |-> CountryOf(s), by |-> s, known |-> syncing[s].known,
                     day |-> IF Forced(s) THEN day ELSE syncing[s].today])

CreateSnapshot(s) ==
  /\ Step(s, "store")
  /\ snapshots' = Stored(s)
  /\ End(s, "synced")
  /\ UNCHANGED <<marketScenario, day, runHistory, restarts, lateErrors>>

(* Seeded fault: the count of attempts is not carried on.                  *)
SameAttempt(s) == syncing[s].attempt

NextAttempt(s) == syncing[s].attempt + 1

(* The statement fails, before the commit or only in its answer.  Every    *)
(* error of the database is retried.                                       *)
CreateThrows(s) ==
  /\ Step(s, "store")
  /\ \/ UNCHANGED <<snapshots, lateErrors>>
     \/ /\ lateErrors < MaxLateErrors
        /\ lateErrors' = lateErrors + 1
        /\ snapshots' = Stored(s)
  /\ IF syncing[s].attempt < MaxSyncAttempts
       THEN syncing' = [syncing EXCEPT ![s] = [@ EXCEPT !.at = "check", !.today = 0, !.known = 0,
                                                        !.attempt = NextAttempt(s)]]
       ELSE End(s, "error")
  /\ UNCHANGED <<marketScenario, day, runHistory, restarts>>

RunStatus(failed) ==
  IF failed = Len(SyncCountries) THEN "failed" ELSE IF failed > 0 THEN "partial" ELSE "success"

RememberRun(s) ==
  /\ Step(s, "remember")
  /\ LET runs == <<[by |-> s, status |-> RunStatus(syncing[s].failed)]>> \o runHistory
     IN runHistory' = SubSeq(runs, 1, IF Len(runs) > MaxRunHistory THEN MaxRunHistory ELSE Len(runs))
  /\ syncing' = [syncing EXCEPT ![s] = Over]
  /\ UNCHANGED <<marketScenario, day, snapshots, restarts, lateErrors>>

Midnight ==
  /\ day < marketScenario.days
  /\ day' = day + 1
  /\ syncing' = [s \in DOMAIN syncing |-> IF syncing[s] = Over /\ s # "startup" THEN NotYet ELSE syncing[s]]
  /\ UNCHANGED <<marketScenario, snapshots, runHistory, restarts, lateErrors>>

RestartApi ==
  /\ restarts < marketScenario.restarts
  /\ restarts' = restarts + 1
  /\ syncing' = [s \in DOMAIN syncing |-> NotYet]
  /\ runHistory' = <<>>
  /\ UNCHANGED <<marketScenario, day, snapshots, lateErrors>>

CarryOn(s) ==
  \/ CheckToday(s) \/ CheckThrows(s) \/ FetchMarketData(s)
  \/ CreateSnapshot(s) \/ CreateThrows(s) \/ RememberRun(s)

MarketNext == Midnight \/ RestartApi \/ \E s \in DOMAIN syncing : BeginSync(s) \/ CarryOn(s)

(* What a call awaits settles: a statement returns or fails, a request has *)
(* HTTP_TIMEOUT_MS, a delay ends.  A call takes finitely many steps, so    *)
(* that one condition for all asks for as much as one for each.            *)
MarketFairness == WF_marketVars(\E s \in DOMAIN syncing : CarryOn(s))

MarketSpec == MarketInit /\ [][MarketNext]_marketVars /\ MarketFairness

-----------------------------------------------------------------------------
(* Attempts are counted and every snapshot has its country and day.        *)
MarketTypeOK ==
  /\ \A i \in DOMAIN snapshots : /\ snapshots[i].country \in Adapted
                                 /\ snapshots[i].day \in 0 .. day
                                 /\ snapshots[i].known < i
  /\ \A s \in DOMAIN syncing : syncing[s] \notin {NotYet, Over} =>
       /\ syncing[s].attempt \in 1 .. MaxSyncAttempts
       /\ syncing[s].failed + Len(syncing[s].left) <= Len(SyncCountries)
  /\ Len(runHistory) <= MaxRunHistory

(* A country has two unforced snapshots of one day only if the later sync  *)
(* looked for one before the earlier stored it, and never two of the same  *)
(* kind: neither a retry after an error that came too late, nor a restart, *)
(* nor midnight repeats the work of the day (syncCountryOnce).             *)
SnapshotsRepeatOnlyInOverlap ==
  \A i, j \in DOMAIN snapshots :
    (/\ i < j /\ snapshots[i].country = snapshots[j].country
     /\ snapshots[i].day = snapshots[j].day /\ ~Forced(snapshots[j].by))
      => /\ snapshots[j].known < i
         /\ snapshots[i].by # snapshots[j].by

UnderWay(s) == s \in DOMAIN syncing /\ syncing[s] \notin {NotYet, Over}

(* The syncs that have begun come to an end, whatever fails and however    *)
(* they overlap: each is retried a bounded number of times and an error in *)
(* one country does not keep it from the next (syncAll, syncCountry).  The *)
(* calls of a scenario are finitely many, so none is left under way.       *)
SyncsEnd ==
  (\E s \in Trigger : UnderWay(s)) ~> (\A s \in Trigger : ~UnderWay(s))

=============================================================================
