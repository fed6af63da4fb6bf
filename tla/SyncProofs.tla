----------------------------- MODULE SyncProofs ------------------------------
(***************************************************************************)
(* Proofs about market syncs.  Of MarketSync: for any countries, any calls *)
(* that overlap, any number of days and restarts, and any number of        *)
(* statements that commit and yet fail.  Of SyncAdmission: the hourly      *)
(* limit is passed by no more than the requests that overlap, for any      *)
(* limit, window and number of requests.  Of Panel: for any jobs, clicks,  *)
(* and failures.  Then, of these side by side, as in MCSyncs.              *)
(***************************************************************************)
EXTENDS MCSyncs, FiniteSetTheorems, SequenceTheorems, TLAPS

-----------------------------------------------------------------------------
(* The inductive invariant                                                 *)

SyncCall ==
  [at : {"check", "fetch", "store", "remember"}, left : Seq(STRING),
   attempt : 1 .. MaxSyncAttempts, today : Nat, known : Nat, failed : Nat]

RowsOf(z) == [country : ToSet(z.countries), by : Trigger, known : Nat, day : Nat]

Typed ==
  /\ marketScenario \in SyncScenarios
  /\ day \in Nat /\ restarts \in Nat /\ lateErrors \in Nat
  /\ snapshots \in Seq(RowsOf(marketScenario))
  /\ syncing = [s \in marketScenario.calls |-> syncing[s]]
  /\ runHistory \in Seq([by : Trigger, status : {"failed", "partial", "success"}])
  /\ Len(runHistory) <= MaxRunHistory

(* A call has countries left until it is remembered, and no more of them   *)
(* have failed than are done.                                              *)
Fits(c, z) ==
  /\ c \in SyncCall
  /\ c.failed + Len(c.left) <= Len(z.countries)
  /\ c.at # "remember" => c.left # <<>>

(* Between its check and the insert, a call s of a day knows all snapshots *)
(* it has stored itself; unless it is forced, none of those it knows is of *)
(* the country and the day it is about to store.                           *)
Looked(s, c, rows, d, z) ==
  c.at \in {"fetch", "store"} =>
    /\ Head(c.left) \in ToSet(z.countries)
    /\ c.known <= Len(rows) /\ c.today <= d
    /\ \A i \in 1 .. Len(rows) : rows[i].by = s => i <= c.known
    /\ ~Forced(s) => \A i \in 1 .. Len(rows) :
         i <= c.known /\ rows[i].country = Head(c.left) => rows[i].day # c.today

Sound(s, c, rows, d, z) ==
  c \in {NotYet, Over} \/ (Fits(c, z) /\ Looked(s, c, rows, d, z))

Calls ==
  \A s \in marketScenario.calls : Sound(s, syncing[s], snapshots, day, marketScenario)

(* A snapshot is of its day or of one before, and its call knew only some  *)
(* of those before it.                                                     *)
Dated ==
  \A i \in 1 .. Len(snapshots) : snapshots[i].day <= day /\ snapshots[i].known < i

IInv ==
  /\ Typed
  /\ Calls
  /\ Dated
  /\ SnapshotsRepeatOnlyInOverlap

-----------------------------------------------------------------------------
(* Calls and rows                                                          *)

(* The codes of a scenario.                                                *)
LEMMA Codes ==
  ASSUME NEW z \in SyncScenarios
  PROVE  /\ z.calls \subseteq Trigger
         /\ z.countries \in Seq(STRING) /\ z.countries # <<>>
         /\ Len(z.countries) \in Nat /\ Len(z.countries) >= 1
         /\ ToSet(z.countries) \subseteq STRING
<1>1. /\ z.calls \subseteq Trigger
      /\ z.countries \in Seq(STRING) /\ z.countries # <<>>
  BY MarketAssumption
<1>2. Len(z.countries) \in Nat /\ Len(z.countries) >= 1
  BY <1>1
<1>3. ToSet(z.countries) \subseteq STRING
  BY <1>1 DEF ToSet
<1> QED
  BY <1>1, <1>2, <1>3

(* What a call has found out does not spoil with time.                     *)
LEMMA SoundLater ==
  ASSUME NEW s, NEW c, NEW rows, NEW z, NEW d \in Nat, NEW e \in Nat, d <= e,
         Sound(s, c, rows, d, z)
  PROVE  Sound(s, c, rows, e, z)
<1>1. CASE c \in {NotYet, Over}
  BY <1>1 DEF Sound
<1>2. CASE Fits(c, z) /\ Looked(s, c, rows, d, z)
  <2>1. c.today \in Nat
    BY <1>2 DEF Fits, SyncCall
  <2>2. Looked(s, c, rows, e, z)
    BY <1>2, <2>1 DEF Looked
  <2> QED
    BY <1>2, <2>2 DEF Sound
<1> QED
  BY <1>1, <1>2 DEF Sound

(* Appending gives a sequence with the rows it had and a new one.          *)
LEMMA AppendedRow ==
  ASSUME NEW S, NEW rows \in Seq(S), NEW r \in S
  PROVE  /\ Append(rows, r) \in Seq(S)
         /\ Len(rows) \in Nat
         /\ Len(Append(rows, r)) = Len(rows) + 1
         /\ \A i \in 1 .. Len(rows) : Append(rows, r)[i] = rows[i] /\ rows[i] \in S
         /\ Append(rows, r)[Len(rows) + 1] = r
  OBVIOUS

(* Nor does it spoil when another call stores a snapshot, even one of the  *)
(* same country and day: that one is not known.                            *)
LEMMA SoundBesides ==
  ASSUME NEW s, NEW c, NEW z \in SyncScenarios, NEW d \in Nat,
         NEW rows \in Seq(RowsOf(z)), NEW r \in RowsOf(z), r.by # s,
         Sound(s, c, rows, d, z)
  PROVE  Sound(s, c, Append(rows, r), d, z)
<1> DEFINE n == Len(rows)
<1>1. CASE c \in {NotYet, Over}
  BY <1>1 DEF Sound
<1>2. CASE Fits(c, z) /\ Looked(s, c, rows, d, z)
  <2>1. c.known \in Nat
    BY <1>2 DEF Fits, SyncCall
  <2>2. /\ n \in Nat /\ Len(Append(rows, r)) = n + 1
        /\ \A i \in 1 .. n : Append(rows, r)[i] = rows[i]
        /\ Append(rows, r)[n + 1] = r
    BY AppendedRow
  <2>3. ASSUME c.at \in {"fetch", "store"}
        PROVE  /\ Head(c.left) \in ToSet(z.countries)
               /\ c.known <= n /\ c.today <= d
               /\ \A i \in 1 .. n : rows[i].by = s => i <= c.known
               /\ ~Forced(s) => \A i \in 1 .. n :
                    i <= c.known /\ rows[i].country = Head(c.left) => rows[i].day # c.today
    BY <1>2, <2>3 DEF Looked
  <2>4. ASSUME c.at \in {"fetch", "store"}, NEW i \in 1 .. n + 1, Append(rows, r)[i].by = s
        PROVE  i <= c.known
    BY <2>2, <2>3, <2>4
  <2>5. ASSUME c.at \in {"fetch", "store"}, ~Forced(s), NEW i \in 1 .. n + 1,
               i <= c.known, Append(rows, r)[i].country = Head(c.left)
        PROVE  Append(rows, r)[i].day # c.today
    <3>1. i \in 1 .. n
      BY <2>1, <2>2, <2>3, <2>5
    <3>2. Append(rows, r)[i] = rows[i]
      BY <2>2, <3>1
    <3> HIDE DEF n
    <3> QED
      BY <2>3, <2>5, <3>1, <3>2
  <2>6. Looked(s, c, Append(rows, r), d, z)
    <3> HIDE DEF n
    <3> QED
      BY <2>1, <2>2, <2>3, <2>4, <2>5 DEF Looked
  <2> QED
    BY <1>2, <2>6 DEF Sound
<1> QED
  BY <1>1, <1>2 DEF Sound

(* The country a call has done leaves it with one less.                    *)
LEMMA Shorter ==
  ASSUME NEW S, NEW q \in Seq(S), q # <<>>
  PROVE  /\ Head(q) \in S /\ Tail(q) \in Seq(S)
         /\ Len(q) \in Nat /\ Len(q) >= 1
         /\ Len(Tail(q)) = Len(q) - 1
         /\ Len(q) # 1 => Tail(q) # <<>>
<1>1. Len(q) \in Nat /\ Len(q) >= 1
  OBVIOUS
<1>2. Head(q) \in S /\ Tail(q) \in Seq(S) /\ Len(Tail(q)) = Len(q) - 1
  OBVIOUS
<1>3. Len(<<>>) = 0
  OBVIOUS
<1>4. ASSUME Tail(q) = <<>>
      PROVE  Len(q) = 1
  <2>1. Len(Tail(q)) = Len(<<>>)
    BY <1>4, Zenon
  <2>2. Len(Tail(q)) = 0
    BY <1>3, <2>1, Zenon
  <2>3. Len(q) - 1 = 0
    BY <1>2, <2>2, Zenon
  <2>4. \A n \in Nat : n - 1 = 0 => n = 1
    OBVIOUS
  <2> QED
    BY <1>1, <2>3, <2>4, Zenon
<1>5. Len(q) # 1 => Tail(q) # <<>>
  BY <1>4, Zenon
<1> QED
  BY <1>1, <1>2, <1>5, Zenon

(* Where a call stands after the country it is at.                         *)
Ended(s, c, status) ==
  IF s = "single" THEN Over
  ELSE [at |-> IF Len(c.left) = 1 THEN "remember" ELSE "check", left |-> Tail(c.left),
        attempt |-> 1, today |-> 0, known |-> 0,
        failed |-> c.failed + (IF status = "error" THEN 1 ELSE 0)]

(* A call that has ended a country is sound, whatever became of it.        *)
LEMMA EndedIsSound ==
  ASSUME NEW s, NEW c, NEW status, NEW rows, NEW d, NEW z \in SyncScenarios,
         Fits(c, z), c.at # "remember"
  PROVE  Sound(s, Ended(s, c, status), rows, d, z)
<1>1. CASE s = "single"
  BY <1>1 DEF Ended, Sound
<1>2. CASE s # "single"
  <2> DEFINE e == Ended(s, c, status)
  <2>1. c \in SyncCall /\ c.left # <<>> /\ c.failed + Len(c.left) <= Len(z.countries)
    BY DEF Fits
  <2>2. c.left \in Seq(STRING) /\ c.failed \in Nat
    BY <2>1 DEF SyncCall
  <2>3. /\ Tail(c.left) \in Seq(STRING)
        /\ Len(c.left) \in Nat /\ Len(c.left) >= 1
        /\ Len(Tail(c.left)) = Len(c.left) - 1
        /\ Len(c.left) # 1 => Tail(c.left) # <<>>
    BY <2>1, <2>2, Shorter
  <2>4. /\ e.at = (IF Len(c.left) = 1 THEN "remember" ELSE "check")
        /\ e.left = Tail(c.left)
        /\ e.failed = c.failed + (IF status = "error" THEN 1 ELSE 0)
    BY <1>2 DEF Ended
  <2>5. e \in SyncCall
    BY <1>2, <2>2, <2>3 DEF Ended, SyncCall, MaxSyncAttempts
  <2>6. e.failed + Len(e.left) <= Len(z.countries)
    <3>1. e.failed <= c.failed + 1 /\ e.failed \in Nat
      BY <2>2, <2>4
    <3>2. Len(z.countries) \in Nat
      BY Codes
    <3> QED
      BY <2>1, <2>2, <2>3, <2>4, <3>1, <3>2
  <2>7. e.at # "remember" => e.left # <<>>
    BY <2>3, <2>4
  <2>8. Fits(e, z)
    BY <2>5, <2>6, <2>7 DEF Fits
  <2>9. Looked(s, e, rows, d, z)
    BY <2>4 DEF Looked
  <2> QED
    BY <2>8, <2>9 DEF Sound
<1> QED
  BY <1>1, <1>2

(* The effect of End on the calls.                                         *)
LEMMA Ending ==
  ASSUME Typed, NEW s \in marketScenario.calls, NEW status, End(s, status)
  PROVE  /\ syncing' = [t \in marketScenario.calls |-> syncing'[t]]
         /\ syncing'[s] = Ended(s, syncing[s], status)
         /\ \A t \in marketScenario.calls \ {s} : syncing'[t] = syncing[t]
<1>1. syncing = [t \in marketScenario.calls |-> syncing[t]]
  BY DEF Typed
<1>2. syncing' = [syncing EXCEPT ![s] = Ended(s, syncing[s], status)]
  BY DEF End, Ended
<1> QED
  BY <1>1, <1>2

-----------------------------------------------------------------------------
(* The steps                                                               *)

(* Where a call stands, said of what it holds.                             *)
LEMMA Standing ==
  ASSUME IInv, NEW s \in marketScenario.calls, NEW at \in {"check", "fetch", "store", "remember"},
         Step(s, at)
  PROVE  /\ s \in Trigger /\ marketScenario \in SyncScenarios
         /\ syncing[s].at = at
         /\ Fits(syncing[s], marketScenario)
         /\ Looked(s, syncing[s], snapshots, day, marketScenario)
         /\ syncing[s] \in SyncCall
<1>1. syncing[s].at = at
  BY DEF Step
<1>2. syncing[s] \notin {NotYet, Over}
  BY <1>1 DEF NotYet, Over
<1>3. Sound(s, syncing[s], snapshots, day, marketScenario)
  BY DEF IInv, Calls
<1>4. marketScenario \in SyncScenarios
  BY DEF IInv, Typed
<1>5. s \in Trigger
  BY <1>4, Codes
<1> QED
  BY <1>1, <1>2, <1>3, <1>4, <1>5 DEF Sound, Fits

(* A step that only moves one call preserves the invariant if it leaves    *)
(* that call sound.                                                        *)
LEMMA OneCall ==
  ASSUME IInv, NEW s \in marketScenario.calls,
         marketScenario' = marketScenario, day' = day, snapshots' = snapshots,
         restarts' = restarts, lateErrors' \in Nat,
         runHistory' \in Seq([by : Trigger, status : {"failed", "partial", "success"}]),
         Len(runHistory') <= MaxRunHistory,
         syncing' = [t \in marketScenario.calls |-> syncing'[t]],
         \A t \in marketScenario.calls \ {s} : syncing'[t] = syncing[t],
         Sound(s, syncing'[s], snapshots, day, marketScenario)
  PROVE  IInv'
<1>1. Typed'
  BY DEF IInv, Typed
<1>2. Calls'
  <2>1. ASSUME NEW t \in marketScenario.calls
        PROVE  Sound(t, syncing'[t], snapshots, day, marketScenario)
    BY <2>1 DEF IInv, Calls
  <2> QED
    BY <2>1 DEF Calls
<1>3. Dated'
  BY DEF IInv, Dated
<1>4. SnapshotsRepeatOnlyInOverlap'
  BY DEF IInv, SnapshotsRepeatOnlyInOverlap
<1> QED
  BY <1>1, <1>2, <1>3, <1>4 DEF IInv

(* A step that changes one call and nothing else.                          *)
LEMMA Moved ==
  ASSUME IInv, NEW s \in marketScenario.calls, NEW c,
         syncing' = [syncing EXCEPT ![s] = c],
         UNCHANGED <<marketScenario, day, snapshots, runHistory, restarts, lateErrors>>,
         Sound(s, c, snapshots, day, marketScenario)
  PROVE  IInv'
<1>1. syncing = [t \in marketScenario.calls |-> syncing[t]]
  BY DEF IInv, Typed
<1>2. /\ syncing' = [t \in marketScenario.calls |-> syncing'[t]]
      /\ syncing'[s] = c
      /\ \A t \in marketScenario.calls \ {s} : syncing'[t] = syncing[t]
  BY <1>1
<1>3. /\ lateErrors' \in Nat
      /\ runHistory' \in Seq([by : Trigger, status : {"failed", "partial", "success"}])
      /\ Len(runHistory') <= MaxRunHistory
  BY DEF IInv, Typed
<1> QED
  BY <1>2, <1>3, OneCall

(* A step that ends a country and stores nothing.                          *)
LEMMA EndsCountry ==
  ASSUME IInv, NEW s \in marketScenario.calls, NEW status, End(s, status),
         Fits(syncing[s], marketScenario), syncing[s].at # "remember",
         UNCHANGED <<marketScenario, day, snapshots, runHistory, restarts, lateErrors>>
  PROVE  IInv'
<1>1. Typed /\ marketScenario \in SyncScenarios
  BY DEF IInv, Typed
<1>2. Sound(s, Ended(s, syncing[s], status), snapshots, day, marketScenario)
  BY <1>1, EndedIsSound
<1>3. syncing' = [syncing EXCEPT ![s] = Ended(s, syncing[s], status)]
  BY DEF End, Ended
<1> QED
  BY <1>2, <1>3, Moved

(* A call that is sound besides the snapshot it stores leaves the          *)
(* invariant as it is: what it stores repeats only what it did not know.   *)
LEMMA Storing ==
  ASSUME IInv, NEW s \in marketScenario.calls, Step(s, "store"),
         marketScenario' = marketScenario, day' = day, restarts' = restarts,
         runHistory' = runHistory, lateErrors' \in Nat,
         snapshots' = Stored(s),
         syncing' = [t \in marketScenario.calls |-> syncing'[t]],
         \A t \in marketScenario.calls \ {s} : syncing'[t] = syncing[t],
         syncing'[s] = Over
           \/ (Fits(syncing'[s], marketScenario) /\ syncing'[s].at \in {"check", "remember"})
  PROVE  IInv'
<1> DEFINE z == marketScenario
           c == syncing[s]
           n == Len(snapshots)
           d == IF Forced(s) THEN day ELSE c.today
           r == [country |-> Head(c.left), by |-> s, known |-> c.known, day |-> d]
<1>1. /\ s \in Trigger /\ z \in SyncScenarios /\ c \in SyncCall /\ c.at = "store"
      /\ Looked(s, c, snapshots, day, z)
  BY Standing
<1>2. /\ Head(c.left) \in ToSet(z.countries)
      /\ c.known <= n /\ c.today <= day
      /\ \A i \in 1 .. n : snapshots[i].by = s => i <= c.known
      /\ ~Forced(s) => \A i \in 1 .. n :
           i <= c.known /\ snapshots[i].country = Head(c.left) => snapshots[i].day # c.today
  BY <1>1 DEF Looked
<1>3. day \in Nat /\ c.today \in Nat /\ c.known \in Nat /\ d \in Nat /\ d <= day
  BY <1>1, <1>2 DEF IInv, Typed, SyncCall
<1>4. r \in RowsOf(z)
  BY <1>1, <1>2, <1>3 DEF RowsOf
<1>5. snapshots \in Seq(RowsOf(z))
  BY DEF IInv, Typed
<1>6. snapshots' = Append(snapshots, r)
  BY DEF Stored, CountryOf
<1>7. /\ snapshots' \in Seq(RowsOf(z)) /\ n \in Nat /\ Len(snapshots') = n + 1
      /\ \A i \in 1 .. n : snapshots'[i] = snapshots[i]
      /\ snapshots'[n + 1] = r
  BY <1>4, <1>5, <1>6, AppendedRow
<1>8. r.country = Head(c.left) /\ r.by = s /\ r.known = c.known /\ r.day = d
  OBVIOUS
<1> HIDE DEF n, r, d
<1>9. Typed'
  BY <1>7 DEF IInv, Typed
<1>10. Calls'
  <2>1. ASSUME NEW t \in z.calls, t # s
        PROVE  Sound(t, syncing'[t], snapshots', day, z)
    <3>1. Sound(t, syncing[t], snapshots, day, z)
      BY <2>1 DEF IInv, Calls
    <3>2. Sound(t, syncing[t], Append(snapshots, r), day, z)
      BY <1>1, <1>3, <1>4, <1>5, <1>8, <2>1, <3>1, SoundBesides
    <3> QED
      BY <1>6, <2>1, <3>2
  <2>2. Sound(s, syncing'[s], snapshots', day, z)
    BY DEF Sound, Looked
  <2>3. \A t \in z.calls : Sound(t, syncing'[t], snapshots', day, z)
    BY <2>1, <2>2
  <2> QED
    BY <2>3 DEF Calls
<1>11. Dated'
  <2>1. ASSUME NEW i \in 1 .. n + 1
        PROVE  snapshots'[i].day <= day /\ snapshots'[i].known < i
    <3>1. CASE i \in 1 .. n
      BY <1>7, <3>1 DEF IInv, Dated, n
    <3>2. CASE i = n + 1
      BY <1>2, <1>3, <1>7, <1>8, <3>2
    <3> QED
      BY <1>7, <3>1, <3>2
  <2> QED
    BY <1>7, <2>1 DEF Dated
<1>12. SnapshotsRepeatOnlyInOverlap'
  <2>1. DOMAIN snapshots' = 1 .. n + 1 /\ DOMAIN snapshots = 1 .. n
    BY <1>5, <1>7 DEF n
  <2>2. ASSUME NEW i \in 1 .. n + 1, NEW j \in 1 .. n + 1, i < j,
               snapshots'[i].country = snapshots'[j].country,
               snapshots'[i].day = snapshots'[j].day, ~Forced(snapshots'[j].by)
        PROVE  snapshots'[j].known < i /\ snapshots'[i].by # snapshots'[j].by
    <3>1. i \in 1 .. n /\ snapshots'[i] = snapshots[i]
      BY <1>7, <2>2
    <3>2. CASE j \in 1 .. n
      <4>1. snapshots'[j] = snapshots[j]
        BY <1>7, <3>2
      <4>2. i \in DOMAIN snapshots /\ j \in DOMAIN snapshots
        BY <2>1, <3>1, <3>2
      <4> QED
        BY <2>2, <3>1, <4>1, <4>2 DEF IInv, SnapshotsRepeatOnlyInOverlap
    <3>3. CASE j = n + 1
      <4>1. /\ snapshots[i].country = Head(c.left) /\ ~Forced(s)
            /\ snapshots[i].day = c.today
        BY <1>7, <1>8, <2>2, <3>1, <3>3 DEF d
      <4>2. ~(i <= c.known)
        BY <1>2, <3>1, <4>1
      <4>3. snapshots[i].by # s
        BY <1>2, <3>1, <4>2
      <4>4. c.known < i
        BY <1>3, <4>2, <3>1
      <4> QED
        BY <1>7, <1>8, <3>1, <3>3, <4>3, <4>4
    <3> QED
      BY <1>7, <3>2, <3>3
  <2> QED
    BY <2>1, <2>2 DEF SnapshotsRepeatOnlyInOverlap
<1> QED
  BY <1>9, <1>10, <1>11, <1>12 DEF IInv

-----------------------------------------------------------------------------

(* A call begins with a country or with all of them.                       *)
LEMMA BeginSyncKeeps ==
  ASSUME IInv, NEW s \in marketScenario.calls, BeginSync(s)
  PROVE  IInv'
<1> DEFINE z == marketScenario
<1>1. z \in SyncScenarios
  BY DEF IInv, Typed
<1>2. PICK codes \in IF s = "single" THEN {<<c>> : c \in Adapted \cup OtherCodes}
                                     ELSE {SyncCountries} :
        syncing' = [syncing EXCEPT ![s] = [at |-> "check", left |-> codes, attempt |-> 1,
                                           today |-> 0, known |-> 0, failed |-> 0]]
  BY DEF BeginSync
<1> DEFINE c == [at |-> "check", left |-> codes, attempt |-> 1,
                 today |-> 0, known |-> 0, failed |-> 0]
<1>3. codes \in Seq(STRING) /\ codes # <<>> /\ Len(codes) <= Len(z.countries)
  <2>1. CASE s = "single"
    <3>1. PICK k \in Adapted \cup OtherCodes : codes = <<k>>
      BY <1>2, <2>1
    <3>2. k \in STRING
      BY <1>1, <3>1, Codes, MarketAssumption DEF Adapted, SyncCountries
    <3> QED
      BY <1>1, <3>1, <3>2, Codes
  <2>2. CASE s # "single"
    BY <1>1, <1>2, <2>2, Codes DEF SyncCountries
  <2> QED
    BY <2>1, <2>2
<1>4. c \in SyncCall
  BY <1>3 DEF SyncCall, MaxSyncAttempts
<1>5. c.failed = 0 /\ c.left = codes /\ c.at = "check"
  OBVIOUS
<1>6. Len(codes) \in Nat
  BY <1>3
<1> HIDE DEF c
<1>7. Sound(s, c, snapshots, day, z)
  BY <1>3, <1>4, <1>5, <1>6 DEF Sound, Fits, Looked
<1>8. syncing' = [syncing EXCEPT ![s] = c]
  BY <1>2 DEF c
<1> QED
  BY <1>7, <1>8, Moved DEF BeginSync

(* A call that goes on has looked for a snapshot of the day.               *)
LEMMA CheckTodayKeeps ==
  ASSUME IInv, NEW s \in marketScenario.calls, CheckToday(s)
  PROVE  IInv'
<1> DEFINE z == marketScenario
           c == syncing[s]
<1> USE DEF CheckToday
<1>1. /\ s \in Trigger /\ z \in SyncScenarios /\ c.at = "check" /\ c \in SyncCall
      /\ Fits(c, z)
  BY Standing
<1>2. CASE End(s, "error") \/ End(s, "skipped")
  BY <1>1, <1>2, EndsCountry
<1>3. CASE /\ CountryOf(s) \in Adapted /\ (Found(s) => Forced(s))
           /\ syncing' = [syncing EXCEPT ![s].at = "fetch", ![s].today = day,
                                         ![s].known = Len(snapshots)]
  <2> DEFINE e == [c EXCEPT !.at = "fetch", !.today = day, !.known = Len(snapshots)]
  <2>1. day \in Nat /\ snapshots \in Seq(RowsOf(z)) /\ Len(snapshots) \in Nat
    BY DEF IInv, Typed
  <2>2. e \in SyncCall
    BY <1>1, <2>1 DEF SyncCall
  <2>3. /\ e.at = "fetch" /\ e.today = day /\ e.known = Len(snapshots)
        /\ e.left = c.left /\ e.failed = c.failed
    BY <1>1 DEF SyncCall
  <2>4. syncing' = [syncing EXCEPT ![s] = e]
    <3>1. syncing = [t \in z.calls |-> syncing[t]]
      BY DEF IInv, Typed
    <3> QED
      BY <1>3, <3>1
  <2> HIDE DEF e
  <2>5. Fits(e, z)
    BY <1>1, <2>2, <2>3 DEF Fits
  <2>6. DOMAIN snapshots = 1 .. Len(snapshots)
    BY <2>1
  <2>7. ~Forced(s) => \A i \in 1 .. Len(snapshots) :
          snapshots[i].country = Head(c.left) => snapshots[i].day # day
    BY <1>3, <2>6 DEF Found, CountryOf
  <2>8. Looked(s, e, snapshots, day, z)
    BY <1>3, <2>1, <2>3, <2>7 DEF Looked, CountryOf, Adapted, SyncCountries
  <2>9. Sound(s, e, snapshots, day, z)
    BY <2>5, <2>8 DEF Sound
  <2> QED
    BY <2>4, <2>9, Moved
<1> QED
  BY <1>2, <1>3

(* A call that throws is over.                                             *)
LEMMA CheckThrowsKeeps ==
  ASSUME IInv, NEW s \in marketScenario.calls, CheckThrows(s)
  PROVE  IInv'
<1>1. Sound(s, Over, snapshots, day, marketScenario)
  BY DEF Sound
<1> QED
  BY <1>1, Moved DEF CheckThrows

(* An answer changes nothing of what the call has found out.               *)
LEMMA FetchMarketDataKeeps ==
  ASSUME IInv, NEW s \in marketScenario.calls, FetchMarketData(s)
  PROVE  IInv'
<1> DEFINE z == marketScenario
           c == syncing[s]
<1> USE DEF FetchMarketData
<1>1. /\ z \in SyncScenarios /\ c.at = "fetch" /\ c \in SyncCall
      /\ Fits(c, z) /\ Looked(s, c, snapshots, day, z)
  BY Standing
<1>2. CASE syncing' = [syncing EXCEPT ![s].at = "store"]
  <2> DEFINE e == [c EXCEPT !.at = "store"]
  <2>1. e \in SyncCall
    BY <1>1 DEF SyncCall
  <2>2. /\ e.at = "store" /\ e.today = c.today /\ e.known = c.known
        /\ e.left = c.left /\ e.failed = c.failed
    BY <1>1 DEF SyncCall
  <2>3. syncing' = [syncing EXCEPT ![s] = e]
    <3>1. syncing = [t \in z.calls |-> syncing[t]]
      BY DEF IInv, Typed
    <3> QED
      BY <1>2, <3>1
  <2> HIDE DEF e
  <2>4. Fits(e, z) /\ Looked(s, e, snapshots, day, z)
    BY <1>1, <2>1, <2>2 DEF Fits, Looked
  <2>5. Sound(s, e, snapshots, day, z)
    BY <2>4 DEF Sound
  <2> QED
    BY <2>3, <2>5, Moved
<1>3. CASE End(s, "skipped")
  BY <1>1, <1>3, EndsCountry
<1> QED
  BY <1>2, <1>3

(* The snapshot is stored, and the country is done.                        *)
LEMMA CreateSnapshotKeeps ==
  ASSUME IInv, NEW s \in marketScenario.calls, CreateSnapshot(s)
  PROVE  IInv'
<1> DEFINE z == marketScenario
<1>1. /\ z \in SyncScenarios /\ syncing[s].at = "store" /\ Fits(syncing[s], z)
  BY Standing DEF CreateSnapshot
<1>2. Typed
  BY DEF IInv
<1>3. /\ syncing' = [t \in z.calls |-> syncing'[t]]
      /\ syncing'[s] = Ended(s, syncing[s], "synced")
      /\ \A t \in z.calls \ {s} : syncing'[t] = syncing[t]
  BY <1>2, Ending DEF CreateSnapshot
<1>4. Sound(s, syncing'[s], snapshots, day, z)
  BY <1>1, <1>3, EndedIsSound
<1>5. syncing'[s] = Over
        \/ (Fits(syncing'[s], z) /\ syncing'[s].at \in {"check", "remember"})
  BY <1>3, <1>4 DEF Sound, Ended, NotYet, Over
<1>6. lateErrors' \in Nat
  BY DEF CreateSnapshot, IInv, Typed
<1> QED
  BY <1>3, <1>5, <1>6, Storing DEF CreateSnapshot

(* The insert fails, perhaps after it has committed; the next attempt, if  *)
(* there is one, looks again.                                              *)
LEMMA CreateThrowsKeeps ==
  ASSUME IInv, NEW s \in marketScenario.calls, CreateThrows(s)
  PROVE  IInv'
<1> DEFINE z == marketScenario
           c == syncing[s]
<1> USE DEF CreateThrows
<1>1. /\ z \in SyncScenarios /\ c.at = "store" /\ Fits(c, z) /\ c \in SyncCall
  BY Standing
<1>2. /\ syncing' = [t \in z.calls |-> syncing'[t]]
      /\ \A t \in z.calls \ {s} : syncing'[t] = syncing[t]
      /\ Sound(s, syncing'[s], snapshots, day, z)
      /\ syncing'[s] = Over
           \/ (Fits(syncing'[s], z) /\ syncing'[s].at \in {"check", "remember"})
  <2>1. CASE c.attempt < MaxSyncAttempts
    <3> DEFINE e == [c EXCEPT !.at = "check", !.today = 0, !.known = 0,
                              !.attempt = NextAttempt(s)]
    <3>1. NextAttempt(s) \in 1 .. MaxSyncAttempts
      BY <1>1, <2>1 DEF NextAttempt, SyncCall, MaxSyncAttempts
    <3>2. e \in SyncCall
      BY <1>1, <3>1 DEF SyncCall
    <3>3. e.at = "check" /\ e.left = c.left /\ e.failed = c.failed
      BY <1>1 DEF SyncCall
    <3>4. syncing' = [syncing EXCEPT ![s] = e]
      BY <2>1
    <3> HIDE DEF e
    <3>5. Fits(e, z) /\ Looked(s, e, snapshots, day, z)
      BY <1>1, <3>2, <3>3 DEF Fits, Looked
    <3>6. syncing = [t \in z.calls |-> syncing[t]]
      BY DEF IInv, Typed
    <3>7. /\ syncing' = [t \in z.calls |-> syncing'[t]] /\ syncing'[s] = e
          /\ \A t \in z.calls \ {s} : syncing'[t] = syncing[t]
      BY <3>4, <3>6
    <3> QED
      BY <3>3, <3>5, <3>7 DEF Sound
  <2>2. CASE ~(c.attempt < MaxSyncAttempts)
    <3>1. End(s, "error") /\ Typed
      BY <2>2 DEF IInv
    <3>2. /\ syncing' = [t \in z.calls |-> syncing'[t]]
          /\ syncing'[s] = Ended(s, c, "error")
          /\ \A t \in z.calls \ {s} : syncing'[t] = syncing[t]
      BY <3>1, Ending
    <3>3. Sound(s, syncing'[s], snapshots, day, z)
      BY <1>1, <3>2, EndedIsSound
    <3> QED
      BY <3>2, <3>3 DEF Sound, Ended, NotYet, Over
  <2> QED
    BY <2>1, <2>2
<1>3. CASE UNCHANGED <<snapshots, lateErrors>>
  <2>1. /\ lateErrors' \in Nat
        /\ runHistory' \in Seq([by : Trigger, status : {"failed", "partial", "success"}])
        /\ Len(runHistory') <= MaxRunHistory
    BY <1>3 DEF IInv, Typed
  <2> QED
    BY <1>2, <1>3, <2>1, OneCall
<1>4. CASE lateErrors' = lateErrors + 1 /\ snapshots' = Stored(s)
  <2>1. lateErrors' \in Nat
    BY <1>4 DEF IInv, Typed
  <2> QED
    BY <1>2, <1>4, <2>1, Storing
<1> QED
  BY <1>3, <1>4

(* The history keeps the newest runs.                                      *)
LEMMA RememberRunKeeps ==
  ASSUME IInv, NEW s \in marketScenario.calls, RememberRun(s)
  PROVE  IInv'
<1> DEFINE Run == [by : Trigger, status : {"failed", "partial", "success"}]
           new == [by |-> s, status |-> RunStatus(syncing[s].failed)]
           runs == <<new>> \o runHistory
           n == IF Len(runs) > MaxRunHistory THEN MaxRunHistory ELSE Len(runs)
<1>1. s \in Trigger
  BY Standing DEF RememberRun
<1>2. new \in Run
  BY <1>1 DEF RunStatus
<1>3. runHistory \in Seq(Run)
  BY DEF IInv, Typed
<1> HIDE DEF new
<1>4. runs \in Seq(Run) /\ Len(runs) \in Nat
  BY <1>2, <1>3
<1>5. runHistory' = SubSeq(runs, 1, n)
  BY DEF RememberRun, new
<1>6. n \in 0 .. Len(runs) /\ n <= MaxRunHistory
  BY <1>4 DEF MaxRunHistory
<1> HIDE DEF n, runs
<1> HIDE DEF Run
<1>7. runHistory' \in Seq(Run) /\ Len(runHistory') = n
  BY <1>4, <1>5, <1>6, SubSeqProperties
<1>8. Len(runHistory') <= MaxRunHistory
  BY <1>6, <1>7
<1>9. Sound(s, Over, snapshots, day, marketScenario)
  BY DEF Sound
<1>10. syncing = [t \in marketScenario.calls |-> syncing[t]]
  BY DEF IInv, Typed
<1>11. /\ syncing' = [t \in marketScenario.calls |-> syncing'[t]] /\ syncing'[s] = Over
       /\ \A t \in marketScenario.calls \ {s} : syncing'[t] = syncing[t]
  BY <1>10 DEF RememberRun
<1>12. /\ lateErrors' \in Nat /\ marketScenario' = marketScenario /\ day' = day
       /\ snapshots' = snapshots /\ restarts' = restarts
  BY DEF IInv, Typed, RememberRun
<1> QED
  BY <1>7, <1>8, <1>9, <1>11, <1>12, OneCall DEF Run

(* After midnight every call may be made again but the one of the start.   *)
LEMMA MidnightKeeps ==
  ASSUME IInv, Midnight
  PROVE  IInv'
<1> USE DEF Midnight
<1>1. day \in Nat /\ day' = day + 1
  BY DEF IInv, Typed
<1>2. DOMAIN syncing = marketScenario.calls
  BY DEF IInv, Typed
<1>3. syncing' = [s \in marketScenario.calls |->
        IF syncing[s] = Over /\ s # "startup" THEN NotYet ELSE syncing[s]]
  BY <1>2
<1>4. Typed'
  BY <1>1, <1>3 DEF IInv, Typed
<1>5. Calls'
  <2>1. ASSUME NEW s \in marketScenario.calls
        PROVE  Sound(s, syncing'[s], snapshots, day + 1, marketScenario)
    <3>1. CASE syncing[s] = Over /\ s # "startup"
      BY <1>3, <3>1 DEF Sound
    <3>2. CASE ~(syncing[s] = Over /\ s # "startup")
      <4>1. syncing'[s] = syncing[s]
        BY <1>3, <3>2
      <4>2. Sound(s, syncing[s], snapshots, day, marketScenario)
        BY DEF IInv, Calls
      <4>3. day + 1 \in Nat /\ day <= day + 1
        BY <1>1
      <4> QED
        BY <1>1, <4>1, <4>2, <4>3, SoundLater
    <3> QED
      BY <3>1, <3>2
  <2> QED
    BY <1>1, <2>1 DEF Calls
<1>6. Dated'
  <2>1. ASSUME NEW i \in 1 .. Len(snapshots)
        PROVE  snapshots[i].day <= day + 1 /\ snapshots[i].known < i
    <3>1. snapshots[i].day <= day /\ snapshots[i].known < i
      BY DEF IInv, Dated
    <3>2. snapshots[i] \in RowsOf(marketScenario)
      BY DEF IInv, Typed
    <3>3. snapshots[i].day \in Nat
      BY <3>2 DEF RowsOf
    <3> QED
      BY <1>1, <3>1, <3>3
  <2> QED
    BY <1>1, <2>1 DEF Dated
<1>7. SnapshotsRepeatOnlyInOverlap'
  BY DEF IInv, SnapshotsRepeatOnlyInOverlap
<1> QED
  BY <1>4, <1>5, <1>6, <1>7 DEF IInv

(* A restart forgets the calls and the history, and keeps the rows.        *)
LEMMA RestartApiKeeps ==
  ASSUME IInv, RestartApi
  PROVE  IInv'
<1> USE DEF RestartApi
<1>1. DOMAIN syncing = marketScenario.calls
  BY DEF IInv, Typed
<1>2. syncing' = [s \in marketScenario.calls |-> NotYet]
  BY <1>1
<1>3. Typed'
  BY <1>2 DEF IInv, Typed, MaxRunHistory
<1>4. Calls'
  BY <1>2 DEF Calls, Sound
<1>5. Dated'
  BY DEF IInv, Dated
<1>6. SnapshotsRepeatOnlyInOverlap'
  BY DEF IInv, SnapshotsRepeatOnlyInOverlap
<1> QED
  BY <1>3, <1>4, <1>5, <1>6 DEF IInv

-----------------------------------------------------------------------------
(* The invariant holds at first.                                           *)
LEMMA InitHolds ==
  ASSUME MarketInit
  PROVE  IInv
<1> USE DEF MarketInit
<1>1. Typed
  BY DEF Typed, MaxRunHistory
<1>2. Calls
  BY DEF Calls, Sound
<1>3. Dated
  BY DEF Dated
<1>4. SnapshotsRepeatOnlyInOverlap
  BY DEF SnapshotsRepeatOnlyInOverlap
<1> QED
  BY <1>1, <1>2, <1>3, <1>4 DEF IInv

(* Every step preserves it.                                                *)
LEMMA NextKeeps ==
  ASSUME IInv, [MarketNext]_marketVars
  PROVE  IInv'
<1>1. CASE Midnight
  BY <1>1, MidnightKeeps
<1>2. CASE RestartApi
  BY <1>2, RestartApiKeeps
<1>3. ASSUME NEW s \in DOMAIN syncing, BeginSync(s) \/ CarryOn(s)
      PROVE  IInv'
  <2>1. s \in marketScenario.calls
    BY <1>3 DEF IInv, Typed
  <2>2. CASE BeginSync(s)
    BY <2>1, <2>2, BeginSyncKeeps
  <2>3. CASE CheckToday(s)
    BY <2>1, <2>3, CheckTodayKeeps
  <2>4. CASE CheckThrows(s)
    BY <2>1, <2>4, CheckThrowsKeeps
  <2>5. CASE FetchMarketData(s)
    BY <2>1, <2>5, FetchMarketDataKeeps
  <2>6. CASE CreateSnapshot(s)
    BY <2>1, <2>6, CreateSnapshotKeeps
  <2>7. CASE CreateThrows(s)
    BY <2>1, <2>7, CreateThrowsKeeps
  <2>8. CASE RememberRun(s)
    BY <2>1, <2>8, RememberRunKeeps
  <2> QED
    BY <1>3, <2>2, <2>3, <2>4, <2>5, <2>6, <2>7, <2>8 DEF CarryOn
<1>4. CASE UNCHANGED marketVars
  <2>1. Typed'
    BY <1>4 DEF IInv, Typed, marketVars
  <2>2. Calls'
    BY <1>4 DEF IInv, Calls, marketVars
  <2>3. Dated'
    BY <1>4 DEF IInv, Dated, marketVars
  <2>4. SnapshotsRepeatOnlyInOverlap'
    BY <1>4 DEF IInv, SnapshotsRepeatOnlyInOverlap, marketVars
  <2> QED
    BY <2>1, <2>2, <2>3, <2>4 DEF IInv
<1> QED
  BY <1>1, <1>2, <1>3, <1>4 DEF MarketNext

(* IInv is an invariant: whatever a call has found out before it stores a  *)
(* snapshot is still so when it does, for every snapshot it knew           *)
(* (syncCountryOnce).                                                      *)
THEOREM Invariant == MarketSpec => []IInv
<1>1. MarketInit => IInv
  BY InitHolds
<1>2. IInv /\ [MarketNext]_marketVars => IInv'
  BY NextKeeps
<1> QED
  BY <1>1, <1>2, PTL DEF MarketSpec

(* Snapshots, attempts and the run history keep their types and bounds.    *)
THEOREM TypeCorrect == MarketSpec => []MarketTypeOK
<1>1. IInv => MarketTypeOK
  <2> SUFFICES ASSUME IInv PROVE MarketTypeOK
    OBVIOUS
  <2> DEFINE z == marketScenario
  <2>1. snapshots \in Seq(RowsOf(z)) /\ day \in Nat /\ DOMAIN syncing = z.calls
    BY DEF IInv, Typed
  <2>2. ASSUME NEW i \in DOMAIN snapshots
        PROVE  /\ snapshots[i].country \in Adapted
               /\ snapshots[i].day \in 0 .. day
               /\ snapshots[i].known < i
    <3>1. i \in 1 .. Len(snapshots) /\ snapshots[i] \in RowsOf(z)
      BY <2>1
    <3>2. snapshots[i].day <= day /\ snapshots[i].known < i
      BY <3>1 DEF IInv, Dated
    <3> QED
      BY <2>1, <3>1, <3>2 DEF RowsOf, Adapted, SyncCountries
  <2>3. ASSUME NEW s \in DOMAIN syncing, syncing[s] \notin {NotYet, Over}
        PROVE  /\ syncing[s].attempt \in 1 .. MaxSyncAttempts
               /\ syncing[s].failed + Len(syncing[s].left) <= Len(SyncCountries)
    <3>1. Fits(syncing[s], z)
      BY <2>1, <2>3 DEF IInv, Calls, Sound
    <3> QED
      BY <3>1 DEF Fits, SyncCall, SyncCountries
  <2>4. Len(runHistory) <= MaxRunHistory
    BY DEF IInv, Typed
  <2> QED
    BY <2>2, <2>3, <2>4 DEF MarketTypeOK
<1> QED
  BY <1>1, Invariant, PTL

(* A country gets two snapshots of one day only from two kinds of sync     *)
(* that overlap, or from an administrator who forces one (syncCountryOnce  *)
(* of market-sync.service.ts).                                             *)
THEOREM RepeatsOnlyInOverlap == MarketSpec => []SnapshotsRepeatOnlyInOverlap
<1>1. IInv => SnapshotsRepeatOnlyInOverlap
  BY DEF IInv
<1> QED
  BY <1>1, Invariant, PTL

-----------------------------------------------------------------------------
(* The hourly limit                                                        *)


Most == SyncLimit + Cardinality(SyncRequest) - 1

(* Of an hour that is not over yet, the requests still to insert count as  *)
(* rows; it is this that a step preserves.                                 *)
RoomIsLeft ==
  \A t \in 0 .. time :
    /\ Cardinality(AskedFrom(t)) <= Most
    /\ time <= t + Hour => Cardinality(AskedFrom(t)) + Cardinality(admitted) <= Most

JobRows == Seq([at : Nat, how : {"asked", "retried"}])

AdmissionInv == AdmissionTypeOK /\ syncJobs \in JobRows /\ RoomIsLeft

-----------------------------------------------------------------------------
(* What a window holds is finite, and so are the requests.                 *)
LEMMA FiniteWindow ==
  ASSUME syncJobs \in JobRows, NEW t
  PROVE  IsFiniteSet(AskedFrom(t)) /\ Cardinality(AskedFrom(t)) \in Nat
  <1>1. DOMAIN syncJobs = 1 .. Len(syncJobs) /\ Len(syncJobs) \in Nat
    BY LenProperties DEF JobRows
  <1>2. IsFiniteSet(DOMAIN syncJobs)
    BY <1>1, FS_Interval
  <1>3. AskedFrom(t) \in SUBSET DOMAIN syncJobs
    BY DEF AskedFrom
  <1> QED BY <1>2, <1>3, FS_Subset, FS_CardinalityType

(* Any set of requests in flight is finite and bounded.                     *)
LEMMA Requests ==
  ASSUME NEW A \in SUBSET SyncRequest
  PROVE  /\ IsFiniteSet(A) /\ Cardinality(A) \in Nat
         /\ Cardinality(SyncRequest) \in Nat
         /\ Cardinality(A) <= Cardinality(SyncRequest)
  BY AdmissionAssumption, FS_Subset, FS_CardinalityType

(* One element more counts for one at most.                                *)
LEMMA OneMore ==
  ASSUME NEW A, IsFiniteSet(A), NEW x
  PROVE  Cardinality(A \cup {x}) \in Nat /\ Cardinality(A \cup {x}) <= Cardinality(A) + 1
  <1>1. Cardinality(A) \in Nat
    BY FS_CardinalityType
  <1>2. Cardinality(A \cup {x}) = IF x \in A THEN Cardinality(A) ELSE Cardinality(A) + 1
    BY FS_AddElement
  <1> QED BY <1>1, <1>2

(* At first nothing is counted and nothing in flight.                      *)
LEMMA AdmissionInitInv == AdmissionInit => AdmissionInv
  <1> SUFFICES ASSUME AdmissionInit PROVE AdmissionInv
    OBVIOUS
  <1>1. AdmissionTypeOK /\ syncJobs \in JobRows
    BY AdmissionAssumption DEF AdmissionInit, AdmissionTypeOK, JobRows
  <1>2. \A t : AskedFrom(t) = {}
    BY DEF AdmissionInit, AskedFrom
  <1>3. Cardinality({}) = 0 /\ Cardinality(SyncRequest) \in Nat
    BY FS_EmptySet, Requests
  <1>4. Cardinality(admitted) = 0 /\ Most \in Nat
    BY <1>3, AdmissionAssumption DEF AdmissionInit, Most
  <1>5. \A t : Cardinality(AskedFrom(t)) = 0
    BY <1>2, <1>3
  <1>6. RoomIsLeft
    BY <1>4, <1>5 DEF RoomIsLeft
  <1> QED BY <1>1, <1>6 DEF AdmissionInv

(* A request that was let in found fewer rows than the limit, and so room  *)
(* for itself beside all others in flight.                                 *)
LEMMA CountKeeps ==
  ASSUME AdmissionInv, NEW r \in SyncRequest, CountSyncs(r)
  PROVE  AdmissionInv'
  <1>1. /\ time \in Nat /\ time' = time /\ syncJobs' = syncJobs /\ syncJobs \in JobRows
        /\ admitted \subseteq SyncRequest /\ admitted' = admitted \cup {r}
    BY DEF AdmissionInv, CountSyncs, AdmissionTypeOK
  <1>2. AdmissionTypeOK' /\ (syncJobs \in JobRows)'
    BY <1>1 DEF AdmissionInv, AdmissionTypeOK
  <1>3. \A t : AskedFrom(t)' = AskedFrom(t)
    BY <1>1 DEF AskedFrom
  <1>4. Cardinality(admitted') \in Nat /\ Cardinality(SyncRequest) \in Nat
          /\ Cardinality(admitted') <= Cardinality(SyncRequest)
    BY <1>1, Requests
  <1>5. Cardinality(LastHour) \in Nat /\ IsFiniteSet(LastHour)
          /\ Cardinality(LastHour) <= SyncLimit - 1
    <2>1. DOMAIN syncJobs = 1 .. Len(syncJobs) /\ Len(syncJobs) \in Nat
      BY <1>1, LenProperties DEF JobRows
    <2>2. LastHour \in SUBSET DOMAIN syncJobs /\ IsFiniteSet(DOMAIN syncJobs)
      BY <2>1, FS_Interval DEF LastHour
    <2>3. Cardinality(LastHour) \in Nat /\ IsFiniteSet(LastHour)
      BY <2>2, FS_Subset, FS_CardinalityType
    <2> QED BY <2>3, AdmissionAssumption DEF CountSyncs, Admits
  <1>6. ASSUME NEW t \in 0 .. time, time <= t + Hour
        PROVE  Cardinality(AskedFrom(t)) <= SyncLimit - 1
    <2>1. AskedFrom(t) \in SUBSET LastHour
      <3> SUFFICES ASSUME NEW i \in AskedFrom(t) PROVE i \in LastHour
        OBVIOUS
      <3>1. i \in DOMAIN syncJobs /\ syncJobs[i].at \in t .. t + Hour
        BY DEF AskedFrom
      <3>2. syncJobs[i].at >= time - Hour
        BY <3>1, <1>1, <1>6, AdmissionAssumption
      <3> QED BY <3>1, <3>2 DEF LastHour
    <2>2. Cardinality(AskedFrom(t)) <= Cardinality(LastHour) /\ Cardinality(AskedFrom(t)) \in Nat
      BY <2>1, <1>5, <1>1, FS_Subset, FiniteWindow
    <2> QED BY <2>2, <1>5, AdmissionAssumption
  <1>7. RoomIsLeft'
    <2> SUFFICES ASSUME NEW t \in 0 .. time
                 PROVE  /\ Cardinality(AskedFrom(t)) <= Most
                        /\ time <= t + Hour =>
                             Cardinality(AskedFrom(t)) + Cardinality(admitted') <= Most
      BY <1>1, <1>3 DEF RoomIsLeft, Most
    <2>1. Cardinality(AskedFrom(t)) <= Most
      BY DEF AdmissionInv, RoomIsLeft
    <2>2. ASSUME time <= t + Hour
          PROVE  Cardinality(AskedFrom(t)) + Cardinality(admitted') <= Most
      BY <2>2, <1>6, <1>4, <1>1, FiniteWindow, AdmissionAssumption DEF Most
    <2> QED BY <2>1, <2>2
  <1> QED BY <1>2, <1>7 DEF AdmissionInv

(* An appended row adds itself to the windows it lies in, and nothing to   *)
(* the others.                                                             *)
LEMMA AppendedJob ==
  ASSUME syncJobs \in JobRows, NEW how \in {"asked", "retried"}, time \in Nat,
         syncJobs' = Append(syncJobs, [at |-> time, how |-> how]), NEW t \in Nat
  PROVE  AskedFrom(t)' = IF how = "asked" /\ t <= time /\ time <= t + Hour
                           THEN AskedFrom(t) \cup {Len(syncJobs) + 1} ELSE AskedFrom(t)
  <1> DEFINE n == Len(syncJobs)
  <1>1. /\ n \in Nat /\ DOMAIN syncJobs = 1 .. n /\ DOMAIN syncJobs' = 1 .. n + 1
        /\ \A i \in 1 .. n : syncJobs'[i] = syncJobs[i]
        /\ syncJobs'[n + 1] = [at |-> time, how |-> how]
    BY DEF JobRows
  <1>2. (n + 1 \in AskedFrom(t)') <=> (how = "asked" /\ t <= time /\ time <= t + Hour)
    BY <1>1, AdmissionAssumption DEF AskedFrom
  <1>3. \A i \in 1 .. n : i \in AskedFrom(t)' <=> i \in AskedFrom(t)
    BY <1>1 DEF AskedFrom
  <1>4. AskedFrom(t) \subseteq 1 .. n /\ AskedFrom(t)' \subseteq 1 .. n + 1
    BY <1>1 DEF AskedFrom
  <1>5. 1 .. n + 1 = (1 .. n) \cup {n + 1}
    BY <1>1
  <1> HIDE DEF n
  <1> DEFINE old == AskedFrom(t)
             new == AskedFrom(t)'
  <1>6. /\ \A i \in 1 .. n : i \in new <=> i \in old
        /\ old \subseteq 1 .. n /\ new \subseteq (1 .. n) \cup {n + 1}
    BY <1>3, <1>4, <1>5
  <1> HIDE DEF old, new
  <1>7. n + 1 \in new => new = old \cup {n + 1}
    BY <1>6
  <1>8. n + 1 \notin new => new = old
    BY <1>6
  <1> QED BY <1>2, <1>7, <1>8 DEF n, old, new

(* A row appended now keeps the shape of the rows.                         *)
LEMMA TypeAfterAppend ==
  ASSUME AdmissionInv, NEW how \in {"asked", "retried"}, time' = time, admitted' \subseteq SyncRequest,
         syncJobs' = Append(syncJobs, [at |-> time, how |-> how])
  PROVE  AdmissionTypeOK' /\ (syncJobs \in JobRows)'
  <1>1. /\ time \in 0 .. MaxTime /\ time \in Nat /\ syncJobs \in JobRows
        /\ \A i \in DOMAIN syncJobs : syncJobs[i].at \in 0 .. time
    BY AdmissionAssumption DEF AdmissionInv, AdmissionTypeOK
  <1>2. syncJobs' \in JobRows
    BY <1>1 DEF JobRows
  <1>3. \A i \in DOMAIN syncJobs' : syncJobs'[i].at \in 0 .. time
    BY <1>1 DEF JobRows
  <1> QED BY <1>1, <1>2, <1>3 DEF AdmissionTypeOK

(* A request that inserts its row gives up its place among those in        *)
(* flight.                                                                 *)
LEMMA CreateKeeps ==
  ASSUME AdmissionInv, NEW r \in SyncRequest, CreateSync(r)
  PROVE  AdmissionInv'
  <1>1. /\ time \in Nat /\ time' = time /\ syncJobs \in JobRows /\ r \in admitted
        /\ admitted \subseteq SyncRequest /\ admitted' = admitted \ {r}
        /\ syncJobs' = Append(syncJobs, [at |-> time, how |-> "asked"])
    BY DEF AdmissionInv, CreateSync, AdmissionTypeOK
  <1>2. AdmissionTypeOK' /\ (syncJobs \in JobRows)'
    BY <1>1, TypeAfterAppend
  <1>3. /\ Cardinality(admitted) \in Nat /\ Cardinality(admitted') = Cardinality(admitted) - 1
        /\ Cardinality(SyncRequest) \in Nat /\ Cardinality(admitted') \in Nat
    BY <1>1, Requests, FS_RemoveElement
  <1>4. ASSUME NEW t \in 0 .. time
        PROVE  /\ Cardinality(AskedFrom(t)') <= Most
               /\ time <= t + Hour => Cardinality(AskedFrom(t)') + Cardinality(admitted') <= Most
    <2>1. /\ t \in Nat /\ t <= time
          /\ Cardinality(AskedFrom(t)) <= Most
          /\ time <= t + Hour => Cardinality(AskedFrom(t)) + Cardinality(admitted) <= Most
      BY <1>1 DEF AdmissionInv, RoomIsLeft
    <2>2. IsFiniteSet(AskedFrom(t)) /\ Cardinality(AskedFrom(t)) \in Nat
      BY <1>1, FiniteWindow
    <2>3. CASE time <= t + Hour
      <3>1. AskedFrom(t)' = AskedFrom(t) \cup {Len(syncJobs) + 1}
        BY <1>1, <2>1, <2>3, AppendedJob
      <3>2. Cardinality(AskedFrom(t)') <= Cardinality(AskedFrom(t)) + 1
              /\ Cardinality(AskedFrom(t)') \in Nat
        BY <3>1, <2>2, OneMore
      <3>3. Most \in Int
        BY <1>3, AdmissionAssumption DEF Most
      <3>4. Cardinality(AskedFrom(t)) + Cardinality(admitted) <= Most
        BY <2>1, <2>3
      <3>5. Cardinality(AskedFrom(t)') + Cardinality(admitted') <= Most
        BY <3>2, <3>3, <3>4, <2>2, <1>3
      <3>6. Cardinality(AskedFrom(t)') <= Most
        BY <3>2, <3>3, <3>5, <1>3
      <3> QED BY <3>5, <3>6
    <2>4. CASE ~(time <= t + Hour)
      <3>1. AskedFrom(t)' = AskedFrom(t)
        BY <1>1, <2>1, <2>4, AppendedJob
      <3> QED BY <3>1, <2>1, <2>4
    <2> QED BY <2>3, <2>4
  <1>5. RoomIsLeft'
    BY <1>1, <1>4 DEF RoomIsLeft, Most
  <1> QED BY <1>2, <1>5 DEF AdmissionInv

(* A retry is not asked for.                                               *)
LEMMA RetryKeeps ==
  ASSUME AdmissionInv, RetrySync
  PROVE  AdmissionInv'
  <1>1. /\ time \in Nat /\ time' = time /\ syncJobs \in JobRows /\ admitted' = admitted
        /\ admitted \subseteq SyncRequest
        /\ syncJobs' = Append(syncJobs, [at |-> time, how |-> "retried"])
    BY DEF AdmissionInv, RetrySync, AdmissionTypeOK
  <1>2. AdmissionTypeOK' /\ (syncJobs \in JobRows)'
    BY <1>1, TypeAfterAppend
  <1>3. \A t \in 0 .. time : AskedFrom(t)' = AskedFrom(t)
    BY <1>1, AppendedJob
  <1>4. RoomIsLeft'
    BY <1>1, <1>3 DEF AdmissionInv, RoomIsLeft, Most
  <1> QED BY <1>2, <1>4 DEF AdmissionInv

(* The hour that begins now has no rows, and the others only grow older.   *)
LEMMA TimeKeeps ==
  ASSUME AdmissionInv, PassTime
  PROVE  AdmissionInv'
  <1>1. /\ time \in Nat /\ time' = time + 1 /\ syncJobs' = syncJobs /\ syncJobs \in JobRows
        /\ admitted' = admitted /\ admitted \subseteq SyncRequest /\ time' \in 0 .. MaxTime
        /\ \A i \in DOMAIN syncJobs : syncJobs[i].at \in 0 .. time
    BY AdmissionAssumption DEF AdmissionInv, PassTime, AdmissionTypeOK
  <1>2. AdmissionTypeOK' /\ (syncJobs \in JobRows)'
    BY <1>1 DEF AdmissionTypeOK
  <1>3. \A t : AskedFrom(t)' = AskedFrom(t)
    BY <1>1 DEF AskedFrom
  <1>4. /\ Cardinality(admitted) \in Nat /\ Cardinality(SyncRequest) \in Nat
        /\ Cardinality(admitted) <= Cardinality(SyncRequest)
    BY <1>1, Requests
  <1>5. ASSUME NEW t \in 0 .. time'
        PROVE  /\ Cardinality(AskedFrom(t)) <= Most
               /\ time' <= t + Hour => Cardinality(AskedFrom(t)) + Cardinality(admitted) <= Most
    <2>1. CASE t \in 0 .. time
      BY <2>1, <1>1, AdmissionAssumption DEF AdmissionInv, RoomIsLeft
    <2>2. CASE t = time + 1
      <3>1. AskedFrom(t) = {}
        BY <2>2, <1>1, AdmissionAssumption DEF AskedFrom
      <3>2. Cardinality(AskedFrom(t)) = 0
        BY <3>1, FS_EmptySet
      <3> QED BY <3>2, <1>4, AdmissionAssumption DEF Most
    <2> QED BY <2>1, <2>2, <1>1
  <1>6. RoomIsLeft'
    BY <1>1, <1>3, <1>5 DEF RoomIsLeft, Most
  <1> QED BY <1>2, <1>6 DEF AdmissionInv

-----------------------------------------------------------------------------
(* The counts, and the requests in flight, leave room for each other in    *)
(* every reachable state (createMarketSyncJob, retryJob).                  *)
THEOREM AdmissionInvariant == AdmissionSpec => []AdmissionInv
  <1>1. AdmissionInit => AdmissionInv
    BY AdmissionInitInv
  <1>2. AdmissionInv /\ [AdmissionNext]_admissionVars => AdmissionInv'
    <2> SUFFICES ASSUME AdmissionInv, [AdmissionNext]_admissionVars PROVE AdmissionInv'
      OBVIOUS
    <2>1. CASE PassTime
      BY <2>1, TimeKeeps
    <2>2. CASE RetrySync
      BY <2>2, RetryKeeps
    <2>3. ASSUME NEW r \in SyncRequest, CountSyncs(r) PROVE AdmissionInv'
      BY <2>3, CountKeeps
    <2>4. ASSUME NEW r \in SyncRequest, CreateSync(r) PROVE AdmissionInv'
      BY <2>4, CreateKeeps
    <2>5. CASE UNCHANGED admissionVars
      BY <2>5 DEF admissionVars, AdmissionInv, AdmissionTypeOK, RoomIsLeft, AskedFrom, Most
    <2> QED BY <2>1, <2>2, <2>3, <2>4, <2>5 DEF AdmissionNext
  <1> QED BY <1>1, <1>2, PTL DEF AdmissionSpec

(* However requests overlap, and whatever is retried, no hour has more     *)
(* syncs asked for than the limit and the requests that may be in flight   *)
(* beside the last one.                                                    *)
THEOREM Overshoot == AdmissionSpec => []OvershootIsBounded
  <1>1. AdmissionInv => OvershootIsBounded
    BY DEF AdmissionInv, RoomIsLeft, OvershootIsBounded, Most
  <1> QED BY <1>1, AdmissionInvariant, PTL

-----------------------------------------------------------------------------
(* The panel that follows a job                                            *)

PageFields == {"open", "shown", "running", "error", "done", "current", "handled", "overlap"}

OpenPage(p) == p.open /\ DOMAIN p = PageFields /\ ~ (p.running /\ p.done)

(* A call that starts a job, and whose page has to be there.               *)
Attaching == {"posting", "created", "getting", "got", "completing"}

ShownStatus == Active \cup {NoJob}

(* Where sources come from: a call that is over, or a restored job.        *)
Opened(id) ==
  \/ \E j \in Job : id = <<"start", j>> /\ start[j].at = "over"
  \/ \E j \in Job : id = <<"restore", j>> /\ restore.at = "idle"

IsSource(s) == DOMAIN s = {"id", "at", "inbox", "late"} /\ s.at \in {"asked", "fetched", "open"}

(* Two sources never have one identity.                                    *)
Apart(S) == \A s, t \in S : s.id = t.id => s = t

SourcesFit ==
  /\ \A s \in sources : IsSource(s) /\ s.id \in Ids /\ Opened(s.id) /\ page.open
  /\ Apart(sources)

PageFits == page = NoPage \/ OpenPage(page)

RestoreFits ==
  /\ DOMAIN restore = {"at", "snap"} /\ restore.at \in {"idle", "asked", "answered"}
  /\ restore.at # "idle" => page.open
  /\ restore.at = "answered" => /\ restore.snap.status \in ShownStatus
                                /\ restore.snap # NoSnap => restore.snap.job \in Job

StartFits(j) ==
  /\ DOMAIN start[j] = {"at", "snap"}
  /\ start[j].at \in Attaching \cup {"idle", "orphan", "over"}
  /\ start[j].at \in Attaching => page.open

StartsFit == DOMAIN start = Job /\ \A j \in Job : StartFits(j)

RowsFit ==
  /\ DOMAIN row = Job /\ created \in Seq(Job)
  /\ ToSet(created) = {j \in Job : row[j] # "NONE"}

(* A source is of a call that is over, or of the job that was restored;    *)
(* what waits for an answer has a page, but for a POST on its own.         *)
PanelInv ==
  /\ RowsFit /\ PageFits /\ RestoreFits /\ StartsFit /\ SourcesFit
  /\ stored.status \in ShownStatus

-----------------------------------------------------------------------------
(* Lemmas about pages and sources                                          *)

(* Whatever a function of the hook sets, the page stays one.               *)
LEMMA AttachedIsOpen ==
  ASSUME NEW p, OpenPage(p), NEW snap, NEW id, NEW overlap
  PROVE  /\ OpenPage(Attached(p))
         /\ OpenPage([Attached(p) EXCEPT !.overlap = overlap])
         /\ OpenPage([Attached(p) EXCEPT !.shown = snap, !.overlap = overlap])
         /\ OpenPage([Attached(p) EXCEPT !.shown = snap, !.current = id, !.overlap = overlap])
  <1>1. OpenPage(Attached(p))
    BY DEF OpenPage, PageFields, Attached
  <1>2. PICK q : q = Attached(p)
    OBVIOUS
  <1>3. OpenPage(q)
    BY <1>1, <1>2
  <1>4. OpenPage([q EXCEPT !.overlap = overlap])
    BY <1>3 DEF OpenPage, PageFields
  <1>5. OpenPage([q EXCEPT !.shown = snap, !.overlap = overlap])
    BY <1>3 DEF OpenPage, PageFields
  <1>6. OpenPage([q EXCEPT !.shown = snap, !.current = id, !.overlap = overlap])
    BY <1>3 DEF OpenPage, PageFields
  <1>. QED  BY <1>2, <1>3, <1>4, <1>5, <1>6

LEMMA AppliedIsOpen ==
  ASSUME NEW p, OpenPage(p), NEW snap, NEW id
  PROVE  OpenPage(Applied(p, snap)) /\ OpenPage([Applied(p, snap) EXCEPT !.current = id])
  <1>1. OpenPage(Applied(p, snap))
    BY DEF OpenPage, PageFields, Applied
  <1>2. PICK q : q = Applied(p, snap)
    OBVIOUS
  <1>3. OpenPage(q)
    BY <1>1, <1>2
  <1>4. OpenPage([q EXCEPT !.current = id])
    BY <1>3 DEF OpenPage, PageFields
  <1>. QED  BY <1>2, <1>3, <1>4

LEMMA StoppedIsOpen ==
  ASSUME NEW p, OpenPage(p), NEW snap
  PROVE  /\ OpenPage([p EXCEPT !.running = FALSE])
         /\ OpenPage([p EXCEPT !.running = FALSE, !.shown = snap])
         /\ OpenPage(Disconnected(p))
  BY DEF OpenPage, PageFields, Disconnected

(* What comes of the sources, one of each.                                 *)
Derived(S) ==
  /\ \A t \in S : IsSource(t) /\ \E s \in sources : t.id = s.id
  /\ Apart(S)

LEMMA SourcesAreDerived == SourcesFit => Derived(sources)
  BY DEF SourcesFit, Derived

LEMMA SubsetIsDerived ==
  ASSUME NEW S, Derived(S), NEW T, T \subseteq S
  PROVE  Derived(T)
  BY DEF Derived, Apart

LEMMA ReplacedIsDerived ==
  ASSUME NEW S, Derived(S), NEW s \in S, NEW t, IsSource(t), t.id = s.id
  PROVE  Derived((S \ {s}) \cup {t})
  <1>1. \A x \in (S \ {s}) \cup {t} : x = t \/ (x \in S /\ x # s)
    OBVIOUS
  <1>2. \A x \in S : x # s => x.id # s.id
    BY DEF Derived, Apart
  <1>3. Apart((S \ {s}) \cup {t})
    BY <1>1, <1>2 DEF Derived, Apart
  <1>4. \A x \in (S \ {s}) \cup {t} : IsSource(x) /\ \E y \in sources : x.id = y.id
    BY <1>1 DEF Derived
  <1>. QED  BY <1>3, <1>4 DEF Derived

LEMMA SentIsDerived ==
  ASSUME SourcesFit, NEW snap
  PROVE  /\ Derived(Sent(snap))
         /\ \A s \in sources : s.at # "open" => s \in Sent(snap)
  <1>. DEFINE f(s) == IF JobOf(s) = snap.job /\ s.at = "open" THEN [s EXCEPT !.inbox = Append(@, snap)]
                      ELSE s
  <1>1. Sent(snap) = {f(s) : s \in sources}
    BY DEF Sent
  <1>2. \A s \in sources : IsSource(f(s)) /\ f(s).id = s.id
    BY DEF SourcesFit, IsSource
  <1>3. \A s \in sources : s.at # "open" => f(s) = s
    OBVIOUS
  <1>. HIDE DEF f
  <1>4. Apart(Sent(snap))
    BY <1>1, <1>2 DEF SourcesFit, Apart
  <1>5. \A t \in Sent(snap) : IsSource(t) /\ \E s \in sources : t.id = s.id
    BY <1>1, <1>2
  <1>. QED  BY <1>1, <1>3, <1>4, <1>5 DEF Derived

(* An identity stays one that may be open while no call that was over, and *)
(* no request for a job, is sent again.                                    *)
LEMMA StillOpened ==
  ASSUME \A j \in Job : start[j].at = "over" => start'[j].at = "over",
         restore.at = "idle" => restore'.at = "idle"
  PROVE  \A id : Opened(id) => Opened(id)'
  BY DEF Opened

LEMMA DerivedFits ==
  ASSUME SourcesFit, Derived(sources'), page'.open \/ sources' = {},
         \A id : Opened(id) => Opened(id)'
  PROVE  SourcesFit'
  <1>1. \A t \in sources' : IsSource(t) /\ \E s \in sources : t.id = s.id /\ s.id \in Ids /\ Opened(s.id)
    BY DEF Derived, SourcesFit
  <1>2. \A t \in sources' : IsSource(t) /\ t.id \in Ids /\ Opened(t.id)'
    BY <1>1
  <1>3. Apart(sources')
    BY DEF Derived
  <1>. QED  BY <1>2, <1>3 DEF SourcesFit, IsSource, Apart, Ids, Opened

LEMMA AddedFits ==
  ASSUME SourcesFit, NEW S, Derived(S), NEW id \in Ids, sources' = S \cup {NewSource(id)},
         Opened(id)', ~ Opened(id), page'.open, \A i : Opened(i) => Opened(i)'
  PROVE  SourcesFit'
  <1>1. \A t \in S : IsSource(t) /\ t.id \in Ids /\ Opened(t.id) /\ Opened(t.id)'
    BY DEF Derived, SourcesFit
  <1>2. IsSource(NewSource(id)) /\ NewSource(id).id = id
    BY DEF IsSource, NewSource
  <1>3. Apart(sources')
    BY <1>1, <1>2 DEF Derived, Apart
  <1>4. \A t \in sources' : IsSource(t) /\ t.id \in Ids /\ Opened(t.id)'
    BY <1>1, <1>2
  <1>. QED  BY <1>3, <1>4 DEF SourcesFit, IsSource, Apart, Ids, Opened

-----------------------------------------------------------------------------
(* Each step keeps the invariant                                           *)

(* Rows and requests that a step leaves alone.                             *)
LEMMA RowsStay == RowsFit /\ UNCHANGED <<row, created>> => RowsFit'
  BY DEF RowsFit, ToSet

LEMMA StartsStay == StartsFit /\ start' = start /\ (page.open => page'.open) => StartsFit'
  BY DEF StartsFit, StartFits

LEMMA RestoreStays == RestoreFits /\ restore' = restore /\ (page.open => page'.open) => RestoreFits'
  BY DEF RestoreFits

LEMMA RestoreIsOver == restore' = Idle => RestoreFits'
  BY DEF RestoreFits, Idle

LEMMA StartMoves ==
  ASSUME StartsFit, NEW j \in Job, NEW q, start' = [start EXCEPT ![j] = q],
         DOMAIN q = {"at", "snap"}, q.at \in Attaching \cup {"idle", "orphan", "over"},
         q.at \in Attaching => page'.open, page.open => page'.open
  PROVE  StartsFit' /\ (start[j].at # "over" \/ q.at = "over" =>
                          \A k \in Job : start[k].at = "over" => start'[k].at = "over")
  <1>1. DOMAIN start' = Job /\ start'[j] = q /\ \A k \in Job : k # j => start'[k] = start[k]
    BY DEF StartsFit
  <1>2. \A k \in Job : StartFits(k)'
    BY <1>1 DEF StartsFit, StartFits
  <1>3. StartsFit'
    BY <1>1, <1>2 DEF StartsFit
  <1>. QED  BY <1>1, <1>3

LEMMA IdleIs ==
  /\ DOMAIN Idle = {"at", "snap"} /\ Idle.at = "idle"
  /\ \A a : DOMAIN [Idle EXCEPT !.at = a] = {"at", "snap"} /\ [Idle EXCEPT !.at = a].at = a
  BY DEF Idle

(* The server.                                                             *)
LEMMA AdvanceJobKeeps ==
  ASSUME PanelInv, NEW j \in Job, AdvanceJob(j)
  PROVE  PanelInv'
  <1>1. \E s \in {"RUNNING", "COMPLETED", "FAILED"} : row' = [row EXCEPT ![j] = s] /\ row[j] \in Lifecycle!Active
    BY DEF AdvanceJob, Lifecycle!Report, Lifecycle!Complete, Lifecycle!Fail, Lifecycle!Advance
  <1>2. row[j] # "NONE" /\ row'[j] # "NONE" /\ DOMAIN row' = Job
        /\ \A k \in Job : k # j => row'[k] = row[k]
    BY <1>1 DEF Lifecycle!Active, PanelInv, RowsFit
  <1>3. created' = created /\ UNCHANGED <<page, restore, start, sources, stored>>
    BY DEF AdvanceJob
  <1>4. RowsFit'
    BY <1>2, <1>3 DEF PanelInv, RowsFit, ToSet
  <1>. QED  BY <1>3, <1>4 DEF PanelInv, PageFits, OpenPage, RestoreFits, StartsFit, StartFits,
               SourcesFit, IsSource, Opened, Apart

LEMMA PublishKeeps ==
  ASSUME PanelInv, NEW j \in Job, Publish(j)
  PROVE  PanelInv'
  <1>1. UNCHANGED <<row, created, page, restore, start, stored>> /\ sources' = Sent(Snapshot(j))
    BY DEF Publish
  <1>2. Derived(sources')
    BY <1>1, SentIsDerived DEF PanelInv
  <1>3. page'.open \/ sources' = {}
    BY <1>1, <1>2 DEF Derived, PanelInv, SourcesFit
  <1>4. SourcesFit'
    BY <1>1, <1>2, <1>3, DerivedFits, StillOpened DEF PanelInv
  <1>. QED  BY <1>1, <1>4, RowsStay, StartsStay, RestoreStays DEF PanelInv, PageFits, OpenPage

LEMMA CreateJobKeeps ==
  ASSUME PanelInv, NEW j \in Job, CreateJob(j)
  PROVE  PanelInv'
  <1>1. /\ row[j] = "NONE" /\ row' = [row EXCEPT ![j] = "PENDING"] /\ created' = Append(created, j)
        /\ UNCHANGED <<page, restore, sources, stored>>
        /\ start[j].at \in {"posting", "orphan"}
        /\ start' = [start EXCEPT ![j].at = IF @ = "posting" THEN "created" ELSE "over"]
    BY DEF CreateJob, Lifecycle!Queue
  <1>2. RowsFit'
    <2>1. created \in Seq(Job) /\ DOMAIN row = Job /\ ToSet(created) = {k \in Job : row[k] # "NONE"}
      BY DEF PanelInv, RowsFit
    <2>2. DOMAIN created' = DOMAIN created \cup {Len(created) + 1} /\ created'[Len(created) + 1] = j
          /\ created' \in Seq(Job) /\ \A i \in DOMAIN created : created'[i] = created[i]
      BY <1>1, <2>1
    <2>3. ToSet(created)' = ToSet(created) \cup {j}
      BY <2>2 DEF ToSet
    <2>4. DOMAIN row' = Job /\ row'[j] = "PENDING" /\ \A k \in Job : k # j => row'[k] = row[k]
      BY <1>1, <2>1
    <2>5. ToSet(created)' = {k \in Job : row'[k] # "NONE"}
      BY <2>1, <2>3, <2>4
    <2>. QED  BY <2>2, <2>4, <2>5 DEF RowsFit
  <1>3. PICK q : q = [start[j] EXCEPT !.at = IF @ = "posting" THEN "created" ELSE "over"]
    OBVIOUS
  <1>4. start' = [start EXCEPT ![j] = q]
    BY <1>1, <1>3
  <1>5. /\ DOMAIN q = {"at", "snap"}
        /\ q.at = "over" \/ (q.at = "created" /\ start[j].at = "posting")
    BY <1>1, <1>3 DEF PanelInv, StartsFit, StartFits
  <1>6. q.at \in Attaching \cup {"over"} /\ (q.at \in Attaching => page.open)
    BY <1>5 DEF Attaching, PanelInv, StartsFit, StartFits
  <1>7. StartsFit' /\ \A k \in Job : start[k].at = "over" => start'[k].at = "over"
    BY <1>1, <1>4, <1>5, <1>6, StartMoves DEF PanelInv
  <1>8. SourcesFit'
    BY <1>1, <1>7, StillOpened, DerivedFits, SourcesAreDerived DEF PanelInv, Derived, SourcesFit,
       IsSource, Apart
  <1>. QED  BY <1>1, <1>2, <1>7, <1>8, RestoreStays DEF PanelInv, PageFits, OpenPage

(* The streams.                                                            *)
LEMMA FetchInitialKeeps ==
  ASSUME PanelInv, NEW s \in sources, FetchInitial(s)
  PROVE  PanelInv'
  <1>. DEFINE t == [s EXCEPT !.at = "fetched", !.inbox = <<Snapshot(JobOf(s))>>]
  <1>1. UNCHANGED <<row, created, page, restore, start, stored>> /\ sources' = (sources \ {s}) \cup {t}
    BY DEF FetchInitial
  <1>2. IsSource(s) /\ page.open
    BY DEF PanelInv, SourcesFit
  <1>3. IsSource(t) /\ t.id = s.id
    BY <1>2 DEF IsSource
  <1>. HIDE DEF t
  <1>4. Derived(sources) /\ Derived((sources \ {s}) \cup {t})
    BY <1>3, SourcesAreDerived, ReplacedIsDerived DEF PanelInv
  <1>5. SourcesFit'
    BY <1>1, <1>2, <1>4, DerivedFits, StillOpened DEF PanelInv, Derived, Apart, IsSource
  <1>. QED  BY <1>1, <1>5, RowsStay, StartsStay, RestoreStays DEF PanelInv, PageFits, OpenPage

LEMMA SubscribeKeeps ==
  ASSUME PanelInv, NEW s \in sources, Subscribe(s)
  PROVE  PanelInv'
  <1>1. PICK snap : snap = Head(s.inbox)
    OBVIOUS
  <1>. DEFINE t == [s EXCEPT !.at = "open", !.inbox = <<snap, snap>>, !.late = Overtaken(snap)]
  <1>2. /\ UNCHANGED <<row, created, page, restore, start, stored>> /\ s.at = "fetched"
        /\ sources' = (Sent(snap) \ {s}) \cup {t}
    BY <1>1 DEF Subscribe
  <1>3. IsSource(s) /\ page.open
    BY DEF PanelInv, SourcesFit
  <1>4. IsSource(t) /\ t.id = s.id
    BY <1>3 DEF IsSource
  <1>. HIDE DEF t
  <1>5. Derived(Sent(snap)) /\ s \in Sent(snap)
    BY <1>2, SentIsDerived DEF PanelInv
  <1>6. Derived((Sent(snap) \ {s}) \cup {t})
    BY <1>4, <1>5, ReplacedIsDerived
  <1>7. SourcesFit'
    BY <1>2, <1>3, <1>6, DerivedFits, StillOpened DEF PanelInv, Derived, Apart, IsSource
  <1>. QED  BY <1>2, <1>7, RowsStay, StartsStay, RestoreStays DEF PanelInv, PageFits, OpenPage

LEMMA DeliverKeeps ==
  ASSUME PanelInv, NEW s \in sources, Deliver(s)
  PROVE  PanelInv'
  <1>1. PICK snap : snap = Head(s.inbox)
    OBVIOUS
  <1>. DEFINE t == [s EXCEPT !.inbox = Tail(@)]
              rest == (sources \ {s}) \cup {t}
  <1>2. /\ UNCHANGED <<row, created, restore, start>>
        /\ page' = Applied(page, snap) /\ stored' = Kept(snap) /\ sources' \subseteq rest
    BY <1>1 DEF Deliver
  <1>3. IsSource(s) /\ page.open /\ OpenPage(page)
    BY DEF PanelInv, SourcesFit, PageFits, NoPage
  <1>4. IsSource(t) /\ t.id = s.id
    BY <1>3 DEF IsSource
  <1>. HIDE DEF t
  <1>5. Derived(sources')
    BY <1>2, <1>4, SourcesAreDerived, ReplacedIsDerived, SubsetIsDerived DEF PanelInv
  <1>6. OpenPage(page')
    BY <1>2, <1>3, AppliedIsOpen
  <1>7. page'.open
    BY <1>6 DEF OpenPage
  <1>8. SourcesFit'
    BY <1>2, <1>5, <1>7, DerivedFits, StillOpened DEF PanelInv
  <1>9. stored'.status \in ShownStatus
    BY <1>2 DEF Kept, NoSnap, ShownStatus
  <1>. QED  BY <1>2, <1>6, <1>7, <1>8, <1>9, RowsStay, StartsStay, RestoreStays
            DEF PanelInv, PageFits, OpenPage

LEMMA DropKeeps ==
  ASSUME PanelInv, NEW s \in sources, Drop(s)
  PROVE  PanelInv'
  <1>1. IsSource(s) /\ page.open /\ OpenPage(page)
    BY DEF PanelInv, SourcesFit, PageFits, NoPage
  <1>2. IsSource(NewSource(s.id)) /\ NewSource(s.id).id = s.id
    BY DEF IsSource, NewSource
  <1>3. PICK t : t = NewSource(s.id)
    OBVIOUS
  <1>4. /\ UNCHANGED <<row, created, restore, start, stored>>
        /\ page' = page \/ page' = Disconnected(page)
        /\ sources' \subseteq (sources \ {s}) \cup {t}
    BY <1>3 DEF Drop
  <1>5. Derived(sources')
    BY <1>2, <1>3, <1>4, SourcesAreDerived, ReplacedIsDerived, SubsetIsDerived DEF PanelInv
  <1>6. OpenPage(page')
    BY <1>1, <1>4, StoppedIsOpen
  <1>7. page'.open
    BY <1>6 DEF OpenPage
  <1>8. SourcesFit'
    BY <1>4, <1>5, <1>7, DerivedFits, StillOpened DEF PanelInv
  <1>. QED  BY <1>4, <1>6, <1>7, <1>8, RowsStay, StartsStay, RestoreStays
            DEF PanelInv, PageFits, OpenPage

(* The page.                                                               *)
LEMMA OpenKeeps ==
  ASSUME PanelInv, Open
  PROVE  PanelInv'
  <1>1. UNCHANGED <<row, created, start, sources, stored>> /\ ~ page.open
    BY DEF Open
  <1>2. sources = {}
    BY <1>1 DEF PanelInv, SourcesFit
  <1>3. OpenPage(page')
    BY DEF Open, OpenPage, PageFields
  <1>4. page'.open
    BY <1>3 DEF OpenPage
  <1>5. SourcesFit'
    BY <1>1, <1>2 DEF SourcesFit, Apart
  <1>6. RestoreFits'
    BY <1>4, IdleIs DEF Open, RestoreFits
  <1>. QED  BY <1>1, <1>3, <1>4, <1>5, <1>6, RowsStay, StartsStay DEF PanelInv, PageFits, OpenPage

LEMMA CloseKeeps ==
  ASSUME PanelInv, Close
  PROVE  PanelInv'
  <1>1. UNCHANGED <<row, created, stored>> /\ page' = NoPage /\ restore' = Idle /\ sources' = {}
    BY DEF Close
  <1>2. ASSUME NEW j \in Job PROVE StartFits(j)'
    <2>1. start'[j] = Idle \/ \E a \in {"orphan", "over"} : start'[j] = [Idle EXCEPT !.at = a]
      BY DEF Close
    <2>2. DOMAIN start'[j] = {"at", "snap"} /\ start'[j].at \in {"idle", "orphan", "over"}
      BY <2>1, IdleIs
    <2>. QED  BY <2>2 DEF StartFits, Attaching
  <1>3. StartsFit'
    BY <1>2 DEF Close, StartsFit
  <1>4. SourcesFit'
    BY <1>1 DEF SourcesFit, Apart
  <1>. QED  BY <1>1, <1>3, <1>4, RowsStay, RestoreIsOver DEF PanelInv, PageFits

LEMMA FetchActiveKeeps ==
  ASSUME PanelInv, FetchActive
  PROVE  PanelInv'
  <1>1. UNCHANGED <<row, created, page, start, sources, stored>> /\ restore.at = "asked"
    BY DEF FetchActive
  <1>2. page.open
    BY <1>1 DEF PanelInv, RestoreFits
  <1>3. \/ restore' = [at |-> "answered", snap |-> NoSnap]
        \/ \E i \in DOMAIN created : /\ row[created[i]] \in Active
                                     /\ restore' = [at |-> "answered", snap |-> Snapshot(created[i])]
    BY DEF FetchActive
  <1>4. \A i \in DOMAIN created : created[i] \in Job
    BY DEF PanelInv, RowsFit
  <1>5. RestoreFits'
    BY <1>1, <1>2, <1>3, <1>4 DEF RestoreFits, ShownStatus, NoSnap, Snapshot
  <1>6. SourcesFit'
    BY <1>1, <1>3, StillOpened, DerivedFits, SourcesAreDerived DEF PanelInv, Derived, SourcesFit,
       IsSource, Apart
  <1>. QED  BY <1>1, <1>5, <1>6, RowsStay, StartsStay DEF PanelInv, PageFits, OpenPage

(* A step of an open page that begins no request and opens no source.      *)
LEMMA PageMoves ==
  ASSUME PanelInv, UNCHANGED <<row, created>>, OpenPage(page'), stored'.status \in ShownStatus,
         RestoreFits', restore.at = "idle" => restore'.at = "idle", StartsFit',
         \A k \in Job : start[k].at = "over" => start'[k].at = "over", Derived(sources')
  PROVE  PanelInv'
  <1>1. page'.open
    BY DEF OpenPage
  <1>2. SourcesFit'
    BY <1>1, DerivedFits, StillOpened DEF PanelInv
  <1>. QED  BY <1>2, RowsStay DEF PanelInv, PageFits, OpenPage

(* Who waits has a page.                                                   *)
LEMMA PageIsThere ==
  ASSUME PanelInv
  PROVE  /\ page.open => OpenPage(page)
         /\ restore.at # "idle" => page.open
         /\ \A j \in Job : start[j].at \in Attaching => page.open
  BY DEF PanelInv, PageFits, NoPage, RestoreFits, StartsFit, StartFits

LEMMA NothingToRestoreKeeps ==
  ASSUME PanelInv, NothingToRestore
  PROVE  PanelInv'
  <1>1. UNCHANGED <<row, created, start, sources>> /\ restore' = Idle /\ restore.at = "answered"
    BY DEF NothingToRestore
  <1>2. OpenPage(page)
    BY <1>1, PageIsThere
  <1>3. OpenPage(page')
    <2>1. \/ page' = [page EXCEPT !.running = FALSE]
          \/ page' = [page EXCEPT !.running = FALSE, !.shown = NoSnap]
      BY DEF NothingToRestore
    <2>2. /\ OpenPage([page EXCEPT !.running = FALSE])
          /\ OpenPage([page EXCEPT !.running = FALSE, !.shown = NoSnap])
      BY <1>2, StoppedIsOpen
    <2>. QED  BY <2>1, <2>2, Zenon
  <1>4. stored'.status \in ShownStatus
    BY DEF NothingToRestore, PanelInv, NoSnap, ShownStatus
  <1>5. StartsFit' /\ Derived(sources')
    BY <1>1, <1>3, StartsStay, SourcesAreDerived DEF PanelInv, OpenPage, Derived, IsSource, Apart
  <1>. QED  BY <1>1, <1>3, <1>4, <1>5, PageMoves, RestoreIsOver, IdleIs

LEMMA RestoreJobKeeps ==
  ASSUME PanelInv, RestoreJob
  PROVE  PanelInv'
  <1>1. PICK snap : snap = restore.snap
    OBVIOUS
  <1>2. PICK id : id = <<"restore", snap.job>>
    OBVIOUS
  <1>3. PICK overlap : overlap = (page.overlap \/ Busy)
    OBVIOUS
  <1>4. /\ UNCHANGED <<row, created, start>> /\ restore.at = "answered" /\ restore' = Idle
        /\ snap # NoSnap /\ stored' = snap
        /\ sources' = {s \in Sent(snap) : s.id # page.current} \cup {NewSource(id)}
    BY <1>1, <1>2 DEF RestoreJob
  <1>5. page' = [Attached(page) EXCEPT !.shown = snap, !.current = id, !.overlap = page.overlap \/ Busy]
    BY <1>1, <1>2, <1>4, PageIsThere DEF RestoreJob, Attached, OpenPage, PageFields
  <1>6. OpenPage(page')
    BY <1>4, <1>5, PageIsThere, AttachedIsOpen
  <1>7. page'.open
    BY <1>6 DEF OpenPage
  <1>8. snap.job \in Job /\ snap.status \in ShownStatus
    BY <1>1, <1>4 DEF PanelInv, RestoreFits
  <1>9. id \in Ids /\ Opened(id)' /\ ~ Opened(id)
    BY <1>2, <1>4, <1>8, IdleIs DEF Ids, Opened
  <1>10. \A i : Opened(i) => Opened(i)'
    BY <1>4, StillOpened, IdleIs
  <1>11. Derived({s \in Sent(snap) : s.id # page.current})
    BY SentIsDerived, SubsetIsDerived DEF PanelInv
  <1>12. SourcesFit'
    BY <1>4, <1>7, <1>9, <1>10, <1>11, AddedFits DEF PanelInv
  <1>. QED  BY <1>4, <1>6, <1>7, <1>8, <1>12, RowsStay, StartsStay, RestoreIsOver
            DEF PanelInv, PageFits, OpenPage

LEMMA ClickKeeps ==
  ASSUME PanelInv, NEW j \in Job, Click(j)
  PROVE  PanelInv'
  <1>1. /\ UNCHANGED <<row, created, restore>> /\ page.open /\ start[j].at = "idle"
        /\ start' = [start EXCEPT ![j].at = "posting"] /\ sources' = Unclosed(page.current)
        /\ stored' = NoSnap
    BY DEF Click
  <1>2. PICK overlap : page' = [Attached(page) EXCEPT !.shown = NoSnap, !.overlap = overlap]
    BY DEF Click
  <1>3. OpenPage(page) /\ OpenPage(page')
    BY <1>1, <1>2, PageIsThere, AttachedIsOpen
  <1>4. PICK q : q = [start[j] EXCEPT !.at = "posting"]
    OBVIOUS
  <1>5. start' = [start EXCEPT ![j] = q]
    BY <1>1, <1>4
  <1>6. DOMAIN q = {"at", "snap"} /\ q.at = "posting" /\ page'.open
    BY <1>3, <1>4 DEF PanelInv, StartsFit, StartFits, OpenPage
  <1>7. StartsFit' /\ \A k \in Job : start[k].at = "over" => start'[k].at = "over"
    BY <1>1, <1>5, <1>6, StartMoves DEF PanelInv, Attaching
  <1>8. Derived(sources')
    BY <1>1, SourcesAreDerived, SubsetIsDerived DEF PanelInv, Unclosed
  <1>9. stored'.status \in ShownStatus
    BY <1>1 DEF NoSnap, ShownStatus
  <1>. QED  BY <1>1, <1>3, <1>6, <1>7, <1>8, <1>9, PageMoves, RestoreStays DEF PanelInv

LEMMA AttachCreatedKeeps ==
  ASSUME PanelInv, NEW j \in Job, AttachCreated(j)
  PROVE  PanelInv'
  <1>1. /\ UNCHANGED <<row, created, restore, stored>> /\ start[j].at = "created"
        /\ start' = [start EXCEPT ![j].at = "getting"] /\ sources' = Unclosed(page.current)
    BY DEF AttachCreated
  <1>2. OpenPage(page)
    BY <1>1, PageIsThere DEF Attaching
  <1>3. PICK overlap : page' = [Attached(page) EXCEPT !.overlap = overlap]
    BY DEF AttachCreated
  <1>4. OpenPage(page')
    BY <1>2, <1>3, AttachedIsOpen
  <1>5. PICK q : q = [start[j] EXCEPT !.at = "getting"]
    OBVIOUS
  <1>6. start' = [start EXCEPT ![j] = q]
    BY <1>1, <1>5
  <1>7. DOMAIN q = {"at", "snap"} /\ q.at = "getting" /\ page'.open
    BY <1>4, <1>5 DEF PanelInv, StartsFit, StartFits, OpenPage
  <1>8. StartsFit' /\ \A k \in Job : start[k].at = "over" => start'[k].at = "over"
    BY <1>1, <1>6, <1>7, StartMoves DEF PanelInv, Attaching
  <1>9. Derived(sources')
    BY <1>1, SourcesAreDerived, SubsetIsDerived DEF PanelInv, Unclosed
  <1>10. stored'.status \in ShownStatus /\ RestoreFits'
    BY <1>1, <1>7, RestoreStays DEF PanelInv
  <1>. QED  BY <1>1, <1>4, <1>8, <1>9, <1>10, PageMoves

LEMMA FetchStatusKeeps ==
  ASSUME PanelInv, NEW j \in Job, FetchStatus(j)
  PROVE  PanelInv'
  <1>1. /\ UNCHANGED <<row, created, page, restore, sources, stored>> /\ start[j].at = "getting"
        /\ start' = [start EXCEPT ![j] = [at |-> "got", snap |-> Snapshot(j)]]
    BY DEF FetchStatus
  <1>2. page.open /\ OpenPage(page)
    BY <1>1, PageIsThere DEF Attaching
  <1>3. PICK q : q = [at |-> "got", snap |-> Snapshot(j)]
    OBVIOUS
  <1>4. DOMAIN q = {"at", "snap"} /\ q.at = "got"
    BY <1>3
  <1>5. StartsFit' /\ \A k \in Job : start[k].at = "over" => start'[k].at = "over"
    BY <1>1, <1>2, <1>3, <1>4, StartMoves DEF PanelInv, Attaching
  <1>6. SourcesFit'
    BY <1>1, <1>5, StillOpened, DerivedFits, SourcesAreDerived DEF PanelInv, Derived, SourcesFit,
       IsSource, Apart
  <1>. QED  BY <1>1, <1>5, <1>6, RowsStay, RestoreStays DEF PanelInv, PageFits, OpenPage

LEMMA ApplyStatusKeeps ==
  ASSUME PanelInv, NEW j \in Job, ApplyStatus(j)
  PROVE  PanelInv'
  <1>1. PICK snap : snap = start[j].snap
    OBVIOUS
  <1>2. PICK id : id = <<"start", j>>
    OBVIOUS
  <1>3. /\ UNCHANGED <<row, created, restore>> /\ start[j].at = "got"
        /\ stored' = Kept(snap)
    BY <1>1 DEF ApplyStatus
  <1>14. PICK at \in {"completing", "over"} :
           /\ start' = [start EXCEPT ![j] = [Idle EXCEPT !.at = at]]
           /\ \/ page' = Applied(page, snap) /\ sources' \subseteq Sent(snap)
              \/ /\ page' = [Applied(page, snap) EXCEPT !.current = id] /\ at = "over"
                 /\ sources' = Sent(snap) \cup {NewSource(id)}
    <2>1. PICK waits \in BOOLEAN : waits <=> Ends(page, snap) /\ snap.status = "COMPLETED"
      OBVIOUS
    <2>2. start' = [start EXCEPT ![j] = [Idle EXCEPT !.at = IF waits THEN "completing" ELSE "over"]]
      BY <1>1, <2>1 DEF ApplyStatus
    <2>3. CASE Applied(page, snap).done
      BY <1>1, <2>2, <2>3 DEF ApplyStatus
    <2>4. CASE ~ Applied(page, snap).done
      <3>1. ~ waits
        <4>1. OpenPage(page)
          BY <1>3, PageIsThere DEF Attaching
        <4>. QED  BY <4>1, <2>1, <2>4 DEF Applied, OpenPage, PageFields
      <3>. QED  BY <1>1, <1>2, <2>2, <2>4, <3>1 DEF ApplyStatus
    <2>. QED  BY <2>3, <2>4
  <1>4. OpenPage(page) /\ page.open
    BY <1>3, PageIsThere DEF Attaching
  <1>5. OpenPage(page')
    <2>1. OpenPage(Applied(page, snap)) /\ OpenPage([Applied(page, snap) EXCEPT !.current = id])
      BY <1>4, AppliedIsOpen
    <2>. QED  BY <1>14, <2>1, Zenon
  <1>6. page'.open
    BY <1>5 DEF OpenPage
  <1>7. StartsFit' /\ \A k \in Job : start[k].at = "over" => start'[k].at = "over"
    BY <1>3, <1>14, <1>6, StartMoves, IdleIs DEF PanelInv, Attaching
  <1>8. \A i : Opened(i) => Opened(i)'
    BY <1>3, <1>7, StillOpened
  <1>9. id \in Ids /\ ~ Opened(id)
    BY <1>2, <1>3 DEF Ids, Opened
  <1>10. at = "over" => Opened(id)'
    <2>1. at = "over" => start'[j].at = "over"
      BY <1>14, IdleIs DEF PanelInv, StartsFit
    <2>. QED  BY <1>2, <2>1 DEF Opened
  <1>11. Derived(Sent(snap))
    BY SentIsDerived DEF PanelInv
  <1>12. SourcesFit'
    <2>1. CASE sources' \subseteq Sent(snap)
      BY <1>6, <1>8, <1>11, <2>1, SubsetIsDerived, DerivedFits DEF PanelInv
    <2>2. CASE sources' = Sent(snap) \cup {NewSource(id)} /\ at = "over"
      BY <1>6, <1>8, <1>9, <1>10, <1>11, <2>2, AddedFits DEF PanelInv
    <2>. QED  BY <1>14, <2>1, <2>2
  <1>13. stored'.status \in ShownStatus
    BY <1>3 DEF Kept, NoSnap, ShownStatus
  <1>. QED  BY <1>3, <1>5, <1>6, <1>7, <1>12, <1>13, RowsStay, RestoreStays
            DEF PanelInv, PageFits, OpenPage

LEMMA CompletionHandledKeeps ==
  ASSUME PanelInv, NEW j \in Job, CompletionHandled(j)
  PROVE  PanelInv'
  <1>1. PICK id : id = <<"start", j>>
    OBVIOUS
  <1>2. /\ UNCHANGED <<row, created, restore, stored>> /\ start[j].at = "completing"
        /\ start' = [start EXCEPT ![j] = [Idle EXCEPT !.at = "over"]]
        /\ \/ UNCHANGED <<page, sources>>
           \/ page' = [page EXCEPT !.current = id] /\ sources' = sources \cup {NewSource(id)}
    BY <1>1 DEF CompletionHandled
  <1>3. OpenPage(page) /\ page.open
    BY <1>2, PageIsThere DEF Attaching
  <1>4. OpenPage(page') /\ page'.open
    BY <1>2, <1>3 DEF OpenPage, PageFields
  <1>5. StartsFit' /\ \A k \in Job : start[k].at = "over" => start'[k].at = "over"
    BY <1>2, <1>4, StartMoves, IdleIs DEF PanelInv, Attaching
  <1>6. \A i : Opened(i) => Opened(i)'
    BY <1>2, <1>5, StillOpened
  <1>7. id \in Ids /\ ~ Opened(id)
    BY <1>1, <1>2 DEF Ids, Opened
  <1>8. Opened(id)'
    <2>1. start'[j].at = "over"
      BY <1>2, IdleIs DEF PanelInv, StartsFit
    <2>. QED  BY <1>1, <2>1 DEF Opened
  <1>9. SourcesFit'
    <2>1. Derived(sources)
      BY SourcesAreDerived DEF PanelInv
    <2>2. CASE sources' = sources
      <3>1. Derived(sources')
        BY <2>1, <2>2 DEF Derived, IsSource, Apart, SourcesFit
      <3>. QED  BY <1>4, <1>6, <3>1, DerivedFits DEF PanelInv
    <2>3. CASE sources' = sources \cup {NewSource(id)}
      BY <1>4, <1>6, <1>7, <1>8, <2>1, <2>3, AddedFits DEF PanelInv
    <2>. QED  BY <1>2, <2>2, <2>3
  <1>. QED  BY <1>2, <1>4, <1>5, <1>9, RowsStay, RestoreStays DEF PanelInv, PageFits, OpenPage

(* A request that fails.                                                   *)
LEMMA FailRestoreKeeps ==
  ASSUME PanelInv, FailRestore
  PROVE  PanelInv'
  <1>1. /\ UNCHANGED <<row, created, start, sources, stored>> /\ restore' = Idle
        /\ restore.at \in {"asked", "answered"} /\ page' = [page EXCEPT !.running = FALSE]
    BY DEF FailRestore
  <1>2. OpenPage(page')
    BY <1>1, PageIsThere, StoppedIsOpen
  <1>3. StartsFit' /\ Derived(sources') /\ stored'.status \in ShownStatus
    BY <1>1, <1>2, StartsStay, SourcesAreDerived DEF PanelInv, OpenPage, Derived, IsSource, Apart
  <1>. QED  BY <1>1, <1>2, <1>3, PageMoves, RestoreIsOver, IdleIs

LEMMA FailStartKeeps ==
  ASSUME PanelInv, NEW j \in Job, FailStart(j)
  PROVE  PanelInv'
  <1>1. PICK q : q = [Idle EXCEPT !.at = IF start[j].at = "posting" THEN "orphan" ELSE "over"]
    OBVIOUS
  <1>2. /\ UNCHANGED <<row, created, restore, stored>> /\ start[j].at \in Attaching
        /\ page' = Disconnected(page) /\ sources' = Unclosed(page.current)
        /\ start' = [start EXCEPT ![j] = q]
    BY <1>1 DEF FailStart, Attaching
  <1>3. DOMAIN q = {"at", "snap"} /\ q.at \in {"orphan", "over"}
    BY <1>1, IdleIs
  <1>4. OpenPage(page')
    BY <1>2, PageIsThere, StoppedIsOpen
  <1>5. page'.open
    BY <1>4 DEF OpenPage
  <1>6. StartsFit' /\ \A k \in Job : start[k].at = "over" => start'[k].at = "over"
    BY <1>2, <1>3, <1>5, StartMoves DEF PanelInv, Attaching
  <1>7. Derived(sources')
    BY <1>2, SourcesAreDerived, SubsetIsDerived DEF PanelInv, Unclosed
  <1>8. stored'.status \in ShownStatus /\ RestoreFits'
    BY <1>2, <1>5, RestoreStays DEF PanelInv
  <1>. QED  BY <1>2, <1>4, <1>6, <1>7, <1>8, PageMoves

-----------------------------------------------------------------------------
(* The jobs there are at first, in some order, are all of them.            *)
LEMMA EachOnce ==
  ASSUME NEW S, IsFiniteSet(S)
  PROVE  SetToSeq(S) \in Seq(S) /\ ToSet(SetToSeq(S)) = S
  <1>. DEFINE n == Cardinality(S)
  <1>1. n \in Nat /\ Bijection(1 .. n, S) # {}
    BY FS_CardinalityType DEF ExistsBijection
  <1>2. \E f \in [1 .. n -> S] : IsInjective(f)
    BY <1>1 DEF Bijection, Injection
  <1>3. SetToSeq(S) \in [1 .. n -> S] /\ IsInjective(SetToSeq(S))
    BY <1>2 DEF SetToSeq
  <1>4. IsFiniteSet(1 .. n) /\ Cardinality(1 .. n) = n
    BY <1>1, FS_Interval
  <1>5. SetToSeq(S) \in Surjection(1 .. n, S)
    BY <1>3, <1>4, FS_Injection DEF Injection
  <1>6. ToSet(SetToSeq(S)) = S
    BY <1>3, <1>5 DEF Surjection, ToSet
  <1>. HIDE DEF n
  <1>. QED  BY <1>1, <1>3, <1>6

LEMMA PanelStart ==
  ASSUME PanelInit
  PROVE  PanelInv
  <1>1. PICK before : before = panelScenario.before
    OBVIOUS
  <1>2. before \subseteq Job /\ IsFiniteSet(before)
    BY <1>1, PanelAssumption DEF PanelInit
  <1>3. row = [j \in Job |-> IF j \in before THEN "PENDING" ELSE "NONE"] /\ created = SetToSeq(before)
    BY <1>1 DEF PanelInit
  <1>4. created \in Seq(before) /\ ToSet(created) = before
    BY <1>2, <1>3, EachOnce
  <1>5. RowsFit
    BY <1>2, <1>3, <1>4 DEF RowsFit
  <1>6. PageFits /\ RestoreFits /\ SourcesFit
    BY IdleIs DEF PanelInit, PageFits, RestoreFits, SourcesFit, Apart
  <1>7. StartsFit /\ stored.status \in ShownStatus
    BY IdleIs DEF PanelInit, StartsFit, StartFits, Attaching, NoSnap, ShownStatus
  <1>. QED  BY <1>5, <1>6, <1>7 DEF PanelInv

LEMMA PanelKeeps == PanelInv /\ [PanelNext]_panelVars => PanelInv'
  <1>. SUFFICES ASSUME PanelInv, [PanelNext]_panelVars PROVE PanelInv'
    OBVIOUS
  <1>1. CASE Open \/ Close \/ RestoreStep \/ FailRestore
    BY <1>1, OpenKeeps, CloseKeeps, FetchActiveKeeps, NothingToRestoreKeeps, RestoreJobKeeps,
       FailRestoreKeeps DEF RestoreStep
  <1>2. ASSUME NEW j \in Job, Click(j) \/ StartStep(j) \/ FailStart(j) \/ JobStep(j) PROVE PanelInv'
    BY <1>2, ClickKeeps, CreateJobKeeps, AttachCreatedKeeps, FetchStatusKeeps, ApplyStatusKeeps,
       CompletionHandledKeeps, FailStartKeeps, AdvanceJobKeeps, PublishKeeps DEF StartStep, JobStep
  <1>3. ASSUME NEW s \in sources, StreamStep(s) \/ Drop(s) PROVE PanelInv'
    BY <1>3, FetchInitialKeeps, SubscribeKeeps, DeliverKeeps, DropKeeps DEF StreamStep
  <1>4. CASE UNCHANGED panelVars
    BY <1>4 DEF panelVars, PanelInv, RowsFit, ToSet, PageFits, OpenPage, RestoreFits, StartsFit,
       StartFits, SourcesFit, IsSource, Opened, Apart
  <1>. QED  BY <1>1, <1>2, <1>3, <1>4 DEF PanelNext

(* Sources are each of a call or a restored job of its own, and whoever    *)
(* waits for an answer has a page (usePersistentJobStream).                *)
THEOREM PanelInvariant == PanelSpec => []PanelInv
  <1>. QED  BY PanelStart, PanelKeeps, PTL DEF PanelSpec

(* PanelTypeOK: no two sources are of one identity, and none is without a  *)
(* page; what is running is not done (Panel).                              *)
THEOREM PanelTypes == PanelSpec => []PanelTypeOK
  <1>1. PanelInv => PanelTypeOK
    BY DEF PanelInv, RowsFit, PageFits, NoPage, OpenPage, SourcesFit, IsSource, Apart, ShownStatus,
       PanelTypeOK
  <1>. QED  BY <1>1, PanelInvariant, PTL

-----------------------------------------------------------------------------
(* The parts side by side, as in MCSyncs                                   *)

LEMMA AdmissionTypes == AdmissionSpec => []AdmissionTypeOK
  <1>1. AdmissionInv => AdmissionTypeOK
    BY DEF AdmissionInv
  <1>. QED  BY <1>1, AdmissionInvariant, PTL

(* TypeOK: the syncs, their admission and the panel keep their types       *)
(* together (MarketSync, SyncAdmission, Panel).                            *)
THEOREM SideBySide == Spec => []TypeOK
  <1>1. Init => MarketInit /\ AdmissionInit /\ PanelInit
    BY DEF Init
  <1>2. [Next]_vars => [MarketNext]_marketVars
    BY DEF Next, vars
  <1>3. [Next]_vars => [AdmissionNext]_admissionVars
    BY DEF Next, vars
  <1>4. [Next]_vars => [PanelNext]_panelVars
    BY DEF Next, vars
  <1>5. MarketTypeOK /\ AdmissionTypeOK /\ PanelTypeOK => TypeOK
    BY DEF TypeOK
  <1>6. Spec => MarketSpec /\ AdmissionSpec /\ PanelSpec
    BY <1>1, <1>2, <1>3, <1>4, PTL DEF Spec, MarketSpec, AdmissionSpec, PanelSpec
  <1>. QED  BY <1>5, <1>6, TypeCorrect, AdmissionTypes, PanelTypes, PTL

=============================================================================
