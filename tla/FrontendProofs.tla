--------------------------- MODULE FrontendProofs ---------------------------
(***************************************************************************)
(* Proofs about two pages of the applications and what they are served by: *)
(* Reports and Dashboard, for any chains of models, any routing, and any   *)
(* number of analyses, of jobs that generate at once and of requests on    *)
(* their way; Preferences, for any number of browsers and of requests that *)
(* are under way at once, and any scenarios.  Then, of these and of Auth   *)
(* side by side, as in MCAuth.                                             *)
(***************************************************************************)
EXTENDS MCAuth, AuthProofs, SequenceTheorems, TLAPS

-----------------------------------------------------------------------------
(* The inductive invariant of the reports and of the dashboard             *)

(* A job at the k-th model of the i-th provider has failed with exactly    *)
(* the tries before it.                                                    *)
At(at, a, p, i, k) ==
  [at |-> at, of |-> a, order |-> ProviderOrder(p), provider |-> i, chain |-> k,
   failed |-> TriesBefore(ProviderOrder(p), i, k)]

Placed(j) ==
  \E at \in {"ask", "store"}, a \in 1 .. analyses, p \in reportScenario.policies :
    \E i \in DOMAIN ProviderOrder(p) : \E k \in DOMAIN Models(ProviderOrder(p)[i]) :
      j = At(at, a, p, i, k)

Sound(j) ==
  \/ j = NoJob
  \/ \E at \in {"begun", "done", "failed"}, a \in 1 .. analyses : j = [at |-> at, of |-> a]
  \/ Placed(j)

ReportInv ==
  /\ reportScenario \in ReportScenarios
  /\ policy \in reportScenario.policies
  /\ analyses \in Nat /\ analyses <= reportScenario.analyses
  /\ summaries = [a \in Analysis |-> summaries[a]]
  /\ \A a \in Analysis :
       summaries[a] # NoSummary => a <= analyses /\ Genuine(a, summaries[a])
  /\ generating = [g \in Generation |-> generating[g]]
  /\ \A g \in Generation : Sound(generating[g])

(* Whatever the page waits for is of an analysis there is.                 *)
Page(d) ==
  /\ DOMAIN d = {"open", "selected", "lang", "summary", "features", "follows", "told"}
  /\ d.open
  /\ d.selected \in 0 .. analyses /\ d.told \in 0 .. analyses

DashInv ==
  /\ dash = Closed \/ Page(dash)
  /\ dash = Closed =>
       fetches = <<>> /\ opening = {} /\ loading = NoRequest /\ starting = NoRequest
  /\ loading # NoRequest =>
       (loading.answered /\ loading.at = "results" => loading.read \in 0 .. analyses)
  /\ opening \subseteq 0 .. analyses
  /\ starting # NoRequest => starting.of \in 1 .. analyses
  /\ exporting.variant = "ai-summary" => Genuine(exporting.of, exporting.summary)

DashboardInv == ReportInv /\ DashInv

-----------------------------------------------------------------------------
(* Orders and chains                                                       *)

(* MOCK is the last provider of every order, and none occurs twice.        *)
LEMMA Orders ==
  ASSUME NEW p \in AiProvider, NEW o, o = ProviderOrder(p)
  PROVE  /\ o \in Seq(AiProvider) /\ Len(o) \in 1 .. 3 /\ DOMAIN o = 1 .. Len(o)
         /\ o[1] = p /\ o[Len(o)] = "MOCK"
         /\ \A h, i \in DOMAIN o : o[h] = o[i] => h = i
  <1>1. CASE p = "MOCK"
    <2>1. o = <<"MOCK">>  BY <1>1 DEF ProviderOrder
    <2>. QED  BY <1>1, <2>1 DEF AiProvider
  <1>2. CASE p = "OPENAI"
    <2>1. o = <<"OPENAI", "OPENROUTER", "MOCK">>  BY <1>2 DEF ProviderOrder
    <2>2. o \in Seq(AiProvider) /\ Len(o) = 3  BY <2>1 DEF AiProvider
    <2>3. o[1] = "OPENAI" /\ o[2] = "OPENROUTER" /\ o[3] = "MOCK"  BY <2>1
    <2>4. \A h, i \in 1 .. 3 : o[h] = o[i] => h = i  BY <2>3
    <2>. QED  BY <1>2, <2>2, <2>3, <2>4
  <1>3. CASE p = "OPENROUTER"
    <2>1. o = <<"OPENROUTER", "OPENAI", "MOCK">>  BY <1>3 DEF ProviderOrder
    <2>2. o \in Seq(AiProvider) /\ Len(o) = 3  BY <2>1 DEF AiProvider
    <2>3. o[1] = "OPENROUTER" /\ o[2] = "OPENAI" /\ o[3] = "MOCK"  BY <2>1
    <2>4. \A h, i \in 1 .. 3 : o[h] = o[i] => h = i  BY <2>3
    <2>. QED  BY <1>3, <2>2, <2>3, <2>4
  <1>. QED  BY <1>1, <1>2, <1>3 DEF AiProvider

(* Chains are sequences without repetition; that of MOCK is not empty.     *)
LEMMA Chains ==
  ASSUME reportScenario \in ReportScenarios, NEW p \in AiProvider
  PROVE  /\ Models(p) \in Seq(STRING) /\ DOMAIN Models(p) = 1 .. Len(Models(p))
         /\ Len(Models(p)) \in Nat /\ (Models(p) # <<>> <=> Len(Models(p)) > 0)
         /\ \A k, l \in DOMAIN Models(p) : Models(p)[k] = Models(p)[l] => k = l
         /\ Models("MOCK") # <<>>
  <1>1. Models(p) \in Seq(STRING)
    BY ReportAssumption DEF Models
  <1>2. /\ \A k, l \in DOMAIN Models(p) : Models(p)[k] = Models(p)[l] => k = l
        /\ Models("MOCK") # <<>>
    BY ReportAssumption DEF Models
  <1>3. DOMAIN Models(p) = 1 .. Len(Models(p)) /\ Len(Models(p)) \in Nat
    BY <1>1, LenProperties
  <1>4. Models(p) # <<>> <=> Len(Models(p)) > 0
    BY <1>1, <1>3, EmptySeq
  <1>. QED  BY <1>1, <1>2, <1>3, <1>4

(* The next provider that is set up exists; those passed over are not.     *)
LEMMA First ==
  ASSUME reportScenario \in ReportScenarios, NEW p \in AiProvider, NEW o, o = ProviderOrder(p),
         NEW i \in DOMAIN o
  PROVE  /\ FirstFrom(o, i) \in i .. Len(o) /\ FirstFrom(o, i) \in DOMAIN o
         /\ 1 \in DOMAIN Models(o[FirstFrom(o, i)])
         /\ \A h \in i .. FirstFrom(o, i) - 1 : Models(o[h]) = <<>>
  <1>. DEFINE Set(j) == Models(o[j]) # <<>>
              Fits(j) == Set(j) /\ \A h \in i .. j - 1 : ~ Set(h)
  <1>1. /\ o \in Seq(AiProvider) /\ Len(o) \in 1 .. 3 /\ DOMAIN o = 1 .. Len(o)
        /\ o[Len(o)] = "MOCK"
    BY Orders
  <1>2. Set(Len(o))
    BY <1>1, Chains
  <1>3. \E j \in i .. Len(o) : Fits(j)
    <2>. HIDE DEF Set
    <2>1. CASE Set(i)
      BY <1>1, <2>1
    <2>2. CASE ~ Set(i) /\ i + 1 <= Len(o) /\ Set(i + 1)
      BY <1>1, <2>2
    <2>3. CASE ~ Set(i) /\ ~ (i + 1 <= Len(o) /\ Set(i + 1))
      BY <1>1, <1>2, <2>3
    <2>. QED  BY <2>1, <2>2, <2>3
  <1>4. FirstFrom(o, i) \in i .. Len(o) /\ Fits(FirstFrom(o, i))
    BY <1>3 DEF FirstFrom
  <1>5. FirstFrom(o, i) \in DOMAIN o /\ o[FirstFrom(o, i)] \in AiProvider
    BY <1>1, <1>4
  <1>6. 1 \in DOMAIN Models(o[FirstFrom(o, i)])
    BY <1>4, <1>5, Chains
  <1>. QED  BY <1>4, <1>5, <1>6

(* What failed before the next model of a chain.                           *)
LEMMA NextModel ==
  ASSUME NEW o, NEW i \in Nat, NEW k \in Nat \ {0}
  PROVE  TriesBefore(o, i, k + 1) = TriesBefore(o, i, k) \cup {Try(o, i, k)}
  <1>1. 1 .. (k + 1) - 1 = (1 .. k - 1) \cup {k}
    OBVIOUS
  <1>2. {Try(o, i, l) : l \in 1 .. (k + 1) - 1} = {Try(o, i, l) : l \in 1 .. k - 1} \cup {Try(o, i, k)}
    BY <1>1, Zenon
  <1>. QED  BY <1>2, Zenon DEF TriesBefore

(* ... and what failed before the next provider that is set up.            *)
LEMMA NextProvider ==
  ASSUME NEW o, NEW i \in Nat \ {0}, NEW j \in Nat, i < j,
         Len(Models(o[i])) \in Nat \ {0}, DOMAIN Models(o[i]) = 1 .. Len(Models(o[i])),
         \A h \in i + 1 .. j - 1 : Models(o[h]) = <<>>
  PROVE  TriesBefore(o, j, 1) =
           TriesBefore(o, i, Len(Models(o[i]))) \cup {Try(o, i, Len(Models(o[i])))}
  <1>. DEFINE k == Len(Models(o[i]))
              T(h) == {Try(o, h, l) : l \in DOMAIN Models(o[h])}
              Before(h) == UNION {T(g) : g \in 1 .. h - 1}
  <1>1. {Try(o, i, l) : l \in 1 .. k} = {Try(o, i, l) : l \in 1 .. k - 1} \cup {Try(o, i, k)}
    <2>1. 1 .. k = (1 .. k - 1) \cup {k}
      OBVIOUS
    <2>. QED  BY <2>1, Zenon
  <1>2. {Try(o, j, l) : l \in 1 .. 1 - 1} = {}
    OBVIOUS
  <1>3. \A h \in i + 1 .. j - 1 : T(h) = {}
    OBVIOUS
  <1>4. T(i) = {Try(o, i, l) : l \in 1 .. k}
    OBVIOUS
  <1>5. 1 .. j - 1 = (1 .. i - 1) \cup {i} \cup (i + 1 .. j - 1)
    OBVIOUS
  <1>6. Before(j) = Before(i) \cup T(i)
    <2>. HIDE DEF T
    <2>1. Before(j) = (Before(i) \cup T(i)) \cup UNION {T(g) : g \in i + 1 .. j - 1}
      BY <1>5, Zenon
    <2>2. UNION {T(g) : g \in i + 1 .. j - 1} = {}
      BY <1>3, Zenon
    <2>. QED  BY <2>1, <2>2, Zenon
  <1>7. TriesBefore(o, j, 1) = Before(j)
    BY <1>2, Zenon DEF TriesBefore
  <1>8. TriesBefore(o, i, k) = Before(i) \cup {Try(o, i, l) : l \in 1 .. k - 1}
    BY Zenon DEF TriesBefore
  <1>. HIDE DEF T, k
  <1>. QED  BY <1>1, <1>4, <1>6, <1>7, <1>8, Zenon DEF k

-----------------------------------------------------------------------------
(* Jobs                                                                    *)

(* What a job at some place stores is genuine: it is of the job's          *)
(* analysis, and none of the tries before the place is the one at it.      *)
LEMMA PlacedIsGenuine ==
  ASSUME reportScenario \in ReportScenarios, NEW at, NEW a \in Nat \ {0},
         NEW p \in reportScenario.policies,
         NEW i \in DOMAIN ProviderOrder(p), NEW k \in DOMAIN Models(ProviderOrder(p)[i])
  PROVE  /\ Genuine(a, SummaryOf(At(at, a, p, i, k)))
         /\ SummaryOf(At(at, a, p, i, k)) # NoSummary
  <1>. DEFINE o == ProviderOrder(p)
              row == SummaryOf(At(at, a, p, i, k))
              used == Try(o, i, k)
  <1>1. p \in AiProvider
    BY ReportAssumption
  <1>2. /\ o \in Seq(AiProvider) /\ DOMAIN o = 1 .. Len(o) /\ Len(o) \in 1 .. 3 /\ o[1] = p
        /\ \A g, h \in DOMAIN o : o[g] = o[h] => g = h
    BY <1>1, Orders
  <1>3. /\ row.of = a /\ row.requested = p /\ row.by = o[i] /\ row.fallback = (row.by # p)
        /\ [by |-> row.by, model |-> row.model] = used
        /\ row.attempted = SubSeq(o, 1, i) /\ row.failed = TriesBefore(o, i, k)
    BY <1>2 DEF SummaryOf, At, Try
  <1>4. used \notin TriesBefore(o, i, k)
    <2>1. ASSUME NEW h \in 1 .. i - 1, NEW l \in DOMAIN Models(o[h])
          PROVE  Try(o, h, l) # used
      <3>1. h \in DOMAIN o /\ h # i
        BY <1>2
      <3>2. o[h] # o[i]
        BY <1>2, <3>1
      <3>. QED  BY <3>2 DEF Try
    <2>2. ASSUME NEW l \in 1 .. k - 1
          PROVE  Try(o, i, l) # used
      <3>1. o[i] \in AiProvider
        BY <1>2
      <3>2. DOMAIN Models(o[i]) = 1 .. Len(Models(o[i])) /\ Len(Models(o[i])) \in Nat
        BY <3>1, Chains
      <3>3. l \in DOMAIN Models(o[i]) /\ l # k
        BY <3>2
      <3>4. Models(o[i])[l] # Models(o[i])[k]
        BY <3>1, <3>3, Chains
      <3>. QED  BY <3>4 DEF Try
    <2>. HIDE DEF used, o
    <2>. QED  BY <2>1, <2>2, Zenon DEF TriesBefore
  <1>5. Genuine(a, row)
    <2>. HIDE DEF row, used
    <2>. QED  BY <1>3, <1>4 DEF Genuine, used
  <1>6. row # NoSummary
    <2>1. row.of # NoSummary.of
      BY <1>3 DEF NoSummary
    <2>. QED  BY <2>1
  <1>. QED  BY <1>5, <1>6

(* A job that comes to the next provider that is set up.                   *)
LEMMA AskIsPlaced ==
  ASSUME reportScenario \in ReportScenarios, NEW a \in 1 .. analyses,
         NEW p \in reportScenario.policies, NEW i \in DOMAIN ProviderOrder(p), NEW failed,
         failed = TriesBefore(ProviderOrder(p), FirstFrom(ProviderOrder(p), i), 1)
  PROVE  Placed(AskFrom(a, ProviderOrder(p), i, failed))
  <1>1. p \in AiProvider
    BY ReportAssumption
  <1>. DEFINE o == ProviderOrder(p)
              j == FirstFrom(o, i)
  <1>2. j \in DOMAIN o /\ 1 \in DOMAIN Models(o[j])
    BY <1>1, First
  <1>3. AskFrom(a, o, i, failed) = At("ask", a, p, j, 1)
    BY DEF AskFrom, At
  <1>. QED  BY <1>2, <1>3 DEF Placed

(* At first nothing has failed.                                            *)
LEMMA NothingBefore ==
  ASSUME reportScenario \in ReportScenarios, NEW p \in AiProvider
  PROVE  1 \in DOMAIN ProviderOrder(p) /\
         TriesBefore(ProviderOrder(p), FirstFrom(ProviderOrder(p), 1), 1) = {}
  <1>. DEFINE o == ProviderOrder(p)
              j == FirstFrom(o, 1)
  <1>1. 1 \in DOMAIN o
    BY Orders
  <1>2. \A h \in 1 .. j - 1 : Models(o[h]) = <<>>
    BY <1>1, First
  <1>3. \A h \in 1 .. j - 1 : {Try(o, h, l) : l \in DOMAIN Models(o[h])} = {}
    BY <1>2
  <1>4. {Try(o, j, l) : l \in 1 .. 1 - 1} = {}
    OBVIOUS
  <1>. QED  BY <1>1, <1>3, <1>4, Zenon DEF TriesBefore

(* A refusal moves a job to its next place.                                *)
LEMMA RefusedIsPlaced ==
  ASSUME reportScenario \in ReportScenarios, NEW a \in 1 .. analyses,
         NEW p \in reportScenario.policies, NEW i \in DOMAIN ProviderOrder(p),
         NEW k \in DOMAIN Models(ProviderOrder(p)[i]), ProviderOrder(p)[i] # "MOCK",
         NEW j, j = At("ask", a, p, i, k),
         NEW failed, failed = j.failed \cup {Try(j.order, j.provider, j.chain)}
  PROVE  IF j.chain < Len(Models(j.order[j.provider]))
         THEN Placed([j EXCEPT !.chain = @ + 1, !.failed = failed])
         ELSE Placed(AskFrom(j.of, j.order, j.provider + 1, failed))
  <1>. DEFINE o == ProviderOrder(p)
              n == Len(Models(o[i]))
  <1>1. p \in AiProvider
    BY ReportAssumption
  <1>2. /\ o \in Seq(AiProvider) /\ DOMAIN o = 1 .. Len(o) /\ Len(o) \in 1 .. 3
        /\ o[Len(o)] = "MOCK"
    BY <1>1, Orders
  <1>3. o[i] \in AiProvider /\ i \in Nat \ {0} /\ i # Len(o) /\ i + 1 \in DOMAIN o
    BY <1>2
  <1>4. DOMAIN Models(o[i]) = 1 .. n /\ n \in Nat \ {0} /\ k \in 1 .. n
    BY <1>3, Chains
  <1>5. /\ j.of = a /\ j.order = o /\ j.provider = i /\ j.chain = k
        /\ failed = TriesBefore(o, i, k) \cup {Try(o, i, k)}
    BY DEF At
  <1>6. CASE k < n
    <2>1. k + 1 \in DOMAIN Models(o[i]) /\ failed = TriesBefore(o, i, k + 1)
      BY <1>3, <1>4, <1>5, <1>6, NextModel
    <2>2. [j EXCEPT !.chain = @ + 1, !.failed = failed] = At("ask", a, p, i, k + 1)
      <3>1. j = [at |-> "ask", of |-> a, order |-> o, provider |-> i, chain |-> k,
                 failed |-> TriesBefore(o, i, k)]
        BY DEF At
      <3>2. At("ask", a, p, i, k + 1) = [at |-> "ask", of |-> a, order |-> o, provider |-> i,
                                         chain |-> k + 1, failed |-> failed]
        BY <2>1 DEF At
      <3>3. k \in Nat /\ j.chain = k
        BY <1>4, <1>5
      <3>. DEFINE c == j.chain + 1
      <3>4. c = k + 1
        BY <3>3
      <3>. HIDE DEF o, c
      <3>5. [j EXCEPT !.chain = c, !.failed = failed] =
              [at |-> "ask", of |-> a, order |-> o, provider |-> i, chain |-> c, failed |-> failed]
        <4>. DEFINE before == TriesBefore(o, i, k)
        <4>1. j \in [at : {"ask"}, of : {a}, order : {o}, provider : {i}, chain : {k}, failed : {before}]
          BY <3>1
        <4>. HIDE DEF before
        <4>2. [j EXCEPT !.chain = c, !.failed = failed] \in
                [at : {"ask"}, of : {a}, order : {o}, provider : {i}, chain : {c}, failed : {failed}]
          BY <4>1
        <4>3. \A x \in [at : {"ask"}, of : {a}, order : {o}, provider : {i}, chain : {c}, failed : {failed}] :
                x = [at |-> "ask", of |-> a, order |-> o, provider |-> i, chain |-> c, failed |-> failed]
          OBVIOUS
        <4>. QED  BY <4>2, <4>3, Zenon
      <3>. QED  BY <3>2, <3>4, <3>5 DEF c
    <2>3. Placed([j EXCEPT !.chain = @ + 1, !.failed = failed])
      BY <2>1, <2>2 DEF Placed
    <2>. QED  BY <1>5, <1>6, <2>3
  <1>7. CASE k = n
    <2>. DEFINE f == FirstFrom(o, i + 1)
    <2>1. f \in i + 1 .. Len(o) /\ \A h \in i + 1 .. f - 1 : Models(o[h]) = <<>>
      BY <1>1, <1>3, First
    <2>2. failed = TriesBefore(o, f, 1)
      <3>. HIDE DEF f, o
      <3>. DEFINE m == Len(o)
      <3>1. f \in Nat /\ i < f
        <4>1. m \in Nat
          BY <1>2
        <4>2. i \in Nat
          BY <1>3
        <4>3. f \in i + 1 .. m
          BY <2>1
        <4>. HIDE DEF m
        <4>. QED  BY <4>1, <4>2, <4>3
      <3>2. TriesBefore(o, f, 1) = TriesBefore(o, i, n) \cup {Try(o, i, n)}
        BY <1>3, <1>4, <2>1, <3>1, NextProvider
      <3>. QED  BY <1>5, <1>7, <3>2
    <2>3. Placed(AskFrom(a, o, i + 1, failed))
      BY <1>3, <2>2, AskIsPlaced
    <2>. QED  BY <1>5, <1>7, <2>3
  <1>. QED  BY <1>4, <1>6, <1>7

-----------------------------------------------------------------------------
(* Reports: every step keeps ReportInv                                     *)

(* What is true of a job, and of a row, stays true while analyses come.    *)
LEMMA SoundLater ==
  ASSUME analyses \in Nat, analyses' \in Nat, analyses <= analyses',
         reportScenario' = reportScenario, NEW j, Sound(j)
  PROVE  Sound(j)'
  <1>1. 1 .. analyses \subseteq 1 .. analyses'
    OBVIOUS
  <1>2. \A at, a, p, i, k : At(at, a, p, i, k)' = At(at, a, p, i, k)
    BY DEF At, ProviderOrder, TriesBefore, Try, Models
  <1>3. \A p, i : Models(ProviderOrder(p)[i])' = Models(ProviderOrder(p)[i])
    BY DEF ProviderOrder, Models
  <1>4. ASSUME Placed(j) PROVE Placed(j)'
    BY <1>1, <1>2, <1>3, <1>4, Zenon DEF Placed, ProviderOrder
  <1>. QED  BY <1>1, <1>4, Zenon DEF Sound, NoJob

LEMMA GenuineLater ==
  ASSUME reportScenario' = reportScenario, NEW a, NEW row, Genuine(a, row)
  PROVE  Genuine(a, row)'
  <1>1. \A p : Models(p)' = Models(p)
    BY DEF Models
  <1>2. \A o, i, k : Try(o, i, k)' = Try(o, i, k)
    BY <1>1 DEF Try
  <1>3. \A o, i, k : TriesBefore(o, i, k)' = TriesBefore(o, i, k)
    BY DEF TriesBefore, Try, Models
  <1>4. PICK o : o = ProviderOrder(row.requested)
    OBVIOUS
  <1>5. ProviderOrder(row.requested)' = ProviderOrder(row.requested)
    BY DEF ProviderOrder
  <1>6. /\ row.of = a
        /\ row.requested \in reportScenario.policies
        /\ row.fallback = (row.by # row.requested)
        /\ [by |-> row.by, model |-> row.model] \notin row.failed
    BY DEF Genuine
  <1>7. \E i \in DOMAIN o : \E k \in DOMAIN Models(o[i]) :
          /\ [by |-> row.by, model |-> row.model] = Try(o, i, k)
          /\ row.attempted = SubSeq(o, 1, i)
          /\ row.failed = TriesBefore(o, i, k)
    BY <1>4, Zenon DEF Genuine
  <1>8. \E i \in DOMAIN o : \E k \in DOMAIN Models(o[i])' :
          /\ [by |-> row.by, model |-> row.model] = Try(o, i, k)'
          /\ row.attempted = SubSeq(o, 1, i)
          /\ row.failed = TriesBefore(o, i, k)'
    BY <1>1, <1>2, <1>3, <1>7, Zenon
  <1>. QED  BY <1>4, <1>5, <1>6, <1>8, Zenon DEF Genuine

(* Where a job stands by its label.                                        *)
LEMMA Standing ==
  ASSUME NEW j, Sound(j)
  PROVE  /\ j.at \in {"begun", "done", "failed"} =>
              \E a \in 1 .. analyses : j = [at |-> j.at, of |-> a]
         /\ j.at \in {"ask", "store"} => Placed(j)
         /\ j.at \in {"begun", "store"} => j.of \in 1 .. analyses
  <1>1. CASE j = NoJob
    BY <1>1 DEF NoJob
  <1>2. CASE \E at \in {"begun", "done", "failed"}, a \in 1 .. analyses : j = [at |-> at, of |-> a]
    BY <1>2
  <1>3. CASE Placed(j)
    BY <1>3 DEF Placed, At
  <1>. QED  BY <1>1, <1>2, <1>3 DEF Sound

(* One job moves to where it may be.                                       *)
LEMMA JobMoves ==
  ASSUME ReportInv, NEW g \in Generation, NEW j, Sound(j),
         generating' = [generating EXCEPT ![g] = j],
         UNCHANGED <<reportScenario, policy, analyses, summaries>>
  PROVE  ReportInv'
  <1>1. /\ reportScenario' = reportScenario /\ policy' = policy /\ analyses' = analyses
        /\ summaries' = summaries /\ Analysis' = Analysis /\ Generation' = Generation
    BY DEF Analysis, Generation
  <1>2. \A h \in Generation : Sound(generating[h])
    BY DEF ReportInv
  <1>3. /\ generating' = [h \in Generation |-> generating'[h]]
        /\ \A h \in Generation : generating'[h] = IF h = g THEN j ELSE generating[h]
    BY DEF ReportInv
  <1>4. \A h \in Generation : Sound(generating'[h])
    BY <1>2, <1>3
  <1>5. \A x : Sound(x) => Sound(x)'
    BY <1>1, SoundLater DEF ReportInv
  <1>6. (\A h \in Generation : Sound(generating[h]))'
    BY <1>1, <1>4, <1>5
  <1>7. (\A a \in Analysis :
           summaries[a] # NoSummary => a <= analyses /\ Genuine(a, summaries[a]))'
    BY <1>1, GenuineLater DEF ReportInv, NoSummary
  <1>. QED  BY <1>1, <1>3, <1>6, <1>7 DEF ReportInv

LEMMA BegunIsSound ==
  ASSUME NEW a \in 1 .. analyses PROVE Sound([at |-> "begun", of |-> a])
  BY DEF Sound

LEMMA BuildSnapshotKeeps ==
  ASSUME ReportInv, NEW g \in Generation, BuildSnapshot(g)
  PROVE  ReportInv'
  <1>1. PICK a \in 1 .. analyses : generating[g] = [at |-> "begun", of |-> a]
    BY Standing DEF ReportInv, BuildSnapshot
  <1>. DEFINE j == AskFrom(a, ProviderOrder(policy), 1, {})
  <1>2. Placed(j)
    <2>1. reportScenario \in ReportScenarios /\ policy \in reportScenario.policies /\ policy \in AiProvider
      BY ReportAssumption DEF ReportInv
    <2>. QED  BY <2>1, NothingBefore, AskIsPlaced
  <1>3. Sound(j)
    BY <1>2 DEF Sound
  <1>4. generating' = [generating EXCEPT ![g] = j]
    BY <1>1 DEF BuildSnapshot
  <1>. HIDE DEF j
  <1>. QED  BY <1>3, <1>4, JobMoves DEF BuildSnapshot

(* Where a job asks or stores: at some place.                              *)
LEMMA AnswerModelKeeps ==
  ASSUME ReportInv, NEW g \in Generation, AnswerModel(g)
  PROVE  ReportInv'
  <1>1. Placed(generating[g]) /\ generating[g].at = "ask"
    BY Standing DEF ReportInv, AnswerModel, Asking
  <1>2. PICK a \in 1 .. analyses, p \in reportScenario.policies :
          \E i \in DOMAIN ProviderOrder(p) : \E k \in DOMAIN Models(ProviderOrder(p)[i]) :
            generating[g] = At("ask", a, p, i, k)
    BY <1>1 DEF Placed, At
  <1>3. PICK i \in DOMAIN ProviderOrder(p) : \E k \in DOMAIN Models(ProviderOrder(p)[i]) :
          generating[g] = At("ask", a, p, i, k)
    BY <1>2
  <1>4. PICK k \in DOMAIN Models(ProviderOrder(p)[i]) : generating[g] = At("ask", a, p, i, k)
    BY <1>3
  <1>5. [At("ask", a, p, i, k) EXCEPT !.at = "store"] = At("store", a, p, i, k)
    BY DEF At
  <1>. DEFINE j == At("store", a, p, i, k)
  <1>6. Sound(j)
    BY DEF Sound, Placed
  <1>7. generating' = [generating EXCEPT ![g] = j]
    BY <1>4, <1>5 DEF AnswerModel
  <1>. HIDE DEF j
  <1>. QED  BY <1>6, <1>7, JobMoves DEF AnswerModel

LEMMA RefuseModelKeeps ==
  ASSUME ReportInv, NEW g \in Generation, RefuseModel(g)
  PROVE  ReportInv'
  <1>1. Placed(generating[g]) /\ generating[g].at = "ask"
    BY Standing DEF ReportInv, RefuseModel, Asking
  <1>2. PICK a \in 1 .. analyses, p \in reportScenario.policies :
          \E i \in DOMAIN ProviderOrder(p) : \E k \in DOMAIN Models(ProviderOrder(p)[i]) :
            generating[g] = At("ask", a, p, i, k)
    BY <1>1 DEF Placed, At
  <1>3. PICK i \in DOMAIN ProviderOrder(p) : \E k \in DOMAIN Models(ProviderOrder(p)[i]) :
          generating[g] = At("ask", a, p, i, k)
    BY <1>2
  <1>4. PICK k \in DOMAIN Models(ProviderOrder(p)[i]) : generating[g] = At("ask", a, p, i, k)
    BY <1>3
  <1>5. PICK j : j = generating[g]
    OBVIOUS
  <1>6. PICK failed : failed = j.failed \cup {Try(j.order, j.provider, j.chain)}
    OBVIOUS
  <1>. DEFINE goesOn == j.chain < Len(Models(j.order[j.provider]))
              next == IF goesOn THEN [j EXCEPT !.chain = @ + 1, !.failed = failed]
                      ELSE AskFrom(j.of, j.order, j.provider + 1, failed)
  <1>7. ProviderOrder(p)[i] # "MOCK"
    BY <1>4 DEF RefuseModel, At
  <1>8. Placed(next)
    <2>1. reportScenario \in ReportScenarios /\ j = At("ask", a, p, i, k)
      BY <1>4, <1>5 DEF ReportInv
    <2>2. IF goesOn THEN Placed([j EXCEPT !.chain = @ + 1, !.failed = failed])
          ELSE Placed(AskFrom(j.of, j.order, j.provider + 1, failed))
      BY <1>6, <1>7, <2>1, RefusedIsPlaced
    <2>. QED  BY <2>2
  <1>9. Sound(next)
    BY <1>8 DEF Sound
  <1>10. generating' = [generating EXCEPT ![g] = next]
    BY <1>5, <1>6 DEF RefuseModel
  <1>. HIDE DEF next
  <1>. QED  BY <1>9, <1>10, JobMoves DEF RefuseModel

(* The row of the job's analysis becomes what the job tells.               *)
LEMMA StoreSummaryKeeps ==
  ASSUME ReportInv, NEW g \in Generation, StoreSummary(g)
  PROVE  ReportInv'
  <1>1. Placed(generating[g]) /\ generating[g].at = "store"
    BY Standing DEF ReportInv, StoreSummary
  <1>2. PICK a \in 1 .. analyses, p \in reportScenario.policies :
          \E i \in DOMAIN ProviderOrder(p) : \E k \in DOMAIN Models(ProviderOrder(p)[i]) :
            generating[g] = At("store", a, p, i, k)
    BY <1>1 DEF Placed, At
  <1>3. PICK i \in DOMAIN ProviderOrder(p) : \E k \in DOMAIN Models(ProviderOrder(p)[i]) :
          generating[g] = At("store", a, p, i, k)
    BY <1>2
  <1>4. PICK k \in DOMAIN Models(ProviderOrder(p)[i]) : generating[g] = At("store", a, p, i, k)
    BY <1>3
  <1>5. PICK row : row = SummaryOf(generating[g])
    OBVIOUS
  <1>6. Genuine(a, row)
    <2>1. analyses \in Nat /\ reportScenario \in ReportScenarios
      BY DEF ReportInv
    <2>2. a \in Nat \ {0}
      BY <2>1
    <2>. QED  BY <1>4, <1>5, <2>1, <2>2, PlacedIsGenuine
  <1>7. generating[g].of = a
    BY <1>4 DEF At
  <1>8. /\ reportScenario' = reportScenario /\ policy' = policy /\ analyses' = analyses
        /\ Analysis' = Analysis /\ Generation' = Generation
        /\ summaries' = [summaries EXCEPT ![a] = row]
    BY <1>5, <1>7 DEF StoreSummary, Analysis, Generation
  <1>. DEFINE j == [at |-> "done", of |-> a]
  <1>9. generating' = [generating EXCEPT ![g] = j]
    BY <1>7 DEF StoreSummary
  <1>10. /\ generating' = [h \in Generation |-> generating'[h]]
         /\ \A h \in Generation : generating'[h] = IF h = g THEN j ELSE generating[h]
    <2>. HIDE DEF j
    <2>. QED  BY <1>9 DEF ReportInv
  <1>11. \A h \in Generation : Sound(generating'[h])
    <2>1. Sound(j)
      BY DEF Sound
    <2>. HIDE DEF j
    <2>. QED  BY <1>10, <2>1 DEF ReportInv
  <1>12. (\A h \in Generation : Sound(generating[h]))'
    <2>1. \A x : Sound(x) => Sound(x)'
      BY <1>8, SoundLater DEF ReportInv
    <2>. QED  BY <1>8, <1>11, <2>1
  <1>13. /\ summaries' = [b \in Analysis |-> summaries'[b]]
         /\ \A b \in Analysis : summaries'[b] = IF b = a THEN row ELSE summaries[b]
    BY <1>8 DEF ReportInv
  <1>14. \A b \in Analysis : summaries'[b] # NoSummary => b <= analyses /\ Genuine(b, summaries'[b])
    <2>1. a <= analyses
      BY DEF ReportInv
    <2>. QED  BY <1>6, <1>13, <2>1 DEF ReportInv
  <1>15. (\A b \in Analysis :
            summaries[b] # NoSummary => b <= analyses /\ Genuine(b, summaries[b]))'
    BY <1>8, <1>14, GenuineLater DEF NoSummary
  <1>. QED  BY <1>8, <1>10, <1>12, <1>13, <1>15 DEF ReportInv

LEMMA FailGenerationKeeps ==
  ASSUME ReportInv, NEW g \in Generation, FailGeneration(g)
  PROVE  ReportInv'
  <1>1. generating[g].of \in 1 .. analyses
    BY Standing DEF ReportInv, FailGeneration
  <1>. DEFINE j == [at |-> "failed", of |-> generating[g].of]
  <1>2. Sound(j)
    BY <1>1 DEF Sound
  <1>3. generating' = [generating EXCEPT ![g] = j]
    BY DEF FailGeneration
  <1>. HIDE DEF j
  <1>. QED  BY <1>2, <1>3, JobMoves DEF FailGeneration

LEMMA BegunKeeps ==
  ASSUME ReportInv, NEW g \in Generation, NEW a \in 1 .. analyses, generating' = Begun(g, a),
         UNCHANGED <<reportScenario, policy, analyses, summaries>>
  PROVE  ReportInv'
  <1>. DEFINE j == [at |-> "begun", of |-> a]
  <1>1. Sound(j)
    BY BegunIsSound
  <1>2. generating' = [generating EXCEPT ![g] = j]
    BY DEF Begun
  <1>. HIDE DEF j
  <1>. QED  BY <1>1, <1>2, JobMoves

(* Neither rows nor jobs move; the routing and the plan may, and analyses  *)
(* may be added.                                                           *)
LEMMA NothingMoves ==
  ASSUME ReportInv, policy' \in reportScenario.policies,
         analyses' \in Nat, analyses <= analyses', analyses' <= reportScenario.analyses,
         UNCHANGED <<reportScenario, summaries, generating>>
  PROVE  ReportInv'
  <1>1. /\ reportScenario' = reportScenario /\ summaries' = summaries /\ generating' = generating
        /\ Analysis' = Analysis /\ Generation' = Generation
    BY DEF Analysis, Generation
  <1>2. (\A h \in Generation : Sound(generating[h]))'
    <2>1. \A x : Sound(x) => Sound(x)'
      BY SoundLater DEF ReportInv
    <2>. QED  BY <1>1, <2>1 DEF ReportInv
  <1>3. \A b \in Analysis : summaries[b] # NoSummary => b <= analyses'
    BY DEF ReportInv, Analysis
  <1>4. (\A b \in Analysis :
            summaries[b] # NoSummary => b <= analyses /\ Genuine(b, summaries[b]))'
    BY <1>1, <1>3, GenuineLater DEF NoSummary, ReportInv
  <1>. QED  BY <1>1, <1>2, <1>4 DEF ReportInv

(* Every step of the reports.                                              *)
LEMMA ReportStep ==
  ASSUME ReportInv, ReportNext
  PROVE  ReportInv'
  <1>1. CASE SetDefaultProvider
    BY <1>1, NothingMoves DEF SetDefaultProvider, ReportInv
  <1>2. CASE ChangePlan
    BY <1>2, NothingMoves DEF ChangePlan, ReportInv
  <1>3. CASE FinishAnalysis
    <2>1. policy' \in reportScenario.policies /\ analyses \in Nat
      BY <1>3 DEF FinishAnalysis, ReportInv
    <2>2. reportScenario.analyses \in Nat
      BY ReportAssumption DEF ReportInv
    <2>3. analyses' \in Nat /\ analyses <= analyses' /\ analyses' <= reportScenario.analyses
      BY <1>3, <2>1, <2>2 DEF FinishAnalysis, Analysis
    <2>. QED  BY <1>3, <2>1, <2>3, NothingMoves DEF FinishAnalysis
  <1>4. ASSUME NEW g \in Generation, GenerateElsewhere(g) PROVE ReportInv'
    BY <1>4, BegunKeeps DEF GenerateElsewhere
  <1>5. ASSUME NEW g \in Generation, GenerationStep(g) PROVE ReportInv'
    BY <1>5, BuildSnapshotKeeps, AnswerModelKeeps, RefuseModelKeeps, StoreSummaryKeeps,
       FailGenerationKeeps, Zenon DEF GenerationStep
  <1>. QED  BY <1>1, <1>2, <1>3, <1>4, <1>5 DEF ReportNext

(* At first, the row there may be is that of the first provider.           *)
LEMMA ReportStart ==
  ASSUME ReportInit
  PROVE  ReportInv
  <1>1. /\ reportScenario \in ReportScenarios /\ policy \in reportScenario.policies
        /\ analyses \in {0, 1} /\ reportScenario.analyses \in Nat \ {0}
        /\ policy \in AiProvider
    BY ReportAssumption DEF ReportInit
  <1>. DEFINE o == ProviderOrder(policy)
  <1>2. 1 \in DOMAIN o /\ TriesBefore(o, FirstFrom(o, 1), 1) = {}
    BY <1>1, NothingBefore
  <1>3. ASSUME analyses = 1 PROVE Genuine(analyses, Earlier)
    <2>1. FirstFrom(o, 1) \in DOMAIN o /\ 1 \in DOMAIN Models(o[FirstFrom(o, 1)])
      BY <1>1, <1>2, First
    <2>2. AskFrom(analyses, o, 1, {}) = At("ask", analyses, policy, FirstFrom(o, 1), 1)
      BY <1>2 DEF AskFrom, At
    <2>. QED  BY <1>1, <1>3, <2>1, <2>2, PlacedIsGenuine DEF Earlier
  <1>4. /\ summaries = [a \in Analysis |-> summaries[a]]
        /\ \A a \in Analysis : summaries[a] # NoSummary => a = analyses /\ summaries[a] = Earlier
    <2>1. CASE summaries = [a \in Analysis |-> NoSummary]
      BY <2>1
    <2>2. CASE summaries = [a \in Analysis |-> IF a = analyses THEN Earlier ELSE NoSummary]
      BY <2>2
    <2>. QED  BY <2>1, <2>2 DEF ReportInit
  <1>5. \A a \in Analysis : summaries[a] # NoSummary => a <= analyses /\ Genuine(a, summaries[a])
    <2>. SUFFICES ASSUME NEW a \in Analysis, summaries[a] # NoSummary
                  PROVE  a <= analyses /\ Genuine(a, summaries[a])
      OBVIOUS
    <2>1. a = analyses /\ summaries[a] = Earlier
      BY <1>4
    <2>2. analyses = 1
      BY <1>1, <2>1 DEF Analysis
    <2>3. Genuine(analyses, Earlier)
      BY <1>3, <2>2
    <2>. QED  BY <1>1, <2>1, <2>3
  <1>6. /\ generating = [g \in Generation |-> generating[g]]
        /\ \A g \in Generation : Sound(generating[g])
    BY DEF ReportInit, Sound
  <1>. QED  BY <1>1, <1>4, <1>5, <1>6 DEF ReportInv

-----------------------------------------------------------------------------
(* The page                                                                *)

(* A page by its fields; a change of one leaves the others as they are.    *)
LEMMA Fields ==
  ASSUME NEW d, Page(d), NEW x
  PROVE  /\ \A y : (y = [d EXCEPT !.summary = x] \/ y = [d EXCEPT !.features = x] \/
                   y = [d EXCEPT !.follows = x]) => Page(y)
         /\ x \in 0 .. analyses => Page([d EXCEPT !.told = x])
         /\ Page([Reset(d) EXCEPT !.lang = x])
         /\ x \in 0 .. analyses => Page([Reset(d) EXCEPT !.selected = x, !.follows = None])
  BY DEF Page, Reset

LEMMA PageIsOpen ==
  ASSUME NEW d, Page(d)
  PROVE  d.open /\ d # Closed
  <1>1. d.open
    BY DEF Page
  <1>2. "selected" \in DOMAIN d /\ "selected" \notin DOMAIN Closed
    BY DEF Page, Closed
  <1>. QED  BY <1>1, <1>2

LEMMA Selected ==
  ASSUME NEW d, Page(d), NEW a \in 0 .. analyses, SelectIn(d, a)
  PROVE  Page(dash')
  BY Fields DEF SelectIn

(* While nothing is being saved, a step that renders nothing keeps the     *)
(* invariant of the page by its other parts.                               *)
LEMMA PageStep ==
  ASSUME DashInv, exporting = Refused, exporting' = exporting, UNCHANGED reportVars,
         \/ dash' = Closed /\ fetches' = <<>> /\ opening' = {} /\ loading' = NoRequest /\
            starting' = NoRequest
         \/ Page(dash'),
         loading' # NoRequest =>
           (loading'.answered /\ loading'.at = "results" => loading'.read \in 0 .. analyses),
         opening' \subseteq 0 .. analyses,
         starting' # NoRequest => starting'.of \in 1 .. analyses
  PROVE  DashInv'
  <1>1. analyses' = analyses
    BY DEF reportVars
  <1>2. Page(dash') => Page(dash)' /\ dash' # Closed
    BY <1>1, PageIsOpen DEF Page
  <1>3. exporting'.variant # "ai-summary"
    BY DEF Refused
  <1>. QED  BY <1>1, <1>2, <1>3 DEF DashInv, NoRequest, Closed

LEMMA OpenDashboardKeeps ==
  ASSUME DashboardInv, exporting = Refused, OpenDashboard
  PROVE  DashInv'
  <1>1. analyses \in Nat /\ 0 \in 0 .. analyses /\ analyses \in 0 .. analyses
    BY DEF DashboardInv, ReportInv
  <1>2. Page(dash')
    BY <1>1 DEF OpenDashboard, Page, None
  <1>3. ~ loading'.answered /\ opening' = opening /\ starting' = starting /\ exporting' = exporting
    BY DEF OpenDashboard
  <1>4. UNCHANGED reportVars
    BY DEF OpenDashboard
  <1>5. DashInv
    BY DEF DashboardInv
  <1>6. opening \subseteq 0 .. analyses /\ (starting # NoRequest => starting.of \in 1 .. analyses)
    BY <1>5 DEF DashInv
  <1>. QED  BY <1>2, <1>3, <1>4, <1>5, <1>6, PageStep

LEMMA CloseDashboardKeeps ==
  ASSUME DashboardInv, exporting = Refused, CloseDashboard
  PROVE  DashInv'
  BY PageStep DEF DashboardInv, CloseDashboard

LEMMA ReadLoadingKeeps ==
  ASSUME DashboardInv, exporting = Refused, ReadLoading
  PROVE  DashInv'
  <1>1. DashInv /\ analyses \in Nat
    BY DEF DashboardInv, ReportInv
  <1>2. loading # NoRequest /\ Page(dash)
    BY <1>1 DEF ReadLoading, DashInv
  <1>3. PICK ok \in BOOLEAN :
          loading' = [at |-> loading.at, answered |-> TRUE, ok |-> ok, read |->
            CASE loading.at = "results" -> analyses
              [] loading.at = "billing" -> Features[plan]
              [] OTHER                  -> IF language = "ru" THEN "ru" ELSE "en"]
    BY DEF ReadLoading
  <1>4. loading'.at = "results" => loading'.read = analyses
    BY <1>3
  <1>. QED  BY <1>1, <1>2, <1>4, PageStep DEF ReadLoading, DashInv

LEMMA ReceiveResultsKeeps ==
  ASSUME DashboardInv, exporting = Refused, ReceiveResults
  PROVE  DashInv'
  <1>1. DashInv /\ analyses' = analyses
    BY DEF DashboardInv, ReceiveResults, reportVars
  <1>2. loading # NoRequest /\ loading.answered /\ loading.at = "results" /\ Page(dash)
    BY <1>1 DEF ReceiveResults, Arrived, DashInv
  <1>3. Page(dash')
    BY <1>1, <1>2, Selected DEF ReceiveResults, Select, DashInv
  <1>. QED  BY <1>1, <1>3, PageStep DEF ReceiveResults, AskNext, DashInv

LEMMA ReceiveBillingKeeps ==
  ASSUME DashboardInv, exporting = Refused, ReceiveBilling
  PROVE  DashInv'
  <1>1. DashInv /\ loading # NoRequest /\ Page(dash)
    BY DEF DashboardInv, ReceiveBilling, Arrived, DashInv
  <1>2. Page(dash')
    BY <1>1, Fields DEF ReceiveBilling
  <1>. QED  BY <1>1, <1>2, PageStep DEF ReceiveBilling, AskNext, DashInv

LEMMA ReceivePreferencesKeeps ==
  ASSUME DashboardInv, exporting = Refused, ReceivePreferences
  PROVE  DashInv'
  <1>1. DashInv /\ loading # NoRequest /\ Page(dash)
    BY DEF DashboardInv, ReceivePreferences, Arrived, DashInv
  <1>2. Page(dash')
    <2>1. \A lang : Page([Reset(dash) EXCEPT !.lang = lang])
      BY <1>1, Fields
    <2>2. CASE dash' = dash
      BY <1>1, <2>2
    <2>3. CASE dash' = [Reset(dash) EXCEPT !.lang = loading.read]
      BY <2>1, <2>3, Zenon
    <2>. QED  BY <2>2, <2>3, Zenon DEF ReceivePreferences, PreferLanguage
  <1>. QED  BY <1>1, <1>2, PageStep DEF ReceivePreferences, DashInv

LEMMA OpenHistoricalResultKeeps ==
  ASSUME DashboardInv, exporting = Refused, OpenHistoricalResult
  PROVE  DashInv'
  <1>1. DashInv /\ dash.open
    BY DEF DashboardInv, OpenHistoricalResult
  <1>2. Page(dash)
    BY <1>1 DEF DashInv, Closed
  <1>3. opening' \subseteq 0 .. analyses
    BY <1>1 DEF OpenHistoricalResult, DashInv
  <1>. QED  BY <1>1, <1>2, <1>3, PageStep DEF OpenHistoricalResult, DashInv

LEMMA ReceiveResultKeeps ==
  ASSUME DashboardInv, exporting = Refused, ReceiveResult
  PROVE  DashInv'
  <1>1. DashInv /\ analyses \in Nat
    BY DEF DashboardInv, ReportInv
  <1>2. PICK a \in opening :
          /\ opening' = opening \ {a}
          /\ Select(IF a = None THEN analyses ELSE a) \/ UNCHANGED <<dash, fetches>>
    BY DEF ReceiveResult
  <1>3. Page(dash)
    BY <1>1, <1>2 DEF DashInv
  <1>4. (IF a = None THEN analyses ELSE a) \in 0 .. analyses
    BY <1>1, <1>2 DEF DashInv
  <1>5. Page(dash')
    BY <1>2, <1>3, <1>4, Selected DEF Select
  <1>. QED  BY <1>1, <1>2, <1>5, PageStep DEF ReceiveResult, DashInv

LEMMA ReceiveAnalysisKeeps ==
  ASSUME DashboardInv, exporting = Refused, ReceiveAnalysis
  PROVE  DashInv'
  <1>1. DashInv /\ analyses \in Nat /\ dash.open
    BY DEF DashboardInv, ReportInv, ReceiveAnalysis
  <1>2. Page(dash)
    BY <1>1 DEF DashInv, Closed
  <1>. DEFINE a == dash.told + 1
              d == [dash EXCEPT !.told = a]
  <1>3. a \in 0 .. analyses
    BY <1>1, <1>2 DEF ReceiveAnalysis, Page
  <1>4. Page(d)
    BY <1>2, <1>3, Fields
  <1>5. Page(dash')
    BY <1>3, <1>4, Selected DEF ReceiveAnalysis
  <1>6. None \in 0 .. analyses
    BY <1>1 DEF None
  <1>. QED  BY <1>1, <1>5, <1>6, PageStep DEF ReceiveAnalysis, DashInv

LEMMA FetchKeeps ==
  ASSUME DashboardInv, exporting = Refused, NEW i \in DOMAIN fetches, ReadSummary(i) \/ ReceiveSummary(i)
  PROVE  DashInv'
  <1>1. DashInv
    BY DEF DashboardInv
  <1>2. Page(dash)
    <2>1. fetches # <<>>
      OBVIOUS
    <2>. QED  BY <1>1, <2>1 DEF DashInv
  <1>3. Page(dash')
    BY <1>2, Fields DEF ReadSummary, ReceiveSummary
  <1>. QED  BY <1>1, <1>3, PageStep DEF ReadSummary, ReceiveSummary, DashInv

LEMMA ClickGenerateKeeps ==
  ASSUME DashboardInv, exporting = Refused, ClickGenerate
  PROVE  DashInv'
  <1>1. DashInv /\ dash.open
    BY DEF DashboardInv, ClickGenerate
  <1>2. Page(dash)
    BY <1>1 DEF DashInv, Closed
  <1>3. starting'.of \in 1 .. analyses
    BY <1>2 DEF ClickGenerate, Page, None
  <1>. QED  BY <1>1, <1>2, <1>3, PageStep DEF ClickGenerate, DashInv

LEMMA FollowKeeps ==
  ASSUME DashboardInv, exporting = Refused, NEW g \in Generation, RestoreReportJob(g) \/ ReportJobEnds(g)
  PROVE  DashInv'
  <1>1. DashInv /\ dash.open
    BY DEF DashboardInv, RestoreReportJob, ReportJobEnds
  <1>2. Page(dash)
    BY <1>1 DEF DashInv, Closed
  <1>3. Page(dash')
    BY <1>2, Fields DEF RestoreReportJob, ReportJobEnds
  <1>. QED  BY <1>1, <1>3, PageStep DEF RestoreReportJob, ReportJobEnds, DashInv

(* The only step of the page that moves a job.                             *)
LEMMA PostGenerateKeeps ==
  ASSUME DashboardInv, exporting = Refused, NEW g \in Generation, PostGenerate(g)
  PROVE  ReportInv' /\ DashInv'
  <1>1. ReportInv /\ DashInv /\ analyses' = analyses
    BY DEF DashboardInv, PostGenerate
  <1>2. starting.of \in 1 .. analyses /\ Page(dash)
    BY <1>1 DEF PostGenerate, DashInv
  <1>3. ReportInv'
    <2>1. CASE generating' = Begun(g, starting.of)
      BY <1>1, <1>2, <2>1, BegunKeeps DEF PostGenerate
    <2>2. CASE UNCHANGED generating
      BY <1>1, <2>2, NothingMoves DEF PostGenerate, ReportInv
    <2>. QED  BY <2>1, <2>2 DEF PostGenerate
  <1>4. Page(dash')
    BY <1>2, Fields DEF PostGenerate
  <1>5. Page(dash)' /\ dash' # Closed
    BY <1>1, <1>4, PageIsOpen DEF Page
  <1>6. exporting'.variant # "ai-summary"
    BY DEF PostGenerate, Refused
  <1>7. loading' = loading /\ opening' = opening /\ starting' = NoRequest
    BY DEF PostGenerate
  <1>8. DashInv'
    BY <1>1, <1>5, <1>6, <1>7 DEF DashInv, NoRequest, Closed
  <1>. QED  BY <1>3, <1>8

(* What is rendered is the row, which is genuine.                          *)
LEMMA ClickExportKeeps ==
  ASSUME DashboardInv, NEW format, NEW variant, ClickExport(format, variant)
  PROVE  DashInv'
  <1>1. ReportInv /\ DashInv /\ dash.open
    BY DEF DashboardInv, ClickExport
  <1>2. Page(dash)
    BY <1>1 DEF DashInv, Closed
  <1>3. dash.selected \in Analysis
    <2>1. reportScenario.analyses \in Nat /\ analyses \in Nat
      BY <1>1, ReportAssumption DEF ReportInv
    <2>. QED  BY <1>1, <1>2, <2>1 DEF ClickExport, Page, None, ReportInv, Analysis
  <1>. DEFINE a == dash.selected
              row == summaries[a]
  <1>4. \/ exporting' \in {Refused, SnapshotFile(a)}
        \/ exporting' = SummaryFile(a, row) /\ row # NoSummary
    BY DEF ClickExport, Exported, Rendered
  <1>5. exporting'.variant = "ai-summary" => Genuine(exporting'.of, exporting'.summary)
    <2>1. row # NoSummary => Genuine(a, row)
      BY <1>1, <1>3 DEF ReportInv
    <2>. QED  BY <1>4, <2>1 DEF Refused, SnapshotFile, SummaryFile
  <1>6. /\ dash' = dash /\ loading' = loading /\ opening' = opening /\ starting' = starting
        /\ analyses' = analyses /\ reportScenario' = reportScenario
    BY DEF ClickExport, reportVars
  <1>7. (exporting.variant = "ai-summary" => Genuine(exporting.of, exporting.summary))'
    <2>1. \A b, r : Genuine(b, r) => Genuine(b, r)'
      BY <1>6, GenuineLater
    <2>. QED  BY <1>5, <2>1
  <1>8. Page(dash)' /\ dash' # Closed
    BY <1>2, <1>6, PageIsOpen DEF Page
  <1>. QED  BY <1>1, <1>6, <1>7, <1>8 DEF DashInv, NoRequest, Closed

-----------------------------------------------------------------------------
(* The theorems                                                            *)

LEMMA DashStepKeeps ==
  ASSUME DashboardInv, exporting = Refused, DashStep
  PROVE  DashboardInv'
  <1>1. ReportInv /\ DashInv
    BY DEF DashboardInv
  <1>2. ASSUME UNCHANGED reportVars PROVE ReportInv'
    <2>1. policy' \in reportScenario.policies /\ analyses' \in Nat /\
          analyses <= analyses' /\ analyses' <= reportScenario.analyses
      BY <1>1, <1>2 DEF reportVars, ReportInv
    <2>2. UNCHANGED <<reportScenario, summaries, generating>>
      BY <1>2 DEF reportVars
    <2>. QED  BY <1>1, <2>1, <2>2, NothingMoves
  <1>3. CASE OpenDashboard
    BY <1>2, <1>3, OpenDashboardKeeps DEF DashboardInv, OpenDashboard
  <1>4. CASE CloseDashboard
    BY <1>2, <1>4, CloseDashboardKeeps DEF DashboardInv, CloseDashboard
  <1>5. CASE ReadLoading
    BY <1>2, <1>5, ReadLoadingKeeps DEF DashboardInv, ReadLoading
  <1>6. CASE ReceiveResults
    BY <1>2, <1>6, ReceiveResultsKeeps DEF DashboardInv, ReceiveResults
  <1>7. CASE ReceiveBilling
    BY <1>2, <1>7, ReceiveBillingKeeps DEF DashboardInv, ReceiveBilling
  <1>8. CASE ReceivePreferences
    BY <1>2, <1>8, ReceivePreferencesKeeps DEF DashboardInv, ReceivePreferences
  <1>9. CASE OpenHistoricalResult
    BY <1>2, <1>9, OpenHistoricalResultKeeps DEF DashboardInv, OpenHistoricalResult
  <1>10. CASE ReceiveResult
    <2>1. UNCHANGED reportVars
      BY <1>10 DEF ReceiveResult
    <2>. QED  BY <1>2, <1>10, <2>1, ReceiveResultKeeps DEF DashboardInv
  <1>11. CASE ReceiveAnalysis
    <2>1. UNCHANGED reportVars
      BY <1>11 DEF ReceiveAnalysis
    <2>. QED  BY <1>2, <1>11, <2>1, ReceiveAnalysisKeeps DEF DashboardInv
  <1>12. ASSUME NEW i \in DOMAIN fetches, ReadSummary(i) \/ ReceiveSummary(i)
         PROVE  DashboardInv'
    <2>1. UNCHANGED reportVars
      BY <1>12 DEF ReadSummary, ReceiveSummary
    <2>. QED  BY <1>2, <1>12, <2>1, FetchKeeps DEF DashboardInv
  <1>13. CASE ClickGenerate
    BY <1>2, <1>13, ClickGenerateKeeps DEF DashboardInv, ClickGenerate
  <1>14. ASSUME NEW g \in Generation, PostGenerate(g)
         PROVE  DashboardInv'
    BY <1>14, PostGenerateKeeps DEF DashboardInv
  <1>15. ASSUME NEW g \in Generation, RestoreReportJob(g) \/ ReportJobEnds(g)
         PROVE  DashboardInv'
    <2>1. UNCHANGED reportVars
      BY <1>15 DEF RestoreReportJob, ReportJobEnds
    <2>. QED  BY <1>2, <1>15, <2>1, FollowKeeps DEF DashboardInv
  <1>16. ASSUME NEW format, NEW variant, ClickExport(format, variant)
         PROVE  DashboardInv'
    BY <1>2, <1>16, ClickExportKeeps DEF DashboardInv, ClickExport
  <1>. QED
    BY <1>3, <1>4, <1>5, <1>6, <1>7, <1>8, <1>9, <1>10, <1>11, <1>12, <1>13, <1>14, <1>15,
       <1>16, Zenon DEF DashStep

(* A step of the reports is not seen by the page, whose analyses stay.     *)
LEMMA PageKeepsUp ==
  ASSUME DashboardInv, exporting = Refused, ReportNext, UNCHANGED dashVars
  PROVE  DashboardInv'
  <1>1. ReportInv /\ DashInv /\ ReportInv'
    BY ReportStep DEF DashboardInv
  <1>2. analyses \in Nat /\ analyses' \in Nat
    BY <1>1 DEF ReportInv
  <1>3. analyses' = analyses \/ analyses' = analyses + 1
    BY DEF ReportNext, SetDefaultProvider, ChangePlan, FinishAnalysis, GenerateElsewhere,
           GenerationStep, BuildSnapshot, AnswerModel, RefuseModel, StoreSummary, FailGeneration
  <1>4. 0 .. analyses \subseteq 0 .. analyses' /\ 1 .. analyses \subseteq 1 .. analyses'
    BY <1>2, <1>3
  <1>5. /\ dash' = dash /\ fetches' = fetches /\ opening' = opening /\ loading' = loading
        /\ starting' = starting /\ exporting' = exporting
    BY DEF dashVars
  <1>6. dash = Closed \/ Page(dash)'
    BY <1>1, <1>4, <1>5 DEF DashInv, Page
  <1>7. exporting'.variant # "ai-summary"
    BY <1>5 DEF Refused
  <1>8. DashInv'
    BY <1>1, <1>4, <1>5, <1>6, <1>7 DEF DashInv, NoRequest, Closed
  <1>. QED  BY <1>1, <1>8 DEF DashboardInv

LEMMA SaveExportKeeps ==
  ASSUME DashboardInv, SaveExport
  PROVE  DashboardInv'
  <1>1. ReportInv /\ DashInv
    BY DEF DashboardInv
  <1>2. /\ dash' = dash /\ fetches' = fetches /\ opening' = opening /\ loading' = loading
        /\ starting' = starting /\ analyses' = analyses /\ policy' = policy
        /\ UNCHANGED <<reportScenario, summaries, generating>>
    BY DEF SaveExport, reportVars
  <1>3. ReportInv'
    <2>1. policy' \in reportScenario.policies /\ analyses' \in Nat /\
          analyses <= analyses' /\ analyses' <= reportScenario.analyses
      BY <1>1, <1>2 DEF ReportInv
    <2>. QED  BY <1>1, <1>2, <2>1, NothingMoves
  <1>4. exporting'.variant # "ai-summary"
    BY DEF SaveExport, Refused
  <1>5. DashInv'
    BY <1>1, <1>2, <1>4 DEF DashInv, NoRequest, Closed, Page
  <1>. QED  BY <1>3, <1>5 DEF DashboardInv

LEMMA Unchanged ==
  ASSUME DashboardInv, UNCHANGED <<dashVars, reportVars>>
  PROVE  DashboardInv'
  <1>1. ReportInv /\ DashInv
    BY DEF DashboardInv
  <1>2. ReportInv'
    <2>1. policy' \in reportScenario.policies /\ analyses' \in Nat /\
          analyses <= analyses' /\ analyses' <= reportScenario.analyses
      BY <1>1 DEF reportVars, ReportInv
    <2>2. UNCHANGED <<reportScenario, summaries, generating>>
      BY DEF reportVars
    <2>. QED  BY <1>1, <2>1, <2>2, NothingMoves
  <1>3. /\ dash' = dash /\ fetches' = fetches /\ opening' = opening /\ loading' = loading
        /\ starting' = starting /\ analyses' = analyses /\ exporting' = exporting
        /\ reportScenario' = reportScenario
    BY DEF dashVars, reportVars
  <1>4. (exporting.variant = "ai-summary" => Genuine(exporting.of, exporting.summary))'
    <2>1. \A b, r : Genuine(b, r) => Genuine(b, r)'
      BY <1>3, GenuineLater
    <2>. QED  BY <1>1, <1>3, <2>1 DEF DashInv
  <1>5. DashInv'
    BY <1>1, <1>3, <1>4 DEF DashInv, NoRequest, Closed, Page
  <1>. QED  BY <1>2, <1>5 DEF DashboardInv

(* The invariant of the reports and of the page holds throughout.          *)
THEOREM DashboardInvariant == DashSpec => []DashboardInv
  <1>1. DashInit => DashboardInv
    <2>. SUFFICES ASSUME DashInit PROVE DashboardInv
      OBVIOUS
    <2>1. ReportInv
      BY ReportStart DEF DashInit
    <2>2. DashInv
      BY DEF DashInit, DashInv, Refused
    <2>. QED  BY <2>1, <2>2 DEF DashboardInv
  <1>2. DashboardInv /\ [DashNext]_<<dashVars, reportVars>> => DashboardInv'
    BY DashStepKeeps, PageKeepsUp, SaveExportKeeps, Unchanged, Zenon DEF DashNext
  <1>. QED  BY <1>1, <1>2, PTL DEF DashSpec

(* DashTypeOK: a job that asks is at a model there is, a row is of an      *)
(* analysis there is, and so is what the page shows; a page that is closed *)
(* waits for nothing (Reports and Dashboard).                              *)
THEOREM DashboardTypes == DashSpec => []DashTypeOK
  <1>1. DashboardInv => DashTypeOK
    <2>. SUFFICES ASSUME DashboardInv PROVE DashTypeOK
      OBVIOUS
    <2>1. ReportInv /\ DashInv
      BY DEF DashboardInv
    <2>2. analyses \in {0} \cup Analysis
      <3>1. reportScenario.analyses \in Nat
        BY <2>1, ReportAssumption DEF ReportInv
      <3>. QED  BY <2>1, <3>1 DEF ReportInv, Analysis
    <2>3. \A a \in Analysis : summaries[a] # NoSummary => a <= analyses
      BY <2>1 DEF ReportInv
    <2>4. ASSUME NEW g \in Generation, NEW j, j = generating[g], j.at = "ask"
          PROVE  j.provider \in DOMAIN j.order /\ j.chain \in DOMAIN Models(j.order[j.provider])
      <3>1. Placed(j)
        BY <2>1, <2>4, Standing DEF ReportInv
      <3>. QED  BY <3>1 DEF Placed, At
    <2>5. ReportTypeOK
      BY <2>2, <2>3, <2>4 DEF ReportTypeOK, Asking
    <2>6. dash.open => dash.selected <= analyses /\ dash.told <= analyses
      BY <2>1 DEF DashInv, Closed, Page, ReportInv
    <2>7. ~ dash.open => fetches = <<>> /\ opening = {} /\ loading = NoRequest
      BY <2>1 DEF DashInv, Page
    <2>. QED  BY <2>5, <2>6, <2>7 DEF DashTypeOK
  <1>. QED  BY <1>1, DashboardInvariant, PTL

(* However many jobs generate at once, however long the chains are, and    *)
(* however the routing and the plans change, an export of the variant      *)
(* "ai-summary" holds a genuine summary of the analysis it is an export of *)
(* (reports.service.ts, getHtml and getPdf).                               *)
THEOREM ExportsAreGenuine == DashSpec => []ExportedSummaryIsGenuine
  <1>1. DashboardInv => ExportedSummaryIsGenuine
    BY DEF DashboardInv, DashInv, ExportedSummaryIsGenuine
  <1>. QED  BY <1>1, DashboardInvariant, PTL

-----------------------------------------------------------------------------
(* The inductive invariant of the preferences                              *)

(* What the header patches, and what the form does.                        *)
ThemePatch == [theme : Theme, country : {Absent}, city : {Absent}]
FullPatch == [theme : Theme, country : TargetCountry \cup {Unset},
              city : TargetCity \cup {Unset}]

(* What a request has been checked for, and what its answer says.          *)
Fits(q) ==
  /\ q.patch = NoPatch \/ q.patch \in ThemePatch \/ q.patch \in FullPatch
  /\ q.asker = "header" => q.patch = NoPatch
  /\ q.at \in {"checked", "answered"} => stored # NoRow
  /\ q.at = "checked" => q.patch # NoPatch
  /\ q.at = "checked" /\ q.patch \in FullPatch => MayStore(q.patch)
  /\ q.at = "answered" /\ q.patch # NoPatch => q.answer.theme = q.patch.theme

RequestsFit == \A r \in Sending : sending[r] # NotSent => Fits(sending[r])

(* A header that waits, waits for a request of its own.                    *)
HeadersWait ==
  \A b \in Browser : header[b] \in Sending =>
    /\ sending[header[b]] # NotSent
    /\ sending[header[b]].from = b /\ sending[header[b]].asker = "header"

ChosenIsShown == \A b \in Browser : chosen[b] # Unset => scheme[b] = chosen[b]

(* A save is the last choice of its browser, and the only one under way;   *)
(* or nothing is claimed of that browser, and no answer will change that.  *)
SavesAgree ==
  \A b \in Browser :
    \/ Saves(b) \subseteq {saving[b]}
    \/ chosen[b] = Unset /\ saving[b] \notin Saves(b)

(* What may be under way after the last browser was opened: its own answer *)
(* or its repair of the row, and what only reads.                          *)
Repairs(b, q) ==
  /\ q.at # "refused"
  /\ q.patch # NoPatch =>
       q.asker = "nobody" /\ q.patch \in ThemePatch /\ q.patch.theme = scheme[b]

(* The row has the theme of the last browser, or will have it.             *)
RowFollows(b) ==
  \/ stored.theme = Screen(b)
  \/ \E r \in Sending : /\ sending[r] # NotSent /\ sending[r].patch # NoPatch
                        /\ sending[r].at \in {"sent", "checked"}

LastIsRepaired ==
  \A b \in Browser : lastOpened = b =>
    /\ \A r \in Sending : sending[r] # NotSent => Repairs(b, sending[r])
    /\ \A c \in Browser \ {b} : header[c] \notin Sending
    /\ header[b] \in Sending =>
         /\ \A r \in Sending : sending[r] # NotSent => sending[r].patch = NoPatch
         /\ sending[header[b]].at = "answered" =>
              sending[header[b]].answer.theme = stored.theme
    /\ header[b] = Quiet => RowFollows(b)

PreferencesInv ==
  /\ PreferencesTypeOK /\ RequestsFit /\ HeadersWait /\ CityHasCountry
  /\ ChosenIsShown /\ SavesAgree /\ LastIsRepaired

-----------------------------------------------------------------------------
(* Records and patches                                                     *)

(* A free place is no request.                                             *)
LEMMA FreeIsNone == NotSent \notin Request
  BY DEF NotSent, Request

(* The three kinds of patches differ, and each is a patch.                 *)
LEMMA PatchKinds ==
  /\ NoPatch \in Patch /\ ThemePatch \subseteq Patch /\ FullPatch \subseteq Patch
  /\ NoPatch \notin ThemePatch /\ NoPatch \notin FullPatch
  /\ ThemePatch \cap FullPatch = {}
<1> USE PreferencesAssumption DEF NoPatch, ThemePatch, FullPatch, Patch, Theme, Absent, Unset
<1>1. NoPatch \in Patch /\ ThemePatch \subseteq Patch /\ FullPatch \subseteq Patch
  OBVIOUS
<1>2. NoPatch \notin ThemePatch /\ NoPatch \notin FullPatch
  OBVIOUS
<1>3. ThemePatch \cap FullPatch = {}
  OBVIOUS
<1> QED  BY <1>1, <1>2, <1>3

(* A row is not the lack of one, and the defaults are a row.               *)
LEMMA RowKinds == NoRow \notin Preference /\ Defaults \in Preference
  BY DEF NoRow, Defaults, Preference, Theme, Unset

(* A patched row is a row.                                                 *)
LEMMA PatchedIsRow ==
  ASSUME NEW p \in Preference, NEW patch \in Patch
  PROVE  Patched(p, patch) \in Preference
  BY PreferencesAssumption DEF Patched, Written, Preference, Patch, Theme, Absent, Unset

(* A theme is written without the place, and the form writes both parts.   *)
LEMMA ThemeAlone ==
  ASSUME NEW p \in Preference, NEW patch \in ThemePatch
  PROVE  /\ Patched(p, patch).theme = patch.theme
         /\ MayStore(Patched(p, patch)) <=> MayStore(p)
  BY DEF Patched, Written, ThemePatch, Theme, Absent, MayStore

LEMMA FormWritesAll ==
  ASSUME NEW p \in Preference, NEW patch \in FullPatch
  PROVE  /\ Patched(p, patch).theme = patch.theme
         /\ MayStore(Patched(p, patch)) <=> MayStore(patch)
  BY PreferencesAssumption DEF Patched, Written, FullPatch, Theme, Absent, Unset, MayStore

(* A patch that sets the theme alone.                                      *)
LEMMA ThemePatched ==
  ASSUME NEW t \in Theme
  PROVE  /\ [NoPatch EXCEPT !.theme = t] \in ThemePatch
         /\ [NoPatch EXCEPT !.theme = t].theme = t
  BY DEF NoPatch, ThemePatch

(* Drafts are made of rows, payloads of drafts.                            *)
LEMMA Drafts ==
  /\ EmptyDraft \in Draft
  /\ \A p \in Preference : ToDraft(p) \in Draft
  /\ \A d \in Draft : Payload(d) \in FullPatch
<1>1. EmptyDraft \in Draft
  BY DEF EmptyDraft, Draft, Theme
<1>2. ASSUME NEW p \in Preference PROVE ToDraft(p) \in Draft
  BY DEF ToDraft, Draft, Preference
<1>3. ASSUME NEW d \in Draft PROVE Payload(d) \in FullPatch
  BY DEF Payload, Draft, FullPatch
<1> QED  BY <1>1, <1>2, <1>3

(* What is sent is a request.                                              *)
LEMMA SentIsRequest ==
  ASSUME NEW b \in Browser, NEW a \in {"header", "form", "nobody"}, NEW patch \in Patch
  PROVE  /\ Sent(b, a, patch) \in Request
         /\ Sent(b, a, patch).at = "sent" /\ Sent(b, a, patch).from = b
         /\ Sent(b, a, patch).asker = a /\ Sent(b, a, patch).patch = patch
  BY RowKinds DEF Sent, Request

-----------------------------------------------------------------------------
(* Requests come and go                                                    *)

(* A request of a form, or one whose answer nobody waits for, is sent.     *)
LEMMA SendKeeps ==
  ASSUME PreferencesInv, NEW r \in Sending, NEW b \in Browser, NEW a \in {"form", "nobody"},
         NEW patch \in {NoPatch} \cup ThemePatch \cup FullPatch,
         sending[r] = NotSent, sending' = [sending EXCEPT ![r] = Sent(b, a, patch)],
         UNCHANGED <<stored, header>>
  PROVE  /\ sending' \in [Sending -> Request \cup {NotSent}]
         /\ RequestsFit' /\ HeadersWait'
         /\ \A q \in Sending \ {r} : sending'[q] = sending[q]
         /\ sending'[r].at = "sent" /\ sending'[r].asker = a /\ sending'[r].patch = patch
<1>1. patch \in Patch
  BY PatchKinds
<1>2. /\ sending'[r] \in Request /\ sending'[r].at = "sent" /\ sending'[r].asker = a
      /\ sending'[r].patch = patch
  BY <1>1, SentIsRequest DEF PreferencesInv, PreferencesTypeOK
<1>3. \A q \in Sending \ {r} : sending'[q] = sending[q]
  BY DEF PreferencesInv, PreferencesTypeOK
<1>4. sending' \in [Sending -> Request \cup {NotSent}]
  BY <1>1, SentIsRequest DEF PreferencesInv, PreferencesTypeOK
<1>5. RequestsFit'
  <2>1. ASSUME NEW q \in Sending \ {r}, sending'[q] # NotSent PROVE Fits(sending[q])'
    BY <2>1, <1>3 DEF PreferencesInv, RequestsFit, Fits
  <2>2. Fits(sending[r])'
    BY <1>2 DEF Fits
  <2> QED  BY <2>1, <2>2 DEF RequestsFit
<1>6. HeadersWait'
  <2>1. ASSUME NEW c \in Browser, header[c] \in Sending PROVE sending'[header[c]] = sending[header[c]]
    BY <2>1, <1>3 DEF PreferencesInv, HeadersWait
  <2> QED  BY <2>1 DEF PreferencesInv, HeadersWait
<1> QED  BY <1>2, <1>3, <1>4, <1>5, <1>6

(* A request is over, and no header waits for it.                          *)
LEMMA FreeKeeps ==
  ASSUME PreferencesInv, NEW r \in Sending, sending' = [sending EXCEPT ![r] = NotSent],
         UNCHANGED stored,
         \A c \in Browser : header'[c] \in {header[c], Quiet} /\ header'[c] # r
  PROVE  /\ sending' \in [Sending -> Request \cup {NotSent}]
         /\ RequestsFit' /\ HeadersWait'
         /\ sending'[r] = NotSent /\ \A q \in Sending \ {r} : sending'[q] = sending[q]
<1>1. sending'[r] = NotSent /\ \A q \in Sending \ {r} : sending'[q] = sending[q]
  BY DEF PreferencesInv, PreferencesTypeOK
<1>2. sending' \in [Sending -> Request \cup {NotSent}]
  BY DEF PreferencesInv, PreferencesTypeOK
<1>3. RequestsFit'
  BY <1>1 DEF PreferencesInv, RequestsFit, Fits
<1>4. HeadersWait'
  <2>1. ASSUME NEW c \in Browser, header'[c] \in Sending
        PROVE  header'[c] = header[c] /\ sending'[header'[c]] = sending[header[c]]
    BY <2>1, <1>1, PreferencesAssumption
  <2> QED  BY <2>1 DEF PreferencesInv, HeadersWait
<1> QED  BY <1>1, <1>2, <1>3, <1>4

(* A request moves on, asked by the same for the same.                     *)
LEMMA MoveKeeps ==
  ASSUME PreferencesInv, NEW r \in Sending, sending[r] # NotSent, NEW q \in Request,
         sending' = [sending EXCEPT ![r] = q],
         q.from = sending[r].from, q.asker = sending[r].asker, q.patch = sending[r].patch,
         stored # NoRow => stored' # NoRow, UNCHANGED header, Fits(q)'
  PROVE  /\ sending' \in [Sending -> Request \cup {NotSent}]
         /\ RequestsFit' /\ HeadersWait'
         /\ sending'[r] = q /\ \A p \in Sending \ {r} : sending'[p] = sending[p]
<1>1. sending'[r] = q /\ \A p \in Sending \ {r} : sending'[p] = sending[p]
  BY DEF PreferencesInv, PreferencesTypeOK
<1>2. sending' \in [Sending -> Request \cup {NotSent}]
  BY DEF PreferencesInv, PreferencesTypeOK
<1>3. RequestsFit'
  <2>1. ASSUME NEW p \in Sending \ {r}, sending'[p] # NotSent PROVE Fits(sending[p])'
    BY <2>1, <1>1 DEF PreferencesInv, RequestsFit, Fits
  <2>2. Fits(sending[r])'
    BY <1>1 DEF Fits
  <2> QED  BY <2>1, <2>2 DEF RequestsFit
<1>4. HeadersWait'
  BY <1>1, FreeIsNone DEF PreferencesInv, HeadersWait
<1> QED  BY <1>1, <1>2, <1>3, <1>4

(* Where no request becomes a save, what the history claims stays.         *)
LEMMA SavesStay ==
  ASSUME PreferencesInv, UNCHANGED <<chosen, saving>>,
         \A b \in Browser : \A q \in Sending : q \in Saves(b)' => q \in Saves(b)
  PROVE  SavesAgree'
<1>1. ASSUME NEW b \in Browser
      PROVE  \/ Saves(b)' \subseteq {saving'[b]}
             \/ chosen'[b] = Unset /\ saving'[b] \notin Saves(b)'
  <2>1. Saves(b)' \subseteq Sending
    BY DEF Saves
  <2>2. Saves(b)' \subseteq Saves(b)
    BY <2>1
  <2> QED  BY <2>2 DEF PreferencesInv, SavesAgree
<1> QED  BY <1>1 DEF SavesAgree

(* One request changes: it is no save, or was one of the same browser.     *)
LEMMA SavesRemain ==
  ASSUME PreferencesInv, UNCHANGED <<chosen, saving>>,
         NEW r \in Sending, \A q \in Sending \ {r} : sending'[q] = sending[q],
         \/ sending'[r] = NotSent \/ sending'[r].asker # "form" \/ sending'[r].patch = NoPatch
         \/ sending'[r].at = "refused"
         \/ /\ sending[r] # NotSent /\ sending[r].at # "refused"
            /\ sending'[r].from = sending[r].from /\ sending'[r].asker = sending[r].asker
            /\ sending'[r].patch = sending[r].patch
  PROVE  SavesAgree'
<1>1. ASSUME NEW b \in Browser, NEW q \in Sending, q \in Saves(b)' PROVE q \in Saves(b)
  <2>1. CASE q = r
    BY <1>1, <2>1 DEF Saves
  <2>2. CASE q # r
    BY <1>1, <2>2 DEF Saves
  <2> QED  BY <2>1, <2>2
<1> QED  BY <1>1, SavesStay

-----------------------------------------------------------------------------
(* The header                                                              *)

LEMMA OpenTabKeeps ==
  ASSUME PreferencesInv, NEW b \in Browser, OpenTab(b)
  PROVE  PreferencesInv'
<1>1. PICK r \in Sending, loads \in BOOLEAN :
        /\ header[b] # SignedOut => loads
        /\ sending[r] = NotSent
        /\ sending' = [q \in Sending |->
             IF q = r THEN Sent(b, "header", NoPatch)
             ELSE IF loads /\ sending[q] # NotSent /\ sending[q].from = b
                  THEN [sending[q] EXCEPT !.asker = "nobody"]
                  ELSE sending[q]]
        /\ header' = [header EXCEPT ![b] = r]
  BY DEF OpenTab
<1>2. /\ sending'[r] \in Request /\ sending'[r].at = "sent" /\ sending'[r].from = b
      /\ sending'[r].asker = "header" /\ sending'[r].patch = NoPatch
  BY <1>1, SentIsRequest, PatchKinds
<1>3. ASSUME NEW q \in Sending, q # r
      PROVE  \/ sending'[q] = sending[q]
             \/ /\ loads /\ sending[q] \in Request /\ sending[q].from = b
                /\ sending'[q] = [sending[q] EXCEPT !.asker = "nobody"]
                /\ sending'[q] \in Request
  <2>1. CASE loads /\ sending[q] # NotSent /\ sending[q].from = b
    <3>1. sending[q] \in Request
      BY <2>1 DEF PreferencesInv, PreferencesTypeOK
    <3>2. sending'[q] = [sending[q] EXCEPT !.asker = "nobody"]
      BY <1>1, <1>3, <2>1
    <3>3. sending'[q] \in Request
      BY <3>1, <3>2 DEF Request
    <3> QED  BY <2>1, <3>1, <3>2, <3>3
  <2>2. CASE ~(loads /\ sending[q] # NotSent /\ sending[q].from = b)
    BY <1>1, <1>3, <2>2
  <2> QED  BY <2>1, <2>2
<1>4. ASSUME NEW q \in Sending, q # r, sending'[q] # NotSent
      PROVE  /\ sending[q] # NotSent
             /\ sending'[q].at = sending[q].at /\ sending'[q].from = sending[q].from
             /\ sending'[q].patch = sending[q].patch
             /\ sending'[q].answer = sending[q].answer
             /\ sending'[q].asker \in {sending[q].asker, "nobody"}
             /\ sending[q].from # b => sending'[q] = sending[q]
  <2>1. CASE sending'[q] = sending[q]
    BY <2>1, <1>4
  <2>2. CASE /\ sending[q] \in Request /\ sending[q].from = b
             /\ sending'[q] = [sending[q] EXCEPT !.asker = "nobody"]
    BY <2>2, FreeIsNone DEF Request
  <2> QED  BY <2>1, <2>2, <1>3, <1>4
<1>5. PreferencesTypeOK'
  <2>1. sending' \in [Sending -> Request \cup {NotSent}]
    <3>1. ASSUME NEW q \in Sending PROVE sending'[q] \in Request \cup {NotSent}
      BY <1>2, <1>3 DEF PreferencesInv, PreferencesTypeOK
    <3> QED  BY <1>1, <3>1
  <2>2. form' \in [Browser -> [open : BOOLEAN, waits : Sending \cup {Quiet}, draft : Draft]]
    BY Drafts DEF PreferencesInv, PreferencesTypeOK, OpenTab, NoForm
  <2>3. budget' \in [{"signIns", "toggles", "forms", "edits", "failures"} -> Nat]
    BY DEF PreferencesInv, PreferencesTypeOK, OpenTab, Spend
  <2> QED  BY <2>1, <2>2, <2>3, <1>1 DEF PreferencesInv, PreferencesTypeOK, OpenTab
<1>6. RequestsFit'
  <2>1. ASSUME NEW q \in Sending, sending'[q] # NotSent, q # r PROVE Fits(sending[q])'
    <3>1. sending[q] # NotSent /\ Fits(sending[q]) /\ UNCHANGED stored
      BY <2>1, <1>4 DEF PreferencesInv, RequestsFit, OpenTab
    <3>2. /\ sending'[q].at = sending[q].at /\ sending'[q].patch = sending[q].patch
          /\ sending'[q].answer = sending[q].answer
          /\ sending'[q].asker \in {sending[q].asker, "nobody"}
      BY <2>1, <1>4
    <3> QED  BY <3>1, <3>2 DEF Fits
  <2>2. Fits(sending[r])'
    BY <1>2 DEF Fits
  <2> QED  BY <2>1, <2>2 DEF RequestsFit
<1>7. HeadersWait'
  <2>1. ASSUME NEW c \in Browser, header'[c] \in Sending, c # b
        PROVE  sending'[header'[c]] # NotSent /\ sending'[header'[c]].from = c
               /\ sending'[header'[c]].asker = "header"
    <3>1. header'[c] = header[c] /\ sending[header[c]] # NotSent
          /\ sending[header[c]].from = c /\ sending[header[c]].asker = "header"
      BY <2>1, <1>1 DEF PreferencesInv, HeadersWait, PreferencesTypeOK
    <3>2. header[c] \in Sending /\ header[c] # r
      BY <3>1, <2>1, <1>1
    <3>3. sending'[header[c]] = sending[header[c]]
      BY <3>1, <3>2, <2>1, <1>3
    <3> QED  BY <3>1, <3>3
  <2>2. header'[b] = r
    BY <1>1 DEF PreferencesInv, PreferencesTypeOK
  <2> QED  BY <2>1, <2>2, <1>2, FreeIsNone DEF HeadersWait
<1>8. CityHasCountry' /\ ChosenIsShown'
  BY DEF PreferencesInv, OpenTab, CityHasCountry, MayStore, ChosenIsShown
<1>9. LastIsRepaired'
  <2>1. SUFFICES ASSUME lastOpened' \in Browser
        PROVE  LastIsRepaired'
    BY DEF LastIsRepaired
  <2>2. lastOpened' = b /\ \A q \in Sending : sending[q] = NotSent
    BY <2>1, PreferencesAssumption DEF OpenTab
  <2>3. ASSUME NEW q \in Sending, q # r PROVE sending'[q] = NotSent
    BY <2>2, <2>3, <1>3, FreeIsNone
  <2>4. ASSUME NEW c \in Browser \ {b} PROVE header'[c] \notin Sending
    <3>1. header'[c] = header[c]
      BY <1>1 DEF PreferencesInv, PreferencesTypeOK
    <3> QED  BY <3>1, <2>2 DEF PreferencesInv, HeadersWait
  <2>5. header'[b] = r
    BY <1>1 DEF PreferencesInv, PreferencesTypeOK
  <2>6. header'[b] # Quiet
    BY <2>5, PreferencesAssumption
  <2>7. ASSUME NEW q \in Sending, sending'[q] # NotSent
        PROVE  Repairs(b, sending[q])' /\ sending'[q].patch = NoPatch
    BY <2>3, <2>7, <1>2 DEF Repairs
  <2> QED  BY <2>2, <2>4, <2>5, <2>6, <2>7, <1>2 DEF LastIsRepaired
<1>10. SavesAgree'
  <2>1. ASSUME NEW c \in Browser, NEW q \in Sending, q \in Saves(c)' PROVE q \in Saves(c)
    <3>1. q # r
      BY <2>1, <1>2 DEF Saves
    <3>2. sending'[q] # NotSent /\ sending'[q].from = c /\ sending'[q].asker = "form"
          /\ sending'[q].patch # NoPatch /\ sending'[q].at # "refused"
      BY <2>1 DEF Saves
    <3> QED  BY <3>1, <3>2, <1>4 DEF Saves
  <2>2. UNCHANGED <<chosen, saving>>
    BY DEF OpenTab
  <2> QED  BY <2>1, <2>2, SavesStay
<1> QED  BY <1>5, <1>6, <1>7, <1>8, <1>9, <1>10 DEF PreferencesInv

LEMMA SignOutKeeps ==
  ASSUME PreferencesInv, NEW b \in Browser, SignOut(b)
  PROVE  PreferencesInv'
<1>1. header' = [header EXCEPT ![b] = SignedOut] /\ header'[b] = SignedOut
  BY DEF PreferencesInv, PreferencesTypeOK, SignOut
<1>2. PreferencesTypeOK'
  <2>1. form' \in [Browser -> [open : BOOLEAN, waits : Sending \cup {Quiet}, draft : Draft]]
    BY Drafts DEF PreferencesInv, PreferencesTypeOK, SignOut, NoForm
  <2> QED  BY <2>1 DEF PreferencesInv, PreferencesTypeOK, SignOut
<1>3. RequestsFit' /\ CityHasCountry' /\ ChosenIsShown'
  BY DEF PreferencesInv, SignOut, RequestsFit, Fits, CityHasCountry, MayStore, ChosenIsShown
<1>4. HeadersWait'
  <2>1. ASSUME NEW c \in Browser, header'[c] \in Sending PROVE header'[c] = header[c]
    BY <2>1, <1>1, PreferencesAssumption DEF PreferencesInv, PreferencesTypeOK
  <2> QED  BY <2>1 DEF PreferencesInv, SignOut, HeadersWait
<1>5. LastIsRepaired'
  <2>1. SUFFICES ASSUME NEW c \in Browser, lastOpened = c
        PROVE  /\ \A r \in Sending : sending[r] # NotSent => Repairs(c, sending[r])'
               /\ \A d \in Browser \ {c} : header'[d] \notin Sending
               /\ header'[c] \in Sending => header'[c] = header[c]
               /\ header'[c] = Quiet => RowFollows(c)' /\ header[c] = Quiet
    BY DEF PreferencesInv, LastIsRepaired, SignOut
  <2>2. \A d \in Browser : header'[d] \in {header[d], SignedOut}
    BY <1>1 DEF PreferencesInv, PreferencesTypeOK
  <2>3. \A d \in Browser \ {c} : header'[d] \notin Sending
    BY <2>1, <2>2, PreferencesAssumption DEF PreferencesInv, LastIsRepaired
  <2>4. header'[c] \in Sending => header'[c] = header[c]
    BY <2>2, PreferencesAssumption
  <2>5. header'[c] = Quiet => header[c] = Quiet
    BY <2>2 DEF Quiet, SignedOut
  <2>6. \A r \in Sending : sending[r] # NotSent => Repairs(c, sending[r])'
    BY <2>1 DEF PreferencesInv, LastIsRepaired, Repairs, SignOut
  <2>7. header[c] = Quiet => RowFollows(c)'
    BY <2>1 DEF PreferencesInv, LastIsRepaired, RowFollows, Screen, SignOut
  <2> QED  BY <2>3, <2>4, <2>5, <2>6, <2>7
<1>6. SavesAgree'
  BY DEF PreferencesInv, SignOut, SavesAgree, Saves
<1> QED  BY <1>2, <1>3, <1>4, <1>5, <1>6 DEF PreferencesInv

(* Local storage wins: the browser repairs the row, or takes its theme.    *)
LEMMA HeaderAnsweredKeeps ==
  ASSUME PreferencesInv, NEW r \in Sending, HeaderAnswered(r)
  PROVE  PreferencesInv'
<1>0. sending[r] \in Request
  BY DEF PreferencesInv, PreferencesTypeOK, HeaderAnswered, NotSent
<1>1. PICK b \in Browser, theme \in Theme :
        /\ b = sending[r].from /\ theme = sending[r].answer.theme
        /\ sending[r].at = "answered" /\ sending[r].asker = "header" /\ header[b] = r
        /\ header' = [header EXCEPT ![b] = Quiet]
        /\ scheme' = [scheme EXCEPT ![b] = IF @ = Unset THEN theme ELSE @]
        /\ sending' = [sending EXCEPT ![r] =
             IF scheme[b] \in {Unset, theme} THEN NotSent
             ELSE Sent(b, "nobody", [NoPatch EXCEPT !.theme = scheme[b]])]
        /\ UNCHANGED <<stored, form, budget, chosen, saving, lastOpened>>
  BY <1>0 DEF HeaderAnswered, Request, Preference
<1>2. Fits(sending[r])
  BY <1>0, FreeIsNone DEF PreferencesInv, RequestsFit
<1>3. /\ header'[b] = Quiet /\ \A c \in Browser \ {b} : header'[c] = header[c]
      /\ scheme'[b] = (IF scheme[b] = Unset THEN theme ELSE scheme[b])
      /\ \A c \in Browser \ {b} : scheme'[c] = scheme[c]
  BY <1>1, <1>2 DEF PreferencesInv, PreferencesTypeOK
<1>4. scheme[b] \in Theme \cup {Unset}
  BY <1>2 DEF PreferencesInv, PreferencesTypeOK
<1>5. \A c \in Browser : header'[c] \in {header[c], Quiet} /\ header'[c] # r
  <2>1. header'[b] # r
    BY <1>3, PreferencesAssumption
  <2>2. ASSUME NEW c \in Browser \ {b} PROVE header'[c] # r
    BY <1>1, <1>3, <2>2 DEF PreferencesInv, HeadersWait
  <2> QED  BY <1>3, <2>1, <2>2
<1>6. /\ sending' \in [Sending -> Request \cup {NotSent}]
      /\ RequestsFit' /\ HeadersWait'
      /\ \A q \in Sending \ {r} : sending'[q] = sending[q]
      /\ \/ scheme[b] \in {Unset, theme} /\ sending'[r] = NotSent
         \/ /\ scheme[b] \in Theme
            /\ sending'[r] # NotSent /\ sending'[r].at = "sent" /\ sending'[r].asker = "nobody"
            /\ sending'[r].patch \in ThemePatch /\ sending'[r].patch.theme = scheme[b]
  <2>1. CASE scheme[b] \in {Unset, theme}
    <3>1. sending' = [sending EXCEPT ![r] = NotSent]
      BY <1>1, <2>1
    <3> QED  BY <3>1, <2>1, <1>1, <1>5, FreeKeeps
  <2>2. CASE scheme[b] \notin {Unset, theme}
    <3> DEFINE patch == [NoPatch EXCEPT !.theme = scheme[b]]
    <3>1. scheme[b] \in Theme /\ patch \in ThemePatch /\ patch.theme = scheme[b]
      BY <1>4, <2>2, ThemePatched
    <3>2. sending' = [sending EXCEPT ![r] = Sent(b, "nobody", patch)]
      BY <1>1, <2>2
    <3> HIDE DEF patch
    <3>3. /\ Sent(b, "nobody", patch) \in Request
          /\ Sent(b, "nobody", patch).at = "sent" /\ Sent(b, "nobody", patch).asker = "nobody"
          /\ Sent(b, "nobody", patch).patch = patch
      BY <3>1, <1>2, PatchKinds, SentIsRequest
    <3>4. /\ sending' \in [Sending -> Request \cup {NotSent}]
          /\ sending'[r] = Sent(b, "nobody", patch)
          /\ \A q \in Sending \ {r} : sending'[q] = sending[q]
      BY <3>2, <3>3 DEF PreferencesInv, PreferencesTypeOK
    <3>5. RequestsFit'
      <4>1. ASSUME NEW q \in Sending \ {r}, sending'[q] # NotSent PROVE Fits(sending[q])'
        BY <4>1, <3>4, <1>1 DEF PreferencesInv, RequestsFit, Fits
      <4>2. Fits(sending[r])'
        BY <3>1, <3>3, <3>4 DEF Fits
      <4> QED  BY <4>1, <4>2 DEF RequestsFit
    <3>6. HeadersWait'
      <4>1. ASSUME NEW c \in Browser, header'[c] \in Sending
            PROVE  header'[c] = header[c] /\ sending'[header'[c]] = sending[header[c]]
        BY <4>1, <1>5, <3>4, PreferencesAssumption
      <4> QED  BY <4>1 DEF PreferencesInv, HeadersWait
    <3> QED  BY <3>1, <3>3, <3>4, <3>5, <3>6, FreeIsNone
  <2> QED  BY <2>1, <2>2
<1>7. PreferencesTypeOK'
  <2>1. scheme' \in [Browser -> Theme \cup {Unset}]
    BY <1>1, <1>2 DEF PreferencesInv, PreferencesTypeOK
  <2>2. header' \in [Browser -> Sending \cup {SignedOut, Quiet}]
    BY <1>1 DEF PreferencesInv, PreferencesTypeOK
  <2> QED  BY <1>1, <1>6, <2>1, <2>2 DEF PreferencesInv, PreferencesTypeOK
<1>8. CityHasCountry' /\ ChosenIsShown'
  BY <1>1, <1>3 DEF PreferencesInv, CityHasCountry, MayStore, ChosenIsShown, PreferencesTypeOK
<1>9. LastIsRepaired'
  <2>1. SUFFICES ASSUME NEW c \in Browser, lastOpened' = c
        PROVE  /\ \A q \in Sending : sending'[q] # NotSent => Repairs(c, sending[q])'
               /\ \A d \in Browser \ {c} : header'[d] \notin Sending
               /\ header'[c] \notin Sending /\ RowFollows(c)'
    BY DEF LastIsRepaired
  <2>2. c = b
    BY <2>1, <1>1, <1>2 DEF PreferencesInv, LastIsRepaired
  <2>3. /\ \A q \in Sending : sending[q] # NotSent => Repairs(b, sending[q])
        /\ \A d \in Browser \ {b} : header[d] \notin Sending
        /\ \A q \in Sending : sending[q] # NotSent => sending[q].patch = NoPatch
        /\ theme = stored.theme
    BY <2>1, <2>2, <1>0, <1>1, FreeIsNone DEF PreferencesInv, LastIsRepaired
  <2>4. ASSUME NEW q \in Sending \ {r}, sending'[q] # NotSent PROVE Repairs(b, sending[q])'
    BY <2>3, <2>4, <1>6 DEF Repairs
  <2>5. sending'[r] # NotSent => Repairs(b, sending[r])'
    <3>1. scheme[b] \in Theme => scheme'[b] = scheme[b]
      BY <1>3 DEF Theme, Unset
    <3> QED  BY <3>1, <1>6 DEF Repairs
  <2>6. \A d \in Browser : header'[d] \notin Sending
    BY <2>3, <1>3, PreferencesAssumption
  <2>7. RowFollows(b)'
    <3>1. CASE sending'[r] # NotSent
      BY <3>1, <1>6, PatchKinds DEF RowFollows
    <3>2. CASE sending'[r] = NotSent
      <4>1. scheme'[b] = theme
        BY <3>2, <1>3, <1>6
      <4> QED  BY <4>1, <2>3, <1>1 DEF RowFollows, Screen, Theme, Unset
    <3> QED  BY <3>1, <3>2
  <2> QED  BY <2>2, <2>4, <2>5, <2>6, <2>7
<1>10. SavesAgree'
  BY <1>1, <1>6, <1>2, SavesRemain
<1> QED  BY <1>6, <1>7, <1>8, <1>9, <1>10 DEF PreferencesInv

LEMMA ToggleKeeps ==
  ASSUME PreferencesInv, NEW b \in Browser, Toggle(b)
  PROVE  PreferencesInv'
<1> DEFINE next == IF Screen(b) = "dark" THEN "light" ELSE "dark"
<1>1. /\ scheme' = [scheme EXCEPT ![b] = next]
      /\ chosen' = [chosen EXCEPT ![b] = IF Saves(b) = {} THEN next ELSE Unset]
      /\ saving' = [saving EXCEPT ![b] = Quiet]
      /\ lastOpened' = Unset /\ Spend("toggles") /\ UNCHANGED <<stored, header, form>>
      /\ \/ UNCHANGED sending
         \/ \E r \in Sending : Send(r, b, "nobody", [NoPatch EXCEPT !.theme = next])
  BY DEF Toggle
<1>2. next \in Theme
  BY DEF Theme
<1> HIDE DEF next
<1>3. sending' \in [Sending -> Request \cup {NotSent}] /\ RequestsFit' /\ HeadersWait'
  <2>1. CASE UNCHANGED sending
    BY <2>1, <1>1 DEF PreferencesInv, PreferencesTypeOK, RequestsFit, Fits, HeadersWait
  <2>2. ASSUME NEW r \in Sending, Send(r, b, "nobody", [NoPatch EXCEPT !.theme = next])
        PROVE  sending' \in [Sending -> Request \cup {NotSent}] /\ RequestsFit' /\ HeadersWait'
    <3> DEFINE patch == [NoPatch EXCEPT !.theme = next]
    <3>1. patch \in {NoPatch} \cup ThemePatch \cup FullPatch
      BY <1>2, ThemePatched
    <3>2. sending[r] = NotSent /\ sending' = [sending EXCEPT ![r] = Sent(b, "nobody", patch)]
      BY <2>2 DEF Send
    <3> HIDE DEF patch
    <3> QED  BY <3>1, <3>2, <1>1, SendKeeps
  <2> QED  BY <2>1, <2>2, <1>1
<1>4. PreferencesTypeOK'
  BY <1>1, <1>2, <1>3 DEF PreferencesInv, PreferencesTypeOK, Spend
<1>5. CityHasCountry' /\ ChosenIsShown' /\ LastIsRepaired'
  BY <1>1, PreferencesAssumption
     DEF PreferencesInv, PreferencesTypeOK, CityHasCountry, MayStore, ChosenIsShown, LastIsRepaired
<1>6. SavesAgree'
  <2>1. ASSUME NEW c \in Browser, NEW q \in Sending, q \in Saves(c)' PROVE q \in Saves(c)
    <3>1. CASE UNCHANGED sending
      BY <2>1, <3>1 DEF Saves
    <3>2. ASSUME NEW r \in Sending, Send(r, b, "nobody", [NoPatch EXCEPT !.theme = next])
          PROVE  q \in Saves(c)
      <4>1. sending'[r].asker = "nobody" /\ \A p \in Sending \ {r} : sending'[p] = sending[p]
        BY <3>2 DEF Send, Sent, PreferencesInv, PreferencesTypeOK
      <4> QED  BY <2>1, <4>1 DEF Saves
    <3> QED  BY <3>1, <3>2, <1>1
  <2>2. ASSUME NEW c \in Browser
        PROVE  \/ Saves(c)' \subseteq {saving'[c]}
               \/ chosen'[c] = Unset /\ saving'[c] \notin Saves(c)'
    <3>1. Saves(c)' \subseteq Saves(c) /\ Saves(c)' \subseteq Sending
      BY <2>1 DEF Saves
    <3>2. CASE c = b
      BY <3>1, <3>2, <1>1, PreferencesAssumption DEF PreferencesInv, PreferencesTypeOK
    <3>3. CASE c # b
      BY <3>1, <3>3, <1>1 DEF PreferencesInv, PreferencesTypeOK, SavesAgree
    <3> QED  BY <3>2, <3>3
  <2> QED  BY <2>2 DEF SavesAgree
<1> QED  BY <1>3, <1>4, <1>5, <1>6 DEF PreferencesInv

-----------------------------------------------------------------------------
(* The settings page                                                       *)

Forms == [Browser -> [open : BOOLEAN, waits : Sending \cup {Quiet}, draft : Draft]]

(* A form that waits no more, with its draft or another, is a form.        *)
LEMMA FormsStay ==
  ASSUME NEW f \in Forms, NEW b \in Browser, NEW d \in Draft
  PROVE  /\ [f EXCEPT ![b].waits = Quiet] \in Forms
         /\ [f EXCEPT ![b].waits = Quiet, ![b].draft = d] \in Forms
<1>1. f[b] \in [open : BOOLEAN, waits : Sending \cup {Quiet}, draft : Draft]
  BY DEF Forms
<1>2. /\ [f[b] EXCEPT !.waits = Quiet] \in
            [open : BOOLEAN, waits : Sending \cup {Quiet}, draft : Draft]
      /\ [f[b] EXCEPT !.waits = Quiet, !.draft = d] \in
            [open : BOOLEAN, waits : Sending \cup {Quiet}, draft : Draft]
  BY <1>1
<1>3. [f EXCEPT ![b].waits = Quiet] \in Forms
  BY <1>2 DEF Forms
<1>4. [f EXCEPT ![b].waits = Quiet, ![b].draft = d] \in Forms
  BY <1>2 DEF Forms
<1> QED  BY <1>3, <1>4

(* The rest of the invariant, where a request of a form comes or goes and  *)
(* neither themes nor the row change.                                      *)
LEMMA FormsLeaveThemes ==
  ASSUME PreferencesInv, UNCHANGED <<stored, scheme, header, chosen, saving>>,
         lastOpened' \in {lastOpened, Unset},
         NEW r \in Sending, \A q \in Sending \ {r} : sending'[q] = sending[q],
         \/ sending'[r] = NotSent /\ sending[r].patch = NoPatch
         \/ sending[r] = NotSent /\ sending'[r].at = "sent" /\ sending'[r].patch = NoPatch,
         \A b \in Browser : header[b] # r
  PROVE  CityHasCountry' /\ ChosenIsShown' /\ SavesAgree' /\ LastIsRepaired'
<1>1. CityHasCountry' /\ ChosenIsShown'
  BY DEF PreferencesInv, CityHasCountry, MayStore, ChosenIsShown
<1>2. LastIsRepaired'
  <2>1. SUFFICES ASSUME NEW b \in Browser, lastOpened = b
        PROVE  /\ \A q \in Sending : sending'[q] # NotSent => Repairs(b, sending[q])'
               /\ \A c \in Browser \ {b} : header[c] \notin Sending
               /\ header[b] \in Sending =>
                    /\ \A q \in Sending : sending'[q] # NotSent => sending'[q].patch = NoPatch
                    /\ sending'[header[b]].at = "answered" =>
                         sending'[header[b]].answer.theme = stored.theme
               /\ header[b] = Quiet => RowFollows(b)'
    BY PreferencesAssumption DEF LastIsRepaired
  <2>2. /\ \A q \in Sending : sending[q] # NotSent => Repairs(b, sending[q])
        /\ \A c \in Browser \ {b} : header[c] \notin Sending
        /\ header[b] \in Sending =>
             /\ \A q \in Sending : sending[q] # NotSent => sending[q].patch = NoPatch
             /\ sending[header[b]].at = "answered" =>
                  sending[header[b]].answer.theme = stored.theme
        /\ header[b] = Quiet => RowFollows(b)
    BY <2>1 DEF PreferencesInv, LastIsRepaired
  <2>3. ASSUME NEW q \in Sending, sending'[q] # NotSent PROVE Repairs(b, sending[q])'
    <3>1. CASE q = r
      BY <3>1, <2>3 DEF Repairs
    <3>2. CASE q # r
      BY <3>2, <2>2, <2>3 DEF Repairs
    <3> QED  BY <3>1, <3>2
  <2>4. header[b] \in Sending =>
          /\ \A q \in Sending : sending'[q] # NotSent => sending'[q].patch = NoPatch
          /\ sending'[header[b]].at = "answered" =>
               sending'[header[b]].answer.theme = stored.theme
    BY <2>2
  <2>5. header[b] = Quiet => RowFollows(b)'
    BY <2>2 DEF RowFollows, Screen
  <2> QED  BY <2>2, <2>3, <2>4, <2>5
<1>3. SavesAgree'
  BY SavesRemain
<1> QED  BY <1>1, <1>2, <1>3

LEMMA OpenFormKeeps ==
  ASSUME PreferencesInv, NEW b \in Browser, OpenForm(b)
  PROVE  PreferencesInv'
<1>1. PICK r \in Sending :
        /\ sending[r] = NotSent /\ sending' = [sending EXCEPT ![r] = Sent(b, "form", NoPatch)]
        /\ form' = [form EXCEPT ![b] = [open |-> TRUE, waits |-> r, draft |-> EmptyDraft]]
        /\ Spend("forms") /\ UNCHANGED <<stored, scheme, header, chosen, saving, lastOpened>>
  BY DEF OpenForm, Send
<1>2. /\ sending' \in [Sending -> Request \cup {NotSent}] /\ RequestsFit' /\ HeadersWait'
      /\ \A q \in Sending \ {r} : sending'[q] = sending[q]
      /\ sending'[r].at = "sent" /\ sending'[r].patch = NoPatch
  <2>1. PICK patch \in {NoPatch} \cup ThemePatch \cup FullPatch : patch = NoPatch
    OBVIOUS
  <2>2. sending[r] = NotSent /\ sending' = [sending EXCEPT ![r] = Sent(b, "form", patch)]
    BY <1>1, <2>1
  <2>3. sending' \in [Sending -> Request \cup {NotSent}] /\ RequestsFit' /\ HeadersWait'
    BY <1>1, <2>2, SendKeeps
  <2>4. sending'[r] = Sent(b, "form", NoPatch) /\ \A q \in Sending \ {r} : sending'[q] = sending[q]
    BY <1>1 DEF PreferencesInv, PreferencesTypeOK
  <2> QED  BY <2>3, <2>4 DEF Sent
<1>3. form' \in Forms
  BY <1>1, Drafts DEF PreferencesInv, PreferencesTypeOK, Forms
<1>4. PreferencesTypeOK'
  BY <1>1, <1>2, <1>3 DEF PreferencesInv, PreferencesTypeOK, Spend, Forms
<1>5. \A c \in Browser : header[c] # r
  BY <1>1 DEF PreferencesInv, HeadersWait
<1>6. CityHasCountry' /\ ChosenIsShown' /\ SavesAgree' /\ LastIsRepaired'
  BY <1>1, <1>2, <1>5, FormsLeaveThemes
<1> QED  BY <1>2, <1>4, <1>6 DEF PreferencesInv

LEMMA FormChangesKeep ==
  ASSUME PreferencesInv, NEW b \in Browser, CloseForm(b) \/ Edit(b)
  PROVE  PreferencesInv'
<1>1. form' \in Forms
  <2>1. CASE CloseForm(b)
    BY <2>1, Drafts DEF PreferencesInv, PreferencesTypeOK, CloseForm, NoForm, Forms
  <2>2. ASSUME NEW d \in Draft, form' = [form EXCEPT ![b].draft = d] PROVE form' \in Forms
    BY <2>2 DEF PreferencesInv, PreferencesTypeOK, Forms
  <2>3. ASSUME Edit(b) PROVE \E d \in Draft : form' = [form EXCEPT ![b].draft = d]
    <3>1. PICK t \in Theme, c \in TargetCountry \cup {""}, y \in TargetCity \cup {""} :
            form' = [form EXCEPT ![b].draft = [theme |-> t, country |-> c, city |-> y]]
      BY <2>3 DEF Edit
    <3> QED  BY <3>1 DEF Draft
  <2> QED  BY <2>1, <2>2, <2>3
<1>2. UNCHANGED <<stored, scheme, header, sending, chosen, saving, lastOpened>>
  BY DEF CloseForm, Edit
<1>3. budget' \in [{"signIns", "toggles", "forms", "edits", "failures"} -> Nat]
  <2>1. budget' = budget \/ Spend("edits")
    BY DEF CloseForm, Edit
  <2> QED  BY <2>1 DEF PreferencesInv, PreferencesTypeOK, Spend
<1>4. PreferencesTypeOK'
  BY <1>1, <1>2, <1>3 DEF PreferencesInv, PreferencesTypeOK, Forms
<1>5. RequestsFit' /\ HeadersWait' /\ CityHasCountry' /\ ChosenIsShown'
  BY <1>2 DEF PreferencesInv, RequestsFit, Fits, HeadersWait, CityHasCountry, MayStore, ChosenIsShown
<1>6. LastIsRepaired'
  BY <1>2 DEF PreferencesInv, LastIsRepaired, Repairs, RowFollows, Screen
<1>7. SavesAgree'
  BY <1>2 DEF PreferencesInv, SavesAgree, Saves
<1> QED  BY <1>4, <1>5, <1>6, <1>7 DEF PreferencesInv

LEMMA FormLoadedKeeps ==
  ASSUME PreferencesInv, NEW r \in Sending, FormLoaded(r)
  PROVE  PreferencesInv'
<1>1. sending[r] \in Request
  BY DEF PreferencesInv, PreferencesTypeOK, FormLoaded, NotSent
<1>2. PICK b \in Browser, d \in Draft :
        form' = [form EXCEPT ![b].waits = Quiet, ![b].draft = d]
  BY <1>1, Drafts DEF FormLoaded, Request
<1>3. /\ sending[r].asker = "form" /\ sending[r].patch = NoPatch
      /\ sending' = [sending EXCEPT ![r] = NotSent]
      /\ UNCHANGED <<stored, scheme, header, budget, chosen, saving, lastOpened>>
  BY DEF FormLoaded
<1>4. \A c \in Browser : header[c] # r
  BY <1>3 DEF PreferencesInv, HeadersWait
<1>5. /\ sending' \in [Sending -> Request \cup {NotSent}] /\ RequestsFit' /\ HeadersWait'
      /\ sending'[r] = NotSent /\ \A q \in Sending \ {r} : sending'[q] = sending[q]
  BY <1>3, <1>4, FreeKeeps
<1>6. form' \in Forms
  <2>1. form \in Forms
    BY DEF PreferencesInv, PreferencesTypeOK, Forms
  <2> QED  BY <2>1, <1>2, FormsStay
<1>7. PreferencesTypeOK'
  BY <1>3, <1>5, <1>6 DEF PreferencesInv, PreferencesTypeOK, Forms
<1>8. CityHasCountry' /\ ChosenIsShown' /\ SavesAgree' /\ LastIsRepaired'
  BY <1>3, <1>4, <1>5, FormsLeaveThemes
<1> QED  BY <1>5, <1>7, <1>8 DEF PreferencesInv

LEMMA SaveKeeps ==
  ASSUME PreferencesInv, NEW b \in Browser, Save(b)
  PROVE  PreferencesInv'
<1>1. form[b].draft \in Draft /\ Payload(form[b].draft) \in FullPatch
  BY Drafts DEF PreferencesInv, PreferencesTypeOK
<1> DEFINE patch == Payload(form[b].draft)
<1>2. PICK r \in Sending :
        /\ sending[r] = NotSent /\ sending' = [sending EXCEPT ![r] = Sent(b, "form", patch)]
        /\ form' = [form EXCEPT ![b].waits = r]
        /\ saving' = [saving EXCEPT ![b] = IF Saves(b) = {} THEN r ELSE Quiet]
        /\ chosen' = IF Saves(b) = {} THEN chosen ELSE [chosen EXCEPT ![b] = Unset]
        /\ Spend("forms") /\ lastOpened' = Unset /\ UNCHANGED <<stored, scheme, header>>
  BY DEF Save, Send
<1>3. patch \in {NoPatch} \cup ThemePatch \cup FullPatch
  BY <1>1
<1> HIDE DEF patch
<1>4. sending' \in [Sending -> Request \cup {NotSent}] /\ RequestsFit' /\ HeadersWait'
  BY <1>2, <1>3, SendKeeps
<1>5. form' \in Forms
  BY <1>2 DEF PreferencesInv, PreferencesTypeOK, Forms
<1>6. PreferencesTypeOK'
  <2>1. chosen' \in [Browser -> Theme \cup {Unset}] /\ saving' \in [Browser -> Sending \cup {Quiet}]
    BY <1>2 DEF PreferencesInv, PreferencesTypeOK
  <2> QED  BY <1>2, <1>4, <1>5, <2>1 DEF PreferencesInv, PreferencesTypeOK, Spend, Forms
<1>7. CityHasCountry' /\ ChosenIsShown' /\ LastIsRepaired'
  <2>1. \A c \in Browser : chosen'[c] \in {chosen[c], Unset}
    BY <1>2 DEF PreferencesInv, PreferencesTypeOK
  <2> QED  BY <1>2, <2>1, PreferencesAssumption
           DEF PreferencesInv, CityHasCountry, MayStore, ChosenIsShown, LastIsRepaired
<1>8. SavesAgree'
  <2>1. \A q \in Sending \ {r} : sending'[q] = sending[q]
    BY <1>2 DEF PreferencesInv, PreferencesTypeOK
  <2>2. sending'[r].from = b
    BY <1>2 DEF PreferencesInv, PreferencesTypeOK, Sent
  <2>3. ASSUME NEW c \in Browser
        PROVE  \/ Saves(c)' \subseteq {saving'[c]}
               \/ chosen'[c] = Unset /\ saving'[c] \notin Saves(c)'
    <3>1. CASE c = b /\ Saves(b) = {}
      <4>1. Saves(b)' \subseteq {r}
        BY <2>1, <3>1 DEF Saves
      <4> QED  BY <4>1, <3>1, <1>2 DEF PreferencesInv, PreferencesTypeOK
    <3>2. CASE c = b /\ Saves(b) # {}
      <4>1. saving'[b] \notin Sending /\ chosen'[b] = Unset
        BY <3>2, <1>2, PreferencesAssumption DEF PreferencesInv, PreferencesTypeOK
      <4> QED  BY <4>1, <3>2 DEF Saves
    <3>3. CASE c # b
      <4>1. Saves(c)' \subseteq Saves(c)
        BY <2>1, <2>2, <3>3 DEF Saves
      <4>2. saving'[c] = saving[c] /\ chosen'[c] = chosen[c]
        BY <3>3, <1>2 DEF PreferencesInv, PreferencesTypeOK
      <4> QED  BY <4>1, <4>2 DEF PreferencesInv, SavesAgree
    <3> QED  BY <3>1, <3>2, <3>3
  <2> QED  BY <2>3 DEF SavesAgree
<1> QED  BY <1>4, <1>6, <1>7, <1>8 DEF PreferencesInv

(* A save is answered with the theme it wrote; none was sent since the     *)
(* last browser was opened.                                                *)
LEMMA SavedKeeps ==
  ASSUME PreferencesInv, NEW r \in Sending, Saved(r)
  PROVE  PreferencesInv'
<1>1. sending[r] \in Request /\ sending[r] # NotSent
  BY DEF PreferencesInv, PreferencesTypeOK, Saved, NotSent
<1>2. PICK b \in Browser, new \in Preference :
        /\ new = sending[r].answer
        /\ form' = IF form[b].waits = r
                   THEN [form EXCEPT ![b].waits = Quiet, ![b].draft = ToDraft(new)] ELSE form
        /\ scheme' = [scheme EXCEPT ![b] = new.theme] /\ b = sending[r].from
        /\ \/ /\ saving[b] = r /\ saving' = [saving EXCEPT ![b] = Quiet]
              /\ chosen' = [chosen EXCEPT ![b] = sending[r].patch.theme]
           \/ saving[b] # r /\ UNCHANGED <<chosen, saving>>
  BY <1>1 DEF Saved, Request
<1>3. /\ sending[r].at = "answered" /\ sending[r].asker = "form" /\ sending[r].patch # NoPatch
      /\ sending' = [sending EXCEPT ![r] = NotSent]
      /\ UNCHANGED <<stored, header, budget, lastOpened>>
  BY DEF Saved
<1>4. new.theme = sending[r].patch.theme /\ new.theme \in Theme
  BY <1>1, <1>2, <1>3 DEF PreferencesInv, RequestsFit, Fits, Preference
<1>5. \A c \in Browser : header[c] # r
  BY <1>3 DEF PreferencesInv, HeadersWait
<1>6. sending' \in [Sending -> Request \cup {NotSent}] /\ RequestsFit' /\ HeadersWait'
  BY <1>3, <1>5, FreeKeeps
<1>7. form' \in Forms
  <2>1. ToDraft(new) \in Draft /\ form \in Forms
    BY Drafts DEF PreferencesInv, PreferencesTypeOK, Forms
  <2> QED  BY <2>1, <1>2, FormsStay
<1>8. PreferencesTypeOK'
  <2>1. chosen' \in [Browser -> Theme \cup {Unset}] /\ saving' \in [Browser -> Sending \cup {Quiet}]
    BY <1>2, <1>4 DEF PreferencesInv, PreferencesTypeOK
  <2> QED  BY <2>1, <1>2, <1>3, <1>4, <1>6, <1>7 DEF PreferencesInv, PreferencesTypeOK, Forms
<1>9. CityHasCountry' /\ ChosenIsShown'
  <2>1. saving[b] = r \/ chosen[b] = Unset
    <3>1. r \in Saves(b)
      BY <1>1, <1>2, <1>3 DEF Saves
    <3> QED  BY <3>1 DEF PreferencesInv, SavesAgree
  <2> QED  BY <2>1, <1>2, <1>3, <1>4
           DEF PreferencesInv, CityHasCountry, MayStore, ChosenIsShown, PreferencesTypeOK
<1>10. LastIsRepaired'
  <2>1. \A c \in Browser : lastOpened # c
    BY <1>1, <1>3 DEF PreferencesInv, LastIsRepaired, Repairs
  <2> QED  BY <2>1, <1>3 DEF LastIsRepaired
<1>11. SavesAgree'
  <2>1. sending'[r] = NotSent /\ \A q \in Sending \ {r} : sending'[q] = sending[q]
    BY <1>3, <1>5, FreeKeeps
  <2>2. CASE saving[b] # r
    BY <2>1, <2>2, <1>2, SavesRemain
  <2>3. ASSUME saving[b] = r, NEW c \in Browser
        PROVE  \/ Saves(c)' \subseteq {saving'[c]}
               \/ chosen'[c] = Unset /\ saving'[c] \notin Saves(c)'
    <3>1. Saves(c)' \subseteq Saves(c) \ {r}
      BY <2>1 DEF Saves
    <3>2. CASE c = b
      <4>1. r \in Saves(b)
        BY <1>1, <1>2, <1>3 DEF Saves
      <4> QED  BY <4>1, <3>1, <3>2, <2>3 DEF PreferencesInv, SavesAgree
    <3>3. CASE c # b
      <4>1. saving'[c] = saving[c] /\ chosen'[c] = chosen[c]
        BY <3>3, <1>2 DEF PreferencesInv, PreferencesTypeOK
      <4> QED  BY <4>1, <3>1 DEF PreferencesInv, SavesAgree
    <3> QED  BY <3>2, <3>3
  <2> QED  BY <2>2, <2>3 DEF SavesAgree
<1> QED  BY <1>6, <1>8, <1>9, <1>10, <1>11 DEF PreferencesInv

(* The header that is told of a failure is not of the last browser, whose  *)
(* requests do not fail.                                                   *)
LEMMA DroppedKeeps ==
  ASSUME PreferencesInv, NEW r \in Sending, Dropped(r)
  PROVE  PreferencesInv'
<1>1. sending[r] \in Request /\ sending[r] # NotSent
  BY DEF PreferencesInv, PreferencesTypeOK, Dropped, NotSent
<1>2. PICK b \in Browser :
        /\ b = sending[r].from
        /\ header' = IF header[b] = r THEN [header EXCEPT ![b] = Quiet] ELSE header
        /\ form' = IF form[b].waits = r THEN [form EXCEPT ![b].waits = Quiet] ELSE form
  BY <1>1 DEF Dropped, Request
<1>3. /\ sending[r].at \in {"answered", "refused"}
      /\ sending' = [sending EXCEPT ![r] = NotSent]
      /\ UNCHANGED <<stored, scheme, budget, chosen, saving, lastOpened>>
  BY DEF Dropped
<1>4. header[b] = r => sending[r].asker = "header" /\ sending[r].at = "refused"
  <2>1. header[b] = r => sending[r].asker = "header"
    BY DEF PreferencesInv, HeadersWait
  <2> QED  BY <2>1, <1>2, <1>3 DEF Dropped
<1>5. \A c \in Browser : header'[c] \in {header[c], Quiet} /\ header'[c] # r
  <2>1. ASSUME NEW c \in Browser, header[c] = r PROVE c = b
    BY <2>1, <1>2 DEF PreferencesInv, HeadersWait
  <2> QED  BY <2>1, <1>2, PreferencesAssumption DEF PreferencesInv, PreferencesTypeOK
<1>6. /\ sending' \in [Sending -> Request \cup {NotSent}] /\ RequestsFit' /\ HeadersWait'
      /\ sending'[r] = NotSent /\ \A q \in Sending \ {r} : sending'[q] = sending[q]
  BY <1>3, <1>5, FreeKeeps
<1>7. form' \in Forms
  <2>1. form \in Forms
    BY DEF PreferencesInv, PreferencesTypeOK, Forms
  <2> QED  BY <2>1, <1>2, FormsStay, Drafts
<1>8. header' \in [Browser -> Sending \cup {SignedOut, Quiet}]
  BY <1>2 DEF PreferencesInv, PreferencesTypeOK
<1>9. PreferencesTypeOK'
  BY <1>3, <1>6, <1>7, <1>8 DEF PreferencesInv, PreferencesTypeOK, Forms
<1>10. CityHasCountry' /\ ChosenIsShown'
  BY <1>3 DEF PreferencesInv, CityHasCountry, MayStore, ChosenIsShown
<1>11. LastIsRepaired'
  <2>1. SUFFICES ASSUME NEW l \in Browser, lastOpened = l
        PROVE  /\ \A q \in Sending : sending'[q] # NotSent => Repairs(l, sending[q])'
               /\ \A c \in Browser \ {l} : header'[c] \notin Sending
               /\ header'[l] \in Sending =>
                    /\ \A q \in Sending : sending'[q] # NotSent => sending'[q].patch = NoPatch
                    /\ sending'[header'[l]].at = "answered" =>
                         sending'[header'[l]].answer.theme = stored.theme
               /\ header'[l] = Quiet => RowFollows(l)'
    BY <1>3 DEF LastIsRepaired
  <2>2. /\ \A q \in Sending : sending[q] # NotSent => Repairs(l, sending[q])
        /\ \A c \in Browser \ {l} : header[c] \notin Sending
        /\ header[l] \in Sending =>
             /\ \A q \in Sending : sending[q] # NotSent => sending[q].patch = NoPatch
             /\ sending[header[l]].at = "answered" =>
                  sending[header[l]].answer.theme = stored.theme
        /\ header[l] = Quiet => RowFollows(l)
    BY <2>1 DEF PreferencesInv, LastIsRepaired
  <2>3. sending[r].at = "answered" /\ header' = header
    BY <2>2, <1>1, <1>2, <1>3, <1>4 DEF Repairs
  <2>4. ASSUME NEW q \in Sending, sending'[q] # NotSent
        PROVE  q # r /\ sending'[q] = sending[q] /\ Repairs(l, sending[q])'
    BY <2>2, <2>4, <1>3, <1>6 DEF Repairs
  <2>5. header[l] \in Sending => sending'[header[l]] = sending[header[l]]
    BY <1>5, <1>6, <2>3
  <2>6. header[l] = Quiet => RowFollows(l)'
    BY <2>2, <2>3, <1>3, <1>6 DEF RowFollows, Screen
  <2> QED  BY <2>2, <2>3, <2>4, <2>5, <2>6
<1>12. SavesAgree'
  BY <1>3, <1>6, SavesRemain
<1> QED  BY <1>6, <1>9, <1>10, <1>11, <1>12 DEF PreferencesInv

-----------------------------------------------------------------------------
(* The server                                                              *)

(* What the last browser asks for is answered or checked, never refused,   *)
(* since a theme leaves the place as it is.                                *)
LEMMA EnsureRecordKeeps ==
  ASSUME PreferencesInv, NEW r \in Sending, EnsureRecord(r)
  PROVE  PreferencesInv'
<1>1. sending[r] \in Request /\ sending[r] # NotSent /\ sending[r].at = "sent"
  BY DEF PreferencesInv, PreferencesTypeOK, EnsureRecord, NotSent
<1>2. PICK current \in Preference :
        current = IF stored = NoRow THEN Defaults ELSE stored
  BY RowKinds DEF PreferencesInv, PreferencesTypeOK
<1>3. PICK patch \in Patch : patch = sending[r].patch
  BY <1>1 DEF Request
<1>4. PICK at \in {"answered", "checked", "refused"} :
        at = IF patch = NoPatch THEN "answered"
             ELSE IF MayStore(Patched(current, patch)) THEN "checked" ELSE "refused"
  OBVIOUS
<1>5. PICK q : q = [sending[r] EXCEPT !.answer = current, !.at = at]
  OBVIOUS
<1>6. /\ q \in Request /\ q.at = at /\ q.answer = current /\ q.patch = patch
      /\ q.from = sending[r].from /\ q.asker = sending[r].asker
  BY <1>1, <1>3, <1>5 DEF Request
<1>7. /\ stored' = current /\ sending' = [sending EXCEPT ![r] = q]
      /\ UNCHANGED <<scheme, header, form, budget, chosen, saving, lastOpened>>
  BY <1>2, <1>3, <1>4, <1>5 DEF EnsureRecord, PreferencesInv, PreferencesTypeOK
<1>8. current # NoRow /\ MayStore(current) /\ (stored # NoRow => current = stored)
  BY <1>2, RowKinds DEF PreferencesInv, CityHasCountry, MayStore, Defaults
<1>9. /\ patch = NoPatch \/ patch \in ThemePatch \/ patch \in FullPatch
      /\ sending[r].asker = "header" => patch = NoPatch
  BY <1>1, <1>3 DEF PreferencesInv, RequestsFit, Fits
<1>10. Fits(q)'
  <2>1. q.at = "checked" => q.patch # NoPatch
    BY <1>4, <1>6
  <2>2. q.at = "checked" /\ q.patch \in FullPatch => MayStore(q.patch)
    BY <1>4, <1>6, FormWritesAll
  <2>3. ~(q.at = "answered" /\ q.patch # NoPatch)
    BY <1>4, <1>6
  <2> QED  BY <2>1, <2>2, <2>3, <1>6, <1>7, <1>8, <1>9 DEF Fits
<1>11. /\ sending' \in [Sending -> Request \cup {NotSent}] /\ RequestsFit' /\ HeadersWait'
       /\ sending'[r] = q /\ \A p \in Sending \ {r} : sending'[p] = sending[p]
  BY <1>1, <1>3, <1>6, <1>7, <1>8, <1>10, MoveKeeps
<1>12. PreferencesTypeOK'
  BY <1>7, <1>11 DEF PreferencesInv, PreferencesTypeOK
<1>13. CityHasCountry' /\ ChosenIsShown'
  BY <1>7, <1>8 DEF PreferencesInv, CityHasCountry, MayStore, ChosenIsShown
<1>14. LastIsRepaired'
  <2>1. SUFFICES ASSUME NEW l \in Browser, lastOpened = l
        PROVE  /\ \A p \in Sending : sending'[p] # NotSent => Repairs(l, sending[p])'
               /\ \A c \in Browser \ {l} : header[c] \notin Sending
               /\ header[l] \in Sending =>
                    /\ \A p \in Sending : sending'[p] # NotSent => sending'[p].patch = NoPatch
                    /\ sending'[header[l]].at = "answered" =>
                         sending'[header[l]].answer.theme = current.theme
               /\ header[l] = Quiet => RowFollows(l)'
    BY <1>7 DEF LastIsRepaired
  <2>2. /\ \A p \in Sending : sending[p] # NotSent => Repairs(l, sending[p])
        /\ \A c \in Browser \ {l} : header[c] \notin Sending
        /\ header[l] \in Sending =>
             /\ \A p \in Sending : sending[p] # NotSent => sending[p].patch = NoPatch
             /\ sending[header[l]].at = "answered" =>
                  sending[header[l]].answer.theme = stored.theme
        /\ header[l] = Quiet => RowFollows(l)
    BY <2>1 DEF PreferencesInv, LastIsRepaired
  <2>3. Repairs(l, sending[r])
    BY <2>2, <1>1
  <2>4. patch # NoPatch => q.at = "checked"
    <3>1. patch # NoPatch => patch \in ThemePatch
      BY <2>3, <1>3 DEF Repairs
    <3> QED  BY <3>1, <1>4, <1>6, <1>8, ThemeAlone
  <2>5. q.at # "refused"
    BY <2>4, <1>4, <1>6
  <2>6. ASSUME NEW p \in Sending, sending'[p] # NotSent PROVE Repairs(l, sending[p])'
    <3>1. CASE p = r
      BY <3>1, <2>3, <2>5, <1>3, <1>6, <1>7, <1>11 DEF Repairs
    <3>2. CASE p # r
      BY <3>2, <2>2, <2>6, <1>7, <1>11 DEF Repairs
    <3> QED  BY <3>1, <3>2
  <2>7. header[l] \in Sending =>
          \A p \in Sending : sending'[p] # NotSent => sending'[p].patch = NoPatch
    BY <2>2, <1>1, <1>3, <1>6, <1>11
  <2>8. ASSUME header[l] \in Sending, sending'[header[l]].at = "answered"
        PROVE  sending'[header[l]].answer.theme = current.theme
    <3>1. CASE header[l] = r
      BY <3>1, <1>6, <1>11
    <3>2. CASE header[l] # r
      <4>1. sending'[header[l]] = sending[header[l]] /\ sending[header[l]] # NotSent
        BY <3>2, <2>8, <1>11 DEF PreferencesInv, HeadersWait
      <4>2. stored # NoRow
        BY <4>1, <2>8 DEF PreferencesInv, RequestsFit, Fits
      <4> QED  BY <4>1, <4>2, <2>2, <2>8, <1>8
    <3> QED  BY <3>1, <3>2
  <2>9. header[l] = Quiet => RowFollows(l)'
    <3>1. ASSUME stored.theme = Screen(l) PROVE RowFollows(l)'
      <4>1. stored # NoRow
        BY <3>1 DEF PreferencesInv, PreferencesTypeOK, Screen, NoRow, Theme, Unset
      <4> QED  BY <3>1, <4>1, <1>7, <1>8 DEF RowFollows, Screen
    <3>2. ASSUME NEW p \in Sending, sending[p] # NotSent, sending[p].patch # NoPatch,
                 sending[p].at \in {"sent", "checked"}
          PROVE  RowFollows(l)'
      <4>1. CASE p = r
        BY <4>1, <3>2, <2>4, <1>3, <1>6, <1>11, FreeIsNone DEF RowFollows
      <4>2. CASE p # r
        BY <4>2, <3>2, <1>11 DEF RowFollows
      <4> QED  BY <4>1, <4>2
    <3> QED  BY <3>1, <3>2, <2>2 DEF RowFollows
  <2> QED  BY <2>2, <2>6, <2>7, <2>8, <2>9
<1>15. SavesAgree'
  BY <1>1, <1>3, <1>6, <1>7, <1>11, SavesRemain
<1> QED  BY <1>11, <1>12, <1>13, <1>14, <1>15 DEF PreferencesInv

(* A row that is written has the theme of its patch: the repair of the     *)
(* last browser is done.                                                   *)
LEMMA UpdateRecordKeeps ==
  ASSUME PreferencesInv, NEW r \in Sending, UpdateRecord(r)
  PROVE  PreferencesInv'
<1>1. sending[r] \in Request /\ sending[r] # NotSent /\ sending[r].at = "checked"
  BY DEF PreferencesInv, PreferencesTypeOK, UpdateRecord, NotSent
<1>2. PICK patch \in Patch : patch = sending[r].patch
  BY <1>1 DEF Request
<1>3. /\ patch \in ThemePatch \/ patch \in FullPatch
      /\ patch \in FullPatch => MayStore(patch)
      /\ stored \in Preference /\ sending[r].asker # "header" /\ patch # NoPatch
  BY <1>1, <1>2 DEF PreferencesInv, RequestsFit, Fits, PreferencesTypeOK
<1>4. PICK new \in Preference : new = Patched(stored, patch)
  BY <1>3, PatchedIsRow
<1>5. new.theme = patch.theme /\ MayStore(new) /\ new # NoRow
  <2>1. CASE patch \in ThemePatch
    BY <2>1, <1>3, <1>4, ThemeAlone, RowKinds DEF PreferencesInv, CityHasCountry
  <2>2. CASE patch \in FullPatch
    BY <2>2, <1>3, <1>4, FormWritesAll, RowKinds
  <2> QED  BY <2>1, <2>2, <1>3
<1>6. PICK q : q = [sending[r] EXCEPT !.answer = new, !.at = "answered"]
  OBVIOUS
<1>7. /\ q \in Request /\ q.at = "answered" /\ q.answer = new /\ q.patch = patch
      /\ q.from = sending[r].from /\ q.asker = sending[r].asker
  BY <1>1, <1>2, <1>6 DEF Request
<1>8. /\ stored' = new /\ sending' = [sending EXCEPT ![r] = q]
      /\ UNCHANGED <<scheme, header, form, budget, chosen, saving, lastOpened>>
  BY <1>2, <1>4, <1>6 DEF UpdateRecord, PreferencesInv, PreferencesTypeOK
<1>9. Fits(q)'
  BY <1>3, <1>5, <1>7, <1>8 DEF Fits
<1>10. /\ sending' \in [Sending -> Request \cup {NotSent}] /\ RequestsFit' /\ HeadersWait'
       /\ sending'[r] = q /\ \A p \in Sending \ {r} : sending'[p] = sending[p]
  BY <1>1, <1>2, <1>5, <1>7, <1>8, <1>9, MoveKeeps
<1>11. PreferencesTypeOK'
  BY <1>8, <1>10 DEF PreferencesInv, PreferencesTypeOK
<1>12. CityHasCountry' /\ ChosenIsShown'
  BY <1>5, <1>8 DEF PreferencesInv, CityHasCountry, MayStore, ChosenIsShown
<1>13. LastIsRepaired'
  <2>1. SUFFICES ASSUME NEW l \in Browser, lastOpened = l
        PROVE  /\ \A p \in Sending : sending'[p] # NotSent => Repairs(l, sending[p])'
               /\ \A c \in Browser : header[c] \notin Sending
               /\ RowFollows(l)'
    BY <1>8 DEF LastIsRepaired
  <2>2. /\ \A p \in Sending : sending[p] # NotSent => Repairs(l, sending[p])
        /\ \A c \in Browser \ {l} : header[c] \notin Sending
        /\ header[l] \in Sending =>
             \A p \in Sending : sending[p] # NotSent => sending[p].patch = NoPatch
    BY <2>1 DEF PreferencesInv, LastIsRepaired
  <2>3. /\ sending[r].asker = "nobody" /\ patch \in ThemePatch
        /\ patch.theme = scheme[l]
    BY <2>2, <1>1, <1>2, <1>3 DEF Repairs
  <2>4. ASSUME NEW p \in Sending, sending'[p] # NotSent PROVE Repairs(l, sending[p])'
    <3>1. CASE p = r
      BY <3>1, <2>3, <1>7, <1>8, <1>10 DEF Repairs
    <3>2. CASE p # r
      BY <3>2, <2>2, <2>4, <1>8, <1>10 DEF Repairs
    <3> QED  BY <3>1, <3>2
  <2>5. header[l] \notin Sending
    BY <2>2, <1>1, <1>2, <1>3
  <2>6. stored'.theme = scheme[l] /\ scheme[l] # Unset
    BY <2>3, <1>5, <1>8 DEF ThemePatch, Theme, Unset
  <2> QED  BY <2>2, <2>4, <2>5, <2>6, <1>8 DEF RowFollows, Screen
<1>14. SavesAgree'
  BY <1>1, <1>2, <1>7, <1>8, <1>10, SavesRemain
<1> QED  BY <1>10, <1>11, <1>12, <1>13, <1>14 DEF PreferencesInv

LEMMA FailRequestKeeps ==
  ASSUME PreferencesInv, NEW r \in Sending, FailRequest(r)
  PROVE  PreferencesInv'
<1>1. sending[r] \in Request /\ sending[r] # NotSent
  BY DEF PreferencesInv, PreferencesTypeOK, FailRequest, NotSent
<1>2. PICK q : q = [sending[r] EXCEPT !.at = "refused"]
  OBVIOUS
<1>3. /\ q \in Request /\ q.at = "refused" /\ q.patch = sending[r].patch
      /\ q.from = sending[r].from /\ q.asker = sending[r].asker
  BY <1>1, <1>2 DEF Request
<1>4. /\ sending' = [sending EXCEPT ![r] = q] /\ lastOpened' = Unset
      /\ UNCHANGED <<stored, scheme, header, form, chosen, saving>> /\ Spend("failures")
  BY <1>2 DEF FailRequest, PreferencesInv, PreferencesTypeOK
<1>5. Fits(q)'
  BY <1>1, <1>3 DEF PreferencesInv, RequestsFit, Fits
<1>6. sending' \in [Sending -> Request \cup {NotSent}] /\ RequestsFit' /\ HeadersWait'
  BY <1>1, <1>3, <1>4, <1>5, MoveKeeps
<1>7. PreferencesTypeOK'
  BY <1>4, <1>6 DEF PreferencesInv, PreferencesTypeOK, Spend
<1>8. CityHasCountry' /\ ChosenIsShown' /\ LastIsRepaired'
  BY <1>4, PreferencesAssumption
     DEF PreferencesInv, CityHasCountry, MayStore, ChosenIsShown, LastIsRepaired
<1>9. SavesAgree'
  <2>1. sending'[r] = q /\ \A p \in Sending \ {r} : sending'[p] = sending[p]
    BY <1>4 DEF PreferencesInv, PreferencesTypeOK
  <2> QED  BY <2>1, <1>3, <1>4, SavesRemain
<1> QED  BY <1>6, <1>7, <1>8, <1>9 DEF PreferencesInv

-----------------------------------------------------------------------------
(* The theorems                                                            *)

LEMMA InitHolds == PreferencesInit => PreferencesInv
<1> SUFFICES ASSUME PreferencesInit PROVE PreferencesInv
  OBVIOUS
<1>1. PICK s \in PreferenceScenarios :
        /\ scheme = s.scheme
        /\ budget = [signIns |-> s.signIns, toggles |-> s.toggles, forms |-> s.forms,
                     edits |-> s.edits, failures |-> s.failures]
  BY DEF PreferencesInit
<1>2. /\ scheme \in [Browser -> Theme \cup {Unset}]
      /\ budget \in [{"signIns", "toggles", "forms", "edits", "failures"} -> Nat]
  <2>1. /\ s.scheme \in [Browser -> Theme \cup {Unset}]
        /\ {s.signIns, s.toggles, s.forms, s.edits, s.failures} \subseteq Nat
    BY PreferencesAssumption
  <2>2. /\ s.signIns \in Nat /\ s.toggles \in Nat /\ s.forms \in Nat /\ s.edits \in Nat
        /\ s.failures \in Nat
    BY <2>1
  <2> QED  BY <2>1, <2>2, <1>1
<1>3. form \in Forms
  BY Drafts DEF PreferencesInit, NoForm, Forms
<1>4. PreferencesTypeOK
  BY <1>2, <1>3 DEF PreferencesInit, PreferencesTypeOK, Forms
<1>5. RequestsFit /\ HeadersWait
  BY PreferencesAssumption DEF PreferencesInit, RequestsFit, HeadersWait
<1>6. CityHasCountry /\ ChosenIsShown /\ SavesAgree /\ LastIsRepaired
  BY PreferencesAssumption
     DEF PreferencesInit, CityHasCountry, MayStore, NoRow, ChosenIsShown, SavesAgree, Saves,
         LastIsRepaired
<1> QED  BY <1>4, <1>5, <1>6 DEF PreferencesInv

LEMMA StepKeeps ==
  ASSUME PreferencesInv, [PreferencesNext]_preferenceVars
  PROVE  PreferencesInv'
<1>1. ASSUME NEW b \in Browser,
             OpenTab(b) \/ SignOut(b) \/ Toggle(b) \/ OpenForm(b) \/ CloseForm(b) \/ Edit(b)
               \/ Save(b)
      PROVE  PreferencesInv'
  BY <1>1, OpenTabKeeps, SignOutKeeps, ToggleKeeps, OpenFormKeeps, FormChangesKeep, SaveKeeps
<1>2. ASSUME NEW r \in Sending,
             HeaderAnswered(r) \/ FormLoaded(r) \/ Saved(r) \/ Dropped(r)
      PROVE  PreferencesInv'
  BY <1>2, HeaderAnsweredKeeps, FormLoadedKeeps, SavedKeeps, DroppedKeeps
<1>3. ASSUME NEW r \in Sending, EnsureRecord(r) \/ UpdateRecord(r) \/ FailRequest(r)
      PROVE  PreferencesInv'
  BY <1>3, EnsureRecordKeeps, UpdateRecordKeeps, FailRequestKeeps
<1>4. CASE UNCHANGED preferenceVars
  BY <1>4 DEF preferenceVars, PreferencesInv, PreferencesTypeOK, RequestsFit, Fits, HeadersWait,
     CityHasCountry, MayStore, ChosenIsShown, SavesAgree, Saves, LastIsRepaired, Repairs,
     RowFollows, Screen
<1> QED  BY <1>1, <1>2, <1>3, <1>4 DEF PreferencesNext

(* Every state satisfies the inductive invariant: a request is checked for *)
(* what it will write, a header waits for a request of its own, a save is  *)
(* the last choice of its browser or nothing is claimed of it, and after   *)
(* the last browser was opened nothing but its answer and its repair of    *)
(* the row is under way (Layout.tsx, Settings.tsx, PreferencesService).    *)
THEOREM PreferencesInvariant == PreferencesSpec => []PreferencesInv
<1>1. PreferencesInit => PreferencesInv
  BY InitHolds
<1>2. PreferencesInv /\ [PreferencesNext]_preferenceVars => PreferencesInv'
  BY StepKeeps
<1> QED  BY <1>1, <1>2, PTL DEF PreferencesSpec

(* The preferences, the browsers and the requests stay in their types.     *)
THEOREM PreferencesTypes == PreferencesSpec => []PreferencesTypeOK
<1>1. PreferencesInv => PreferencesTypeOK
  BY DEF PreferencesInv
<1> QED  BY <1>1, PreferencesInvariant, PTL

(* The theme chosen in a browser, with no save of that browser under way   *)
(* then or by a save that nothing was chosen after, is on its screen, and  *)
(* the row has the theme of the screen once the last browser was opened    *)
(* and answered (the effect of Layout.tsx, and Settings.tsx).              *)
THEOREM Agreement == PreferencesSpec => []ThemesAgree
<1>1. PreferencesInv => ThemesAgree
  <2>1. ASSUME PreferencesInv, NEW b \in Browser, chosen[b] # Unset PROVE Screen(b) = chosen[b]
    BY <2>1 DEF PreferencesInv, ChosenIsShown, Screen
  <2>2. ASSUME PreferencesInv, NEW b \in Browser, lastOpened = b, header[b] = Quiet,
               \A r \in Sending : sending[r] = NotSent \/ sending[r].patch = NoPatch
        PROVE  stored.theme = Screen(b)
    BY <2>2 DEF PreferencesInv, LastIsRepaired, RowFollows
  <2> QED  BY <2>1, <2>2 DEF ThemesAgree
<1> QED  BY <1>1, PreferencesInvariant, PTL

(* A city is stored with its country only: a theme is written without the  *)
(* place, and the form writes both (validateLocationPair).                 *)
THEOREM Located == PreferencesSpec => []CityHasCountry
<1>1. PreferencesInv => CityHasCountry
  BY DEF PreferencesInv
<1> QED  BY <1>1, PreferencesInvariant, PTL

-----------------------------------------------------------------------------
(* The three parts side by side                                            *)

(* A behaviour of all is, for each part, one of that part, or one in which *)
(* it stands still.                                                        *)
LEMMA PartsOfAccount == AccountSpec => Spec /\ DashSpec /\ PreferencesSpec
  <1>1. AccountInit => Init /\ DashInit /\ PreferencesInit
    BY DEF AccountInit
  <1>2. [AccountNext]_accountVars => [Next]_vars
    BY DEF AccountNext, accountVars
  <1>3. [AccountNext]_accountVars => [DashNext]_<<dashVars, reportVars>>
    BY DEF AccountNext, accountVars
  <1>4. [AccountNext]_accountVars => [PreferencesNext]_preferenceVars
    BY DEF AccountNext, accountVars
  <1>. QED  BY <1>1, <1>2, <1>3, <1>4, PTL DEF AccountSpec, Spec, DashSpec, PreferencesSpec

(* TypesOK: sign-in, reports and preferences keep their types together     *)
(* (Auth, Reports and Dashboard, Preferences).                             *)
THEOREM AccountTypes == AccountSpec => []TypesOK
  <1>1. TypeOK /\ DashTypeOK /\ PreferencesTypeOK => TypesOK
    BY DEF TypesOK
  <1>. QED  BY <1>1, PartsOfAccount, TypeCorrect, DashboardTypes, PreferencesTypes, PTL

=============================================================================
