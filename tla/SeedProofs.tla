----------------------------- MODULE SeedProofs -----------------------------
(***************************************************************************)
(* Proofs about Seed, for any accounts and any lists that are seeded: a    *)
(* run that comes to its end undisturbed leaves the database as the lists  *)
(* say, however many runs died before it.  And about MCReadiness, in which *)
(* the seed stands beside the engines, the questionnaire, the matching of  *)
(* vacancies and the cases.                                                *)
(***************************************************************************)
EXTENDS MCReadiness, CasesProofs, ReadinessProofs

-----------------------------------------------------------------------------
(* Lists                                                                   *)

(* A list is one of its own elements.                                      *)
LEMMA OwnRange ==
  ASSUME NEW T, NEW s \in Seq(T)
  PROVE  s \in Seq(ToSet(s))
  <1>1. DOMAIN s = 1 .. Len(s) /\ Len(s) \in Nat
    BY LenProperties
  <1>. QED  BY <1>1 DEF ToSet

(* A list that is not empty is its first element and the rest.             *)
LEMMA ListRange ==
  ASSUME NEW T, NEW s \in Seq(T), s # <<>>
  PROVE  /\ Head(s) \in T /\ Tail(s) \in Seq(T) /\ Len(Tail(s)) = Len(s) - 1
         /\ ToSet(s) = {Head(s)} \cup ToSet(Tail(s)) /\ ToSet(s) \subseteq T
         /\ \A i \in DOMAIN Tail(s) : Tail(s)[i] = s[i + 1]
  <1>1. /\ Head(s) \in T /\ Tail(s) \in Seq(T) /\ Len(Tail(s)) = Len(s) - 1 /\ Len(s) \in Nat \ {0}
        /\ \A i \in 1 .. Len(Tail(s)) : Tail(s)[i] = s[i + 1]
    BY HeadTailProperties, EmptySeq, LenProperties
  <1>2. Head(s) = s[1] /\ 1 \in DOMAIN s /\ DOMAIN s = 1 .. Len(s) /\ DOMAIN Tail(s) = 1 .. Len(s) - 1
    BY <1>1
  <1>3. \A x \in ToSet(s) : x = Head(s) \/ x \in ToSet(Tail(s))
    <2>. SUFFICES ASSUME NEW i \in DOMAIN s, i # 1 PROVE s[i] \in ToSet(Tail(s))
      BY <1>2 DEF ToSet
    <2>1. i - 1 \in DOMAIN Tail(s) /\ Tail(s)[i - 1] = s[i]
      BY <1>1, <1>2
    <2>. QED  BY <2>1 DEF ToSet
  <1>4. \A x \in ToSet(Tail(s)) : x \in ToSet(s)
    <2>. SUFFICES ASSUME NEW i \in DOMAIN Tail(s) PROVE Tail(s)[i] \in ToSet(s)
      BY DEF ToSet
    <2>1. i + 1 \in DOMAIN s /\ Tail(s)[i] = s[i + 1]
      BY <1>1, <1>2
    <2>. QED  BY <2>1 DEF ToSet
  <1>5. Head(s) \in ToSet(s) /\ ToSet(s) \subseteq T
    BY <1>2 DEF ToSet
  <1>. QED  BY <1>1, <1>2, <1>3, <1>4, <1>5

(* A list and one more.                                                    *)
LEMMA AppendIs ==
  ASSUME NEW T, NEW s \in Seq(T), NEW e \in T
  PROVE  /\ Append(s, e) \in Seq(T) /\ Len(Append(s, e)) = Len(s) + 1
         /\ DOMAIN Append(s, e) = 1 .. Len(s) + 1 /\ Append(s, e)[Len(s) + 1] = e
         /\ \A i \in DOMAIN s : Append(s, e)[i] = s[i]
         /\ DOMAIN s = 1 .. Len(s) /\ Len(s) \in Nat
  <1>1. /\ Append(s, e) \in Seq(T) /\ Len(Append(s, e)) = Len(s) + 1
        /\ \A i \in 1 .. Len(s) : Append(s, e)[i] = s[i]
        /\ Append(s, e)[Len(s) + 1] = e
    BY AppendProperties
  <1>2. DOMAIN s = 1 .. Len(s) /\ Len(s) \in Nat
    BY LenProperties
  <1>3. DOMAIN Append(s, e) = 1 .. Len(Append(s, e))
    BY <1>1, LenProperties
  <1>. QED  BY <1>1, <1>2, <1>3

(* Taking the first of two lists put together takes it from the first      *)
(* list.                                                                   *)
LEMMA TailOfConcat ==
  ASSUME NEW T, NEW s \in Seq(T), NEW t \in Seq(T), s # <<>>
  PROVE  s \o t # <<>> /\ Head(s \o t) = Head(s) /\ Tail(s \o t) = Tail(s) \o t
  <1>1. PICK w \in Nat, v \in Nat : Len(s) = w + 1 /\ Len(t) = v
    <2>1. Len(s) \in Nat \ {0} /\ Len(t) \in Nat
      BY LenProperties, EmptySeq
    <2>2. Len(s) - 1 \in Nat /\ Len(s) = (Len(s) - 1) + 1
      BY <2>1
    <2>. QED  BY <2>1, <2>2
  <1>2. PICK c \in Seq(T) : /\ c = s \o t /\ Len(c) = w + 1 + v
                            /\ \A i \in 1 .. w + 1 + v : c[i] = IF i <= w + 1 THEN s[i] ELSE t[i - (w + 1)]
    <2>1. s \o t \in Seq(T) /\ Len(s \o t) = w + 1 + v
      BY <1>1, ConcatProperties
    <2>2. \A i \in 1 .. Len(s) + Len(t) : (s \o t)[i] = IF i <= Len(s) THEN s[i] ELSE t[i - Len(s)]
      BY ConcatProperties, Zenon
    <2>. QED  BY <1>1, <2>1, <2>2
  <1>3. c # <<>>
    BY <1>1, <1>2, EmptySeq
  <1>4. PICK p \in Seq(T) : p = Tail(s) /\ Len(p) = w /\ \A i \in 1 .. w : p[i] = s[i + 1]
    <2>1. Tail(s) \in Seq(T) /\ Len(Tail(s)) = w
      BY <1>1, HeadTailProperties
    <2>2. \A i \in 1 .. Len(Tail(s)) : Tail(s)[i] = s[i + 1]
      BY HeadTailProperties, Zenon
    <2>. QED  BY <2>1, <2>2
  <1>5. PICK q \in Seq(T) : q = Tail(c) /\ Len(q) = w + v /\ \A i \in 1 .. w + v : q[i] = c[i + 1]
    <2>1. Tail(c) \in Seq(T) /\ Len(Tail(c)) = w + v
      BY <1>1, <1>2, <1>3, HeadTailProperties
    <2>2. \A i \in 1 .. Len(Tail(c)) : Tail(c)[i] = c[i + 1]
      BY <1>3, HeadTailProperties, Zenon
    <2>. QED  BY <2>1, <2>2
  <1>6. PICK d \in Seq(T) : /\ d = p \o t /\ Len(d) = w + v
                            /\ \A i \in 1 .. w + v : d[i] = IF i <= w THEN p[i] ELSE t[i - w]
    <2>1. p \o t \in Seq(T) /\ Len(p \o t) = w + v
      BY <1>1, <1>4, ConcatProperties
    <2>2. \A i \in 1 .. Len(p) + Len(t) : (p \o t)[i] = IF i <= Len(p) THEN p[i] ELSE t[i - Len(p)]
      BY ConcatProperties, Zenon
    <2>3. Len(p) = w /\ Len(t) = v
      BY <1>1, <1>4
    <2>4. \A i \in 1 .. w + v : (p \o t)[i] = IF i <= w THEN p[i] ELSE t[i - w]
      BY <2>2, <2>3, Zenon
    <2>. QED  BY <2>1, <2>4
  <1>7. ASSUME NEW i \in 1 .. w + v PROVE q[i] = d[i]
    <2>1. PICK k : k = i + 1
      OBVIOUS
    <2>2. k \in 1 .. w + 1 + v /\ q[i] = c[k]
      BY <1>5, <2>1
    <2>3. CASE i <= w
      <3>1. k <= w + 1 /\ i \in 1 .. w
        BY <2>1, <2>3
      <3>2. c[k] = s[k] /\ p[i] = s[k] /\ d[i] = p[i]
        BY <1>2, <1>4, <1>6, <2>1, <2>2, <2>3, <3>1
      <3>. QED  BY <2>2, <3>2
    <2>4. CASE ~ (i <= w)
      <3>1. ~ (k <= w + 1) /\ k - (w + 1) = i - w
        BY <2>1, <2>4
      <3>2. c[k] = t[k - (w + 1)] /\ d[i] = t[i - w]
        BY <1>2, <1>6, <2>2, <2>4, <3>1
      <3>. QED  BY <2>2, <3>1, <3>2
    <2>. QED  BY <2>3, <2>4
  <1>8. q = d
    BY <1>5, <1>6, <1>7, SeqEqual
  <1>9. Head(c) = c[1] /\ c[1] = s[1] /\ Head(s) = s[1]
    BY <1>1, <1>2, <1>3
  <1>. QED  BY <1>2, <1>3, <1>4, <1>5, <1>6, <1>8, <1>9, SMTT(60)

-----------------------------------------------------------------------------
(* What a run remembers, and what it is made of                            *)

(* Seed: what a run remembers and what it is made of.                      *)
Roles == {"USER", "PREMIUM", "ADMIN", "SPECIALIST", Missing}
SubscriptionRow ==
  [user : Account, plan : {"FREE", "PREMIUM"}, active : BOOLEAN,
   expires : Nat \cup {Forever}, since : Nat]
SkillRow == [name : SkillNames \cup {NewName}, parent : Nat]
Visits == [user : Account, role : Roles, todo : {"find", "give", "role"}]
Listing == [todo |-> "list"]
Kind(phase) ==
  CASE phase = "accounts" -> Demo
    [] phase = "plans" -> ToSet(PlanRows)
    [] phase = "payments" -> {"close free", "open free", "close premium", "open premium",
                              "pay premium", "pay free"}
    [] phase = "users" -> Visits \cup {Listing}
    [] phase = "skills" -> ToSet(SeedSkills)
    [] phase = "aliases" -> ToSet(Aliases)
    [] phase = "transfers" -> ToSet(SeedTransfers)
    [] phase = "competencies" -> ToSet(SeedSkills)
    [] phase = "parents" -> ToSet(Children)
    [] phase = "rows" -> ToSet(CatalogRows)
    [] phase = "done" -> {}

LineOf == [accounts |-> 1, plans |-> 2, payments |-> 3, users |-> 4, skills |-> 5, aliases |-> 6,
           transfers |-> 7, competencies |-> 8, parents |-> 9, rows |-> 10, done |-> 11]

(* The phases follow each other as they are numbered.                      *)
LEMMA NextPhase ==
  \A p \in DOMAIN LineOf \ {"done"} : PhaseAfter(p) \in DOMAIN LineOf /\ LineOf[PhaseAfter(p)] = LineOf[p] + 1
  <1>1. DOMAIN LineOf = {"accounts", "plans", "payments", "users", "skills", "aliases", "transfers",
                     "competencies", "parents", "rows", "done"}
    BY DEF LineOf
  <1>2. DOMAIN Phases = 1 .. 11
    BY DEF Phases
  <1>3. \A p \in DOMAIN LineOf : Phases[LineOf[p]] = p /\ LineOf[p] \in 1 .. 11 /\ (p # "done" => LineOf[p] \in 1 .. 10)
    BY <1>1 DEF LineOf, Phases
  <1>4. \A i \in 1 .. 11 : Phases[i] \in DOMAIN LineOf /\ LineOf[Phases[i]] = i
    BY <1>1 DEF LineOf, Phases
  <1>5. SUFFICES ASSUME NEW p \in DOMAIN LineOf, p # "done"
                 PROVE  PhaseAfter(p) \in DOMAIN LineOf /\ LineOf[PhaseAfter(p)] = LineOf[p] + 1
    OBVIOUS
  <1>6. PICK i : i = (CHOOSE j \in DOMAIN Phases : Phases[j] = p)
    OBVIOUS
  <1>7. i \in 1 .. 11 /\ Phases[i] = p
    BY <1>2, <1>3, <1>6, Zenon
  <1>8. i = LineOf[p] /\ PhaseAfter(p) = Phases[1 + i] /\ 1 + i \in 1 .. 11
    <2>1. i = LineOf[p]
      BY <1>4, <1>7
    <2>2. PhaseAfter(p) = Phases[1 + i]
      BY <1>6 DEF PhaseAfter
    <2>3. LineOf[p] \in 1 .. 10
      BY <1>3, <1>5
    <2>. QED  BY <2>1, <2>2, <2>3
  <1>9. LineOf[p] = i /\ PhaseAfter(p) \in DOMAIN LineOf /\ LineOf[PhaseAfter(p)] = 1 + i
    <2>1. PICK j : j = 1 + i
      OBVIOUS
    <2>2. j \in 1 .. 11 /\ PhaseAfter(p) = Phases[j]
      BY <1>8, <2>1
    <2>3. Phases[j] \in DOMAIN LineOf /\ LineOf[Phases[j]] = j
      BY <1>4, <2>2
    <2>. QED  BY <1>8, <2>1, <2>2, <2>3
  <1>. QED  BY <1>7, <1>9

SeedSkill == [name : STRING, parent : STRING]

(* The script writes every skill, and each after the one it builds on.     *)
LEMMA SkillLists ==
  /\ Roots \in Seq(SeedSkill) /\ Children \in Seq(SeedSkill)
  /\ ToSet(Roots) = {s \in ToSet(SeedSkills) : s.parent = ""}
  /\ ToSet(Children) = {s \in ToSet(SeedSkills) : s.parent # ""}
  /\ Roots \o Children \in Seq(ToSet(SeedSkills))
  /\ ToSet(Roots \o Children) = ToSet(SeedSkills)
  /\ \A i \in DOMAIN (Roots \o Children) :
       (Roots \o Children)[i].parent # "" =>
         \E j \in 1 .. i - 1 : (Roots \o Children)[j].name = (Roots \o Children)[i].parent
  <1>1. PICK s \in Seq(SeedSkill) : s = SeedSkills
    BY SeedAssumption DEF SeedSkill
  <1>2. DOMAIN s \subseteq Int
    BY LenProperties
  <1>0. PICK A, B : A = {i \in DOMAIN s : s[i].parent = ""} /\ B = {i \in DOMAIN s : s[i].parent # ""}
    OBVIOUS
  <1>3. PICK a \in Seq(SeedSkill) : a = Roots
    BY <1>1, PickedIs DEF Roots
  <1>4. PICK b \in Seq(SeedSkill) : b = Children
    BY <1>1, PickedIs DEF Children
  <1>5. PICK f : From(a, s, A, f)
    <2>1. A = A \cap DOMAIN s /\ a = Picked(s, A)
      BY <1>0, <1>1, <1>3 DEF Roots
    <2>. QED  BY <2>1, PickedIs
  <1>6. PICK g : From(b, s, B, g)
    <2>1. B = B \cap DOMAIN s /\ b = Picked(s, B)
      BY <1>0, <1>1, <1>4 DEF Children
    <2>. QED  BY <2>1, PickedIs
  <1>7. PICK u \in Nat, v \in Nat : Len(a) = u /\ DOMAIN a = 1 .. u /\ Len(b) = v /\ DOMAIN b = 1 .. v
    BY LenProperties
  <1>8. ToSet(a) = {x \in ToSet(s) : x.parent = ""}
    <2>1. ToSet(a) = {s[i] : i \in A}
      BY <1>0, <1>5, <1>7, PickedRange
    <2>2. {s[i] : i \in A} = {x \in ToSet(s) : x.parent = ""}
      BY <1>0 DEF ToSet
    <2>. QED  BY <2>1, <2>2
  <1>9. ToSet(b) = {x \in ToSet(s) : x.parent # ""}
    <2>1. ToSet(b) = {s[i] : i \in B}
      BY <1>0, <1>6, <1>7, PickedRange
    <2>2. {s[i] : i \in B} = {x \in ToSet(s) : x.parent # ""}
      BY <1>0 DEF ToSet
    <2>. QED  BY <2>1, <2>2
  <1>10. PICK c \in Seq(SeedSkill) : /\ c = a \o b /\ DOMAIN c = 1 .. u + v
                                     /\ \A i \in 1 .. u + v : c[i] = IF i <= u THEN a[i] ELSE b[i - u]
    <2>1. PICK c \in Seq(SeedSkill) : c = a \o b
      BY ConcatProperties
    <2>2. Len(c) = Len(a) + Len(b) /\ \A i \in 1 .. Len(a) + Len(b) : c[i] = IF i <= Len(a) THEN a[i] ELSE b[i - Len(a)]
      BY <2>1, ConcatProperties, Zenon
    <2>3. DOMAIN c = 1 .. Len(c)
      BY LenProperties
    <2>. QED  BY <1>7, <2>1, <2>2, <2>3
  <1>11. DOMAIN c = 1 .. u + v /\ u + v \in Nat
    BY <1>7, <1>10
  <1>12. ToSet(c) = ToSet(s)
    <2>1. ToSet(c) = ToSet(a) \cup ToSet(b)
      BY <1>10, Concatenated
    <2>. QED  BY <1>8, <1>9, <2>1
  <1>13. c \in Seq(ToSet(s))
    BY <1>12, OwnRange
  <1>14. ASSUME NEW i \in DOMAIN c, c[i].parent # ""
         PROVE  \E j \in 1 .. i - 1 : c[j].name = c[i].parent
    <2>1. ~ (i <= u)
      <3>. SUFFICES ASSUME i <= u PROVE FALSE
        OBVIOUS
      <3>1. i \in 1 .. u /\ c[i] = a[i]
        BY <1>7, <1>10, <1>11
      <3>2. f[i] \in A /\ c[i] = s[f[i]]
        BY <1>5, <1>7, <3>1 DEF From
      <3>. QED  BY <1>0, <1>14, <3>2
    <2>2. PICK n : n = i - u
      OBVIOUS
    <2>3. n \in 1 .. v /\ c[i] = b[n] /\ i \in Nat
      BY <1>7, <1>10, <1>11, <2>1, <2>2
    <2>4. g[n] \in B /\ c[i] = s[g[n]]
      BY <1>6, <1>7, <2>3 DEF From
    <2>5. PICK k \in DOMAIN s : s[k].name = s[g[n]].parent /\ (s[k].parent = "" \/ k < g[n])
      BY <1>0, <1>1, <1>14, <2>4, SeedAssumption
    <2>6. CASE s[k].parent = ""
      <3>1. PICK j \in 1 .. u : f[j] = k
        BY <1>0, <1>5, <1>7, <2>6 DEF From
      <3>2. a[j] = s[k] /\ j \in 1 .. u + v /\ j <= u /\ j \in 1 .. i - 1
        BY <1>5, <1>7, <1>10, <2>1, <2>3, <3>1 DEF From
      <3>3. c[j] = s[k]
        BY <1>10, <3>2
      <3>. QED  BY <2>4, <2>5, <3>2, <3>3
    <2>7. CASE s[k].parent # "" /\ k < g[n]
      <3>1. PICK j \in 1 .. v : g[j] = k
        BY <1>0, <1>6, <1>7, <2>7 DEF From
      <3>2. b[j] = s[k]
        BY <1>6, <1>7, <3>1 DEF From
      <3>3. j < n
        <4>1. j # n /\ ~ (n < j)
          <5>1. PICK y : y = g[n]
            OBVIOUS
          <5>2. y \in Int /\ k \in Int /\ k < y
            BY <1>0, <1>2, <2>4, <2>7, <5>1
          <5>3. y # k /\ ~ (y < k)
            BY <5>2
          <5>4. j # n
            BY <3>1, <5>1, <5>3
          <5>5. n < j => y < k
            BY <1>6, <1>7, <2>3, <3>1, <5>1 DEF From
          <5>. QED  BY <5>3, <5>4, <5>5
        <4>. QED  BY <1>7, <2>3, <4>1
      <3>4. PICK l : l = j + u
        OBVIOUS
      <3>5. l \in 1 .. u + v /\ ~ (l <= u) /\ l - u = j /\ l \in 1 .. i - 1
        BY <1>7, <1>10, <2>2, <2>3, <3>3, <3>4
      <3>6. c[l] = s[k]
        BY <1>10, <3>2, <3>5
      <3>. QED  BY <2>4, <2>5, <3>5, <3>6
    <2>. QED  BY <2>5, <2>6, <2>7
  <1>. QED  BY <1>1, <1>3, <1>4, <1>8, <1>9, <1>10, <1>12, <1>13, <1>14

(* The statements of a phase are of its kind.                              *)
LEMMA StatementsAre ==
  ASSUME NEW p \in DOMAIN LineOf
  PROVE  Statements(p) \in Seq(Kind(p))
  <1>1. p \in {"accounts", "plans", "payments", "users", "skills", "aliases", "transfers",
               "competencies", "parents", "rows", "done"}
    BY DEF LineOf
  <1>2. CASE p = "accounts"
    BY <1>2 DEF Statements, Kind, Demo
  <1>3. CASE p = "plans"
    BY <1>3, OwnRange, SeedAssumption DEF Statements, Kind
  <1>4. CASE p = "payments"
    BY <1>4 DEF Statements, Kind
  <1>5. CASE p = "users"
    <2>1. Kind(p) = Visits \cup {Listing} /\ Statements(p) = <<Listing>>
      BY <1>5 DEF Statements, Kind, Listing
    <2>. QED  BY <2>1
  <1>6. CASE p = "skills"
    BY <1>6, SkillLists DEF Statements, Kind
  <1>7. CASE p = "aliases"
    BY <1>7, OwnRange, SeedAssumption DEF Statements, Kind
  <1>8. CASE p = "transfers"
    BY <1>8, OwnRange, SeedAssumption DEF Statements, Kind
  <1>9. CASE p = "competencies"
    BY <1>9, OwnRange, SeedAssumption DEF Statements, Kind
  <1>10. CASE p = "parents"
    BY <1>10, OwnRange, SkillLists DEF Statements, Kind
  <1>11. CASE p = "rows"
    BY <1>11, OwnRange, SeedAssumption DEF Statements, Kind
  <1>12. CASE p = "done"
    BY <1>12 DEF Statements, Kind
  <1>. QED  BY <1>1, <1>2, <1>3, <1>4, <1>5, <1>6, <1>7, <1>8, <1>9, <1>10, <1>11, <1>12

(* What is left of a run when a statement of it has been executed.         *)
GoesOn(r) ==
  IF Tail(r.left) # <<>> THEN [r EXCEPT !.left = Tail(r.left)]
  ELSE [r EXCEPT !.phase = PhaseAfter(r.phase), !.left = Statements(PhaseAfter(r.phase))]

(* A run, with n subscriptions and m skills to refer to.                   *)
IsRun(r, n, m) ==
  /\ DOMAIN r = {"phase", "left", "ids", "began", "since", "opened"}
  /\ r.phase \in DOMAIN LineOf
  /\ r.left \in Seq(Kind(r.phase))
  /\ r.ids \in [SkillNames -> 0 .. m]
  /\ r.began \in Nat /\ r.since \in Nat
  /\ r.opened \in [{"free", "premium"} -> 0 .. n]

(* A statement that the run has still to execute.                          *)
Pending(r, phase, x) ==
  \/ LineOf[r.phase] < LineOf[phase]
  \/ r.phase = phase /\ x \in ToSet(r.left)

(* No statement but the one executed ceases to be pending.                 *)
StillPending(r, g) ==
  \A p \in DOMAIN LineOf : \A x \in ToSet(Statements(p)) :
    Pending(r, p, x) => Pending(g, p, x) \/ (p = r.phase /\ x = Head(r.left))

(* A run that goes on stays a run, at the rest of its phase or at the      *)
(* beginning of the next; what was pending stays so, but for the           *)
(* statement executed.                                                     *)
LEMMA MovesOn ==
  ASSUME NEW n, NEW m, NEW r, IsRun(r, n, m), r.left # <<>>
  PROVE  /\ IsRun(GoesOn(r), n, m)
         /\ GoesOn(r).ids = r.ids /\ GoesOn(r).began = r.began /\ GoesOn(r).since = r.since
         /\ GoesOn(r).opened = r.opened
         /\ r.phase # "done" /\ Head(r.left) \in Kind(r.phase) /\ Head(r.left) \in ToSet(r.left)
         /\ \/ GoesOn(r).phase = r.phase /\ GoesOn(r).left = Tail(r.left) /\ Tail(r.left) # <<>>
            \/ /\ GoesOn(r).phase = PhaseAfter(r.phase) /\ LineOf[GoesOn(r).phase] = LineOf[r.phase] + 1
               /\ GoesOn(r).left = Statements(PhaseAfter(r.phase)) /\ Tail(r.left) = <<>>
         /\ StillPending(r, GoesOn(r))
  <1>1. r.left \in Seq(Kind(r.phase)) /\ r.phase \in DOMAIN LineOf
    BY DEF IsRun
  <1>2. r.phase # "done"
    <2>1. Head(r.left) \in Kind(r.phase)
      BY <1>1, ListRange
    <2>. QED  BY <2>1 DEF Kind
  <1>3. PhaseAfter(r.phase) \in DOMAIN LineOf /\ LineOf[PhaseAfter(r.phase)] = LineOf[r.phase] + 1
    BY <1>1, <1>2, NextPhase
  <1>4. Statements(PhaseAfter(r.phase)) \in Seq(Kind(PhaseAfter(r.phase)))
    BY <1>3, StatementsAre
  <1>5. PICK t : t = Tail(r.left)
    OBVIOUS
  <1>6. /\ t \in Seq(Kind(r.phase)) /\ ToSet(r.left) = {Head(r.left)} \cup ToSet(t)
        /\ Head(r.left) \in Kind(r.phase)
    BY <1>1, <1>5, ListRange
  <1>7. \A p \in DOMAIN LineOf : LineOf[p] \in Int
    BY DEF LineOf
  <1>8. \A p \in DOMAIN LineOf : LineOf[p] = LineOf[r.phase] => p = r.phase
    BY <1>1 DEF LineOf
  <1>9. CASE t # <<>>
    <2>1. GoesOn(r) = [r EXCEPT !.left = t]
      BY <1>5, <1>9 DEF GoesOn
    <2>2. /\ DOMAIN GoesOn(r) = DOMAIN r /\ GoesOn(r).left = t /\ GoesOn(r).phase = r.phase
          /\ GoesOn(r).ids = r.ids /\ GoesOn(r).began = r.began /\ GoesOn(r).since = r.since
          /\ GoesOn(r).opened = r.opened
      BY <2>1 DEF IsRun
    <2>3. IsRun(GoesOn(r), n, m)
      BY <1>6, <2>2 DEF IsRun
    <2>4. \A p \in DOMAIN LineOf : \A x :
            Pending(r, p, x) => Pending(GoesOn(r), p, x) \/ (p = r.phase /\ x = Head(r.left))
      BY <1>6, <2>2 DEF Pending
    <2>5. StillPending(r, GoesOn(r))
      BY <2>4 DEF StillPending
    <2>. QED  BY <1>2, <1>5, <1>6, <1>9, <2>2, <2>3, <2>5
  <1>10. CASE t = <<>>
    <2>1. GoesOn(r) = [r EXCEPT !.phase = PhaseAfter(r.phase), !.left = Statements(PhaseAfter(r.phase))]
      BY <1>5, <1>10 DEF GoesOn
    <2>2. /\ DOMAIN GoesOn(r) = DOMAIN r /\ GoesOn(r).left = Statements(PhaseAfter(r.phase))
          /\ GoesOn(r).phase = PhaseAfter(r.phase)
          /\ GoesOn(r).ids = r.ids /\ GoesOn(r).began = r.began /\ GoesOn(r).since = r.since
          /\ GoesOn(r).opened = r.opened
      BY <2>1 DEF IsRun
    <2>3. IsRun(GoesOn(r), n, m)
      BY <1>3, <1>4, <2>2 DEF IsRun
    <2>4. ASSUME NEW p \in DOMAIN LineOf, NEW x \in ToSet(Statements(p)), Pending(r, p, x)
          PROVE  Pending(GoesOn(r), p, x) \/ (p = r.phase /\ x = Head(r.left))
      <3>1. CASE p = r.phase
        <4>1. x \in ToSet(r.left)
          BY <1>7, <2>4, <3>1 DEF Pending
        <4>2. ToSet(t) = {}
          BY <1>10 DEF ToSet
        <4>. QED  BY <1>6, <3>1, <4>1, <4>2
      <3>2. CASE p = PhaseAfter(r.phase)
        BY <2>2, <2>4, <3>2 DEF Pending
      <3>3. CASE p # r.phase /\ p # PhaseAfter(r.phase)
        <4>1. LineOf[r.phase] < LineOf[p]
          BY <2>4, <3>3 DEF Pending
        <4>2. LineOf[p] # LineOf[PhaseAfter(r.phase)]
          BY <1>3, <3>3 DEF LineOf
        <4>. QED  BY <1>1, <1>3, <1>7, <2>2, <4>1, <4>2 DEF Pending
      <3>. QED  BY <3>1, <3>2, <3>3
    <2>5. StillPending(r, GoesOn(r))
      BY <2>4 DEF StillPending
    <2>. QED  BY <1>2, <1>3, <1>5, <1>6, <1>10, <2>2, <2>3, <2>5
  <1>. QED  BY <1>9, <1>10

-----------------------------------------------------------------------------
(* The accounts to visit                                                   *)

(* The visits of the accounts that are listed.                             *)
VisitsOf(users) ==
  FlattenSeq([i \in 1 .. Cardinality(users) |->
    LET a == SetToSeq(users)[i] IN <<Visit(a, "find"), Visit(a, "role")>>])

(* Each account listed is visited twice, first to find its plan.           *)
LEMMA VisitsAre ==
  ASSUME NEW users, IsFiniteSet(users)
  PROVE  /\ VisitsOf(users) \in Seq({Visit(a, todo) : a \in users, todo \in {"find", "role"}})
         /\ \A a \in users : Visit(a, "find") \in ToSet(VisitsOf(users))
  <1>. DEFINE V == {Visit(a, todo) : a \in users, todo \in {"find", "role"}}
  <1>2. PICK u : u = SetToSeq(users) /\ DOMAIN u = 1 .. Cardinality(users) /\ ToSet(u) = users
    BY SetToSeqIs
  <1>. DEFINE g == [i \in DOMAIN u |-> <<Visit(u[i], "find"), Visit(u[i], "role")>>]
  <1>3. g = [i \in 1 .. Cardinality(users) |->
               LET a == SetToSeq(users)[i] IN <<Visit(a, "find"), Visit(a, "role")>>]
    BY <1>2
  <1>4. VisitsOf(users) = FlattenSeq(g)
    BY <1>3, Zenon DEF VisitsOf
  <1>5. Cardinality(users) \in Nat
    BY FS_CardinalityType
  <1>6. \A i \in DOMAIN u : u[i] \in users
    BY <1>2 DEF ToSet
  <1>7. \A i \in DOMAIN u : g[i] \in Seq(V) /\ Visit(u[i], "find") \in ToSet(g[i])
    <2>1. SUFFICES ASSUME NEW i \in DOMAIN u PROVE g[i] \in Seq(V) /\ Visit(u[i], "find") \in ToSet(g[i])
      OBVIOUS
    <2>2. Visit(u[i], "find") \in V /\ Visit(u[i], "role") \in V
      BY <1>6
    <2>. HIDE DEF V
    <2>3. PICK x \in V, y \in V : x = Visit(u[i], "find") /\ y = Visit(u[i], "role")
      BY <2>2
    <2>4. g[i] = <<x, y>>
      BY <2>3
    <2>5. <<x, y>> \in Seq(V) /\ x \in ToSet(<<x, y>>)
      BY DEF ToSet
    <2>. QED  BY <2>3, <2>4, <2>5
  <1>8. DOMAIN g = 1 .. Cardinality(users)
    BY <1>2
  <1>9. g \in Seq(Seq(V))
    <2>1. PICK n \in Nat : n = Cardinality(users)
      BY <1>5
    <2>. HIDE DEF V
    <2>2. g \in [1 .. n -> Seq(V)]
      BY <1>2, <1>7, <2>1
    <2>. HIDE DEF g
    <2>. QED  BY <2>2
  <1>. HIDE DEF g
  <1>10. FlattenSeq(g) \in Seq(V) /\ \A i \in DOMAIN g : ToSet(g[i]) \subseteq ToSet(FlattenSeq(g))
    <2>. HIDE DEF V
    <2>. QED  BY <1>9, FlatIs
  <1>11. \A a \in users : \E i \in DOMAIN u : a = u[i]
    BY <1>2 DEF ToSet
  <1>. QED  BY <1>2, <1>4, <1>7, <1>8, <1>10, <1>11

-----------------------------------------------------------------------------
(* The types                                                               *)

(* The accounts that a run has still to visit are there.                   *)
VisitsHere(r, role) ==
  r.phase = "users" => \A v \in ToSet(r.left) : v.todo # "list" => role[v.user] # Missing

ParentNames == {s.parent : s \in ToSet(SeedSkills)} \cup {""}
CompetencyRow == [legacy : Nat, parent : ParentNames]

(* The tables, typed closely enough for the steps to keep it.              *)
SeedDataOK ==
  /\ roleOf \in [Account -> Roles]
  /\ subscriptions \in Seq(SubscriptionRow)
  /\ paid \in [{"free", "premium"} -> 0 .. Len(subscriptions)]
  /\ skills \in Seq(SkillRow)
  /\ \A i \in DOMAIN skills : skills[i].parent <= Len(skills)
  /\ \A i, k \in DOMAIN skills : skills[i].name = skills[k].name => i = k
  /\ competencies \in [SkillNames -> CompetencyRow]
  /\ \A n \in SkillNames : competencies[n].legacy <= Len(skills)
  /\ rows \in [SeededRows -> {"seed", "other", Missing}]
  /\ DOMAIN aliasOf = {p[1] : p \in ToSet(Aliases)}
  /\ seedDay \in Nat

(* The script fits the tables.                                             *)
SeedRunOK ==
  \/ script = NotRunning
  \/ IsRun(script, Len(subscriptions), Len(skills)) /\ VisitsHere(script, roleOf)

(* The statement to be executed is of the kind of its phase.               *)
LEMMA StatementHere ==
  ASSUME SeedRunOK, NEW p \in DOMAIN LineOf, InPhase(p)
  PROVE  /\ IsRun(script, Len(subscriptions), Len(skills)) /\ VisitsHere(script, roleOf)
         /\ script.left # <<>> /\ script.phase = p /\ Statement \in Kind(p)
         /\ Statement \in ToSet(script.left) /\ Statement = Head(script.left)
  <1>1. script.left # <<>> /\ script.phase = p
    BY DEF InPhase
  <1>2. script # NotRunning
    <2>1. NotRunning.phase = "none" /\ "none" \notin DOMAIN LineOf
      BY DEF NotRunning, LineOf
    <2>. QED  BY <1>1, <2>1
  <1>3. IsRun(script, Len(subscriptions), Len(skills)) /\ VisitsHere(script, roleOf)
    BY <1>2 DEF SeedRunOK
  <1>4. script.left \in Seq(Kind(p))
    BY <1>1, <1>3 DEF IsRun
  <1>. QED  BY <1>1, <1>3, <1>4, ListRange DEF Statement

(* What Onward makes of the script.                                        *)
LEMMA OnwardIs ==
  ASSUME NEW r, r.phase = script.phase, Onward(r)
  PROVE  script' = GoesOn(r)
  BY DEF Onward, GoesOn

(* A run stays one when rows are added.                                    *)
LEMMA MoreOfARun ==
  ASSUME NEW n \in Nat, NEW m \in Nat, NEW n2 \in Nat, NEW m2 \in Nat, n <= n2, m <= m2,
         NEW r, IsRun(r, n, m)
  PROVE  IsRun(r, n2, m2)
  <1>1. 0 .. n \subseteq 0 .. n2 /\ 0 .. m \subseteq 0 .. m2
    OBVIOUS
  <1>2. r.ids \in [SkillNames -> 0 .. m2] /\ r.opened \in [{"free", "premium"} -> 0 .. n2]
    BY <1>1 DEF IsRun
  <1>. QED  BY <1>2 DEF IsRun

(* What is left of the visits.                                             *)
LEMMA UsersLeft ==
  ASSUME NEW n, NEW m, NEW r, IsRun(r, n, m), r.left # <<>>, GoesOn(r).phase = "users"
  PROVE  \/ r.phase = "users" /\ ToSet(GoesOn(r).left) = ToSet(Tail(r.left)) /\ Tail(r.left) # <<>>
         \/ ToSet(GoesOn(r).left) = {Listing} /\ r.phase # "users"
  <1>1. CASE GoesOn(r).phase = r.phase /\ GoesOn(r).left = Tail(r.left) /\ Tail(r.left) # <<>>
    BY <1>1
  <1>2. CASE /\ GoesOn(r).phase = PhaseAfter(r.phase) /\ LineOf[GoesOn(r).phase] = LineOf[r.phase] + 1
             /\ GoesOn(r).left = Statements(PhaseAfter(r.phase))
    <2>1. GoesOn(r).left = <<Listing>>
      BY <1>2 DEF Statements, Listing
    <2>2. ToSet(<<Listing>>) = {Listing}
      BY DEF ToSet
    <2>3. r.phase # "users"
      BY <1>2 DEF LineOf
    <2>. QED  BY <2>1, <2>2, <2>3
  <1>3. \/ GoesOn(r).phase = r.phase /\ GoesOn(r).left = Tail(r.left) /\ Tail(r.left) # <<>>
        \/ /\ GoesOn(r).phase = PhaseAfter(r.phase) /\ LineOf[GoesOn(r).phase] = LineOf[r.phase] + 1
           /\ GoesOn(r).left = Statements(PhaseAfter(r.phase))
    BY MovesOn, ZenonT(60)
  <1>. QED  BY <1>1, <1>2, <1>3

(* Visits stay to accounts that there are.                                 *)
LEMMA VisitsStay ==
  ASSUME NEW n, NEW m, NEW r, IsRun(r, n, m), r.left # <<>>,
         NEW role, VisitsHere(r, role),
         NEW role2, \A a \in Account : role[a] # Missing => role2[a] # Missing
  PROVE  VisitsHere(GoesOn(r), role2)
  <1>1. SUFFICES ASSUME GoesOn(r).phase = "users", NEW v \in ToSet(GoesOn(r).left), v.todo # "list"
                 PROVE  role2[v.user] # Missing
    BY DEF VisitsHere
  <1>2. Listing.todo = "list"
    BY DEF Listing
  <1>3. r.phase = "users" /\ v \in ToSet(Tail(r.left))
    BY <1>1, <1>2, UsersLeft
  <1>4. r.left \in Seq(Visits \cup {Listing})
    BY <1>3 DEF IsRun, Kind
  <1>5. v \in ToSet(r.left) /\ v \in Visits
    BY <1>1, <1>2, <1>3, <1>4, ListRange
  <1>. QED  BY <1>1, <1>3, <1>5 DEF VisitsHere, Visits

(* A step of a run that keeps its memory.                                  *)
LEMMA StepKeepsRun ==
  ASSUME SeedRunOK, NEW p \in DOMAIN LineOf, InPhase(p), Onward(script),
         SeedDataOK, Len(subscriptions') \in Nat, Len(subscriptions) <= Len(subscriptions'),
         skills' = skills, \A a \in Account : roleOf[a] # Missing => roleOf'[a] # Missing
  PROVE  SeedRunOK'
  <1>1. /\ IsRun(script, Len(subscriptions), Len(skills)) /\ VisitsHere(script, roleOf)
        /\ script.left # <<>>
    BY StatementHere
  <1>2. script' = GoesOn(script)
    BY OnwardIs
  <1>3. IsRun(script', Len(subscriptions), Len(skills)) /\ VisitsHere(script', roleOf')
    BY <1>1, <1>2, MovesOn, VisitsStay
  <1>4. Len(subscriptions) \in Nat /\ Len(skills) \in Nat
    BY LenProperties DEF SeedDataOK
  <1>5. IsRun(script', Len(subscriptions'), Len(skills'))
    BY <1>3, <1>4, MoreOfARun
  <1>. QED  BY <1>3, <1>5 DEF SeedRunOK

-----------------------------------------------------------------------------
(* Rows                                                                    *)

(* The positions of the rows.                                              *)
LEMMA DataIs ==
  ASSUME SeedDataOK
  PROVE  /\ Len(subscriptions) \in Nat /\ DOMAIN subscriptions = 1 .. Len(subscriptions)
         /\ Len(skills) \in Nat /\ DOMAIN skills = 1 .. Len(skills)
  BY LenProperties DEF SeedDataOK

(* A subscription that is opened is a row.                                 *)
LEMMA PlanIs ==
  ASSUME SeedDataOK, NEW a \in Account, NEW plan \in {"FREE", "PREMIUM"},
         NEW expires \in Nat \cup {Forever}, NEW since \in Nat
  PROVE  /\ Plan(a, plan, expires, since) \in SubscriptionRow
         /\ Now \in Nat /\ Hence \in Nat
         /\ Append(subscriptions, Plan(a, plan, expires, since)) \in Seq(SubscriptionRow)
         /\ Len(Append(subscriptions, Plan(a, plan, expires, since))) = Len(subscriptions) + 1
  <1>1. Plan(a, plan, expires, since) \in SubscriptionRow
    BY DEF Plan, SubscriptionRow
  <1>. QED  BY <1>1, DataIs, AppendIs DEF Now, Hence, SeedDataOK

(* Closing the subscriptions of one account leaves those of the others.    *)
LEMMA ClosedIs ==
  ASSUME SeedDataOK, NEW a \in Account
  PROVE  /\ ClosedFor(a) \in Seq(SubscriptionRow) /\ Len(ClosedFor(a)) = Len(subscriptions)
         /\ DOMAIN ClosedFor(a) = DOMAIN subscriptions
         /\ \A i \in DOMAIN subscriptions :
              /\ ClosedFor(a)[i].user = subscriptions[i].user
              /\ subscriptions[i].user = a => ~ ClosedFor(a)[i].active
              /\ subscriptions[i].user # a => ClosedFor(a)[i] = subscriptions[i]
  <1>1. PICK n \in Nat : n = Len(subscriptions) /\ DOMAIN subscriptions = 1 .. n
    BY DataIs
  <1>2. \A i \in DOMAIN subscriptions : subscriptions[i] \in SubscriptionRow
    BY <1>1 DEF SeedDataOK
  <1>3. ASSUME NEW i \in DOMAIN subscriptions
        PROVE  /\ ClosedFor(a)[i] \in SubscriptionRow
               /\ ClosedFor(a)[i].user = subscriptions[i].user
               /\ subscriptions[i].user = a => ~ ClosedFor(a)[i].active
               /\ subscriptions[i].user # a => ClosedFor(a)[i] = subscriptions[i]
    <2>1. PICK s \in SubscriptionRow : s = subscriptions[i]
      BY <1>2
    <2>2. ClosedFor(a)[i] = IF s.user = a THEN [s EXCEPT !.active = FALSE] ELSE s
      BY <2>1 DEF ClosedFor
    <2>3. [s EXCEPT !.active = FALSE] \in SubscriptionRow /\ [s EXCEPT !.active = FALSE].user = s.user
          /\ [s EXCEPT !.active = FALSE].active = FALSE
      BY DEF SubscriptionRow
    <2>. QED  BY <2>1, <2>2, <2>3
  <1>4. DOMAIN ClosedFor(a) = 1 .. n
    BY <1>1 DEF ClosedFor
  <1>5. ClosedFor(a) = [i \in 1 .. n |-> ClosedFor(a)[i]]
    BY <1>1 DEF ClosedFor
  <1>6. ClosedFor(a) \in [1 .. n -> SubscriptionRow]
    BY <1>1, <1>3, <1>5
  <1>7. ClosedFor(a) \in Seq(SubscriptionRow) /\ Len(ClosedFor(a)) = n
    BY <1>4, <1>6
  <1>. QED  BY <1>1, <1>3, <1>4, <1>7, SMTT(60)

(* A skill of the list and its parent have names of the list.              *)
LEMMA SkillIs ==
  ASSUME NEW s \in ToSet(SeedSkills)
  PROVE  s \in SeedSkill /\ s.name \in SkillNames /\ s.name \in STRING
         /\ (s.parent # "" => s.parent \in SkillNames)
  <1>1. PICK i \in DOMAIN SeedSkills : s = SeedSkills[i]
    BY DEF ToSet
  <1>2. s \in SeedSkill
    <2>1. SeedSkills \in Seq(SeedSkill)
      BY SeedAssumption DEF SeedSkill
    <2>2. PICK t \in Seq(SeedSkill) : t = SeedSkills
      BY <2>1
    <2>. QED  BY <1>1, <2>2
  <1>. QED  BY <1>1, <1>2, SeedAssumption DEF SkillNames, SeedSkill

(* Adding a subscription, or changing those there are.                     *)
LEMMA DataWithSubscriptions ==
  ASSUME SeedDataOK, subscriptions' \in Seq(SubscriptionRow), Len(subscriptions) <= Len(subscriptions'),
         roleOf' \in [Account -> Roles], seedDay' = seedDay,
         UNCHANGED <<paid, skills, aliasOf, transfers, competencies, rows>>
  PROVE  SeedDataOK' /\ Len(subscriptions') \in Nat
  <1>1. Len(subscriptions) \in Nat /\ Len(subscriptions') \in Nat
    BY DataIs, LenProperties
  <1>2. 0 .. Len(subscriptions) \subseteq 0 .. Len(subscriptions')
    BY <1>1
  <1>3. paid' \in [{"free", "premium"} -> 0 .. Len(subscriptions')]
    BY <1>2 DEF SeedDataOK
  <1>. QED  BY <1>1, <1>3 DEF SeedDataOK

-----------------------------------------------------------------------------
(* The types stay: the phases one by one                                   *)

(* The statements of the phase of accounts and of rows keep the types.     *)
LEMMA AccountsPhaseKeeps ==
  ASSUME SeedDataOK, SeedRunOK, UpsertAccount \/ UpsertPlan \/ UpsertRow \/ CreateMissing
  PROVE  SeedDataOK' /\ SeedRunOK'
  <1>1. Len(subscriptions) \in Nat /\ Len(subscriptions) <= Len(subscriptions)
    BY DataIs
  <1>2. CASE UpsertAccount
    <2>1. InPhase("accounts") /\ "accounts" \in DOMAIN LineOf /\ Onward(script)
      BY <1>2 DEF UpsertAccount, LineOf
    <2>2. Statement \in Demo
      BY <2>1, StatementHere DEF Kind
    <2>3. DemoRole[Statement] \in Roles \ {Missing} /\ Statement \in Account
      BY <2>2 DEF Demo, DemoRole, Roles, Account, Missing
    <2>4. roleOf' \in [Account -> Roles] /\ \A a \in Account : roleOf[a] # Missing => roleOf'[a] # Missing
      BY <1>2, <2>3 DEF UpsertAccount, SeedDataOK
    <2>5. UNCHANGED <<subscriptions, paid, skills, aliasOf, transfers, competencies, rows, seedDay>>
      BY <1>2 DEF UpsertAccount
    <2>6. SeedDataOK'
      BY <2>4, <2>5 DEF SeedDataOK
    <2>. QED  BY <1>1, <2>1, <2>4, <2>5, <2>6, StepKeepsRun
  <1>3. CASE UpsertPlan \/ UpsertRow \/ CreateMissing
    <2>1. PICK p \in {"plans", "rows"} : InPhase(p) /\ p \in DOMAIN LineOf /\ Onward(script)
      BY <1>3 DEF UpsertPlan, UpsertRow, CreateMissing, WriteRow, LineOf
    <2>2. Statement \in SeededRows
      BY <2>1, StatementHere DEF Kind, SeededRows
    <2>3. rows' = [rows EXCEPT ![Statement] = "seed"]
          \/ rows' = [rows EXCEPT ![Statement] = IF rows[Statement] = Missing THEN "seed" ELSE rows[Statement]]
      BY <1>3 DEF UpsertPlan, UpsertRow, CreateMissing, WriteRow
    <2>4. rows' \in [SeededRows -> {"seed", "other", Missing}]
      BY <2>2, <2>3 DEF SeedDataOK
    <2>5. UNCHANGED <<roleOf, subscriptions, paid, skills, aliasOf, transfers, competencies, seedDay>>
      BY <1>3 DEF UpsertPlan, UpsertRow, CreateMissing, WriteRow
    <2>6. SeedDataOK'
      BY <2>4, <2>5 DEF SeedDataOK
    <2>. QED  BY <1>1, <2>1, <2>5, <2>6, StepKeepsRun
  <1>. QED  BY <1>2, <1>3

(* A run that remembers something new and goes on.                         *)
LEMMA RunGoesOn ==
  ASSUME NEW n, NEW m, NEW r, IsRun(r, n, m), r.phase = script.phase, r.left # <<>>,
         VisitsHere(r, roleOf), roleOf' = roleOf, Onward(r)
  PROVE  IsRun(script', n, m) /\ VisitsHere(script', roleOf')
  <1>1. script' = GoesOn(r)
    BY OnwardIs
  <1>. QED  BY <1>1, MovesOn, VisitsStay

(* The statements of the phase of payments keep the types.                 *)
LEMMA PaymentsPhaseKeeps ==
  ASSUME SeedDataOK, SeedRunOK, CloseSubscriptions \/ OpenSubscription \/ UpsertPayment
  PROVE  SeedDataOK' /\ SeedRunOK'
  <1>1. InPhase("payments") /\ "payments" \in DOMAIN LineOf
    BY DEF CloseSubscriptions, OpenSubscription, UpsertPayment, LineOf
  <1>2. /\ IsRun(script, Len(subscriptions), Len(skills)) /\ VisitsHere(script, roleOf)
        /\ script.left # <<>> /\ script.phase = "payments"
    BY <1>1, StatementHere, SMTT(60)
  <1>3. PICK n \in Nat, m \in Nat : n = Len(subscriptions) /\ m = Len(skills)
    BY DataIs
  <1>4. {"free", "premium"} \subseteq Account
    BY DEF Account, Demo
  <1>5. CASE CloseSubscriptions
    <2>1. PICK a \in {"free", "premium"} :
            /\ subscriptions' = ClosedFor(a)
            /\ Onward(IF a = "free" THEN [script EXCEPT !.began = seedDay, !.since = Hence] ELSE script)
      BY <1>5 DEF CloseSubscriptions
    <2>2. UNCHANGED <<roleOf, paid, skills, aliasOf, transfers, competencies, rows, seedDay>>
      BY <1>5 DEF CloseSubscriptions
    <2>3. subscriptions' \in Seq(SubscriptionRow) /\ Len(subscriptions') = n
      BY <1>3, <1>4, <2>1, ClosedIs
    <2>4. SeedDataOK'
      BY <1>3, <2>2, <2>3, DataWithSubscriptions DEF SeedDataOK
    <2>5. PICK r : r = IF a = "free" THEN [script EXCEPT !.began = seedDay, !.since = Hence] ELSE script
      OBVIOUS
    <2>6. seedDay \in Nat /\ Hence \in Nat
      BY DataIs DEF SeedDataOK, Hence
    <2>7. IsRun(r, n, m) /\ r.phase = script.phase /\ r.left = script.left
      BY <1>2, <1>3, <2>5, <2>6 DEF IsRun
    <2>8. VisitsHere(r, roleOf)
      BY <1>2, <2>7 DEF VisitsHere
    <2>9. IsRun(script', n, m) /\ VisitsHere(script', roleOf')
      BY <1>2, <2>1, <2>2, <2>5, <2>7, <2>8, RunGoesOn
    <2>. QED  BY <1>3, <2>2, <2>3, <2>4, <2>9 DEF SeedRunOK
  <1>6. CASE OpenSubscription
    <2>1. PICK a \in {"free", "premium"} :
            /\ subscriptions' = Append(subscriptions, IF a = "free" THEN Plan(a, "FREE", Forever, Now)
                                                      ELSE Plan(a, "PREMIUM", script.began + Period, script.since))
            /\ Onward([script EXCEPT !.opened[a] = Len(subscriptions')])
      BY <1>6 DEF OpenSubscription
    <2>2. UNCHANGED <<roleOf, paid, skills, aliasOf, transfers, competencies, rows, seedDay>>
      BY <1>6 DEF OpenSubscription
    <2>3. script.began + Period \in Nat /\ script.since \in Nat /\ Now \in Nat /\ Forever \in Nat \cup {Forever}
      BY <1>2, DataIs DEF IsRun, Period, Now
    <2>4. subscriptions' \in Seq(SubscriptionRow) /\ Len(subscriptions') = n + 1
      <3>1. CASE a = "free"
        BY <1>3, <1>4, <2>1, <2>3, <3>1, PlanIs
      <3>2. CASE a = "premium"
        <4>1. subscriptions' = Append(subscriptions, Plan(a, "PREMIUM", script.began + Period, script.since))
          BY <2>1, <3>2
        <4>. QED  BY <1>3, <1>4, <2>3, <4>1, PlanIs
      <3>. QED  BY <3>1, <3>2
    <2>5. SeedDataOK'
      BY <1>3, <2>2, <2>4, DataWithSubscriptions DEF SeedDataOK
    <2>6. PICK r : r = [script EXCEPT !.opened[a] = n + 1]
      OBVIOUS
    <2>7. IsRun(script, n + 1, m)
      <3>1. n + 1 \in Nat /\ n <= n + 1 /\ m <= m /\ IsRun(script, n, m)
        BY <1>2, <1>3
      <3>. QED  BY <3>1, MoreOfARun
    <2>8. IsRun(r, n + 1, m) /\ r.phase = script.phase /\ r.left = script.left
      BY <2>6, <2>7 DEF IsRun
    <2>9. VisitsHere(r, roleOf)
      BY <1>2, <2>8 DEF VisitsHere
    <2>10. IsRun(script', n + 1, m) /\ VisitsHere(script', roleOf')
      BY <1>2, <2>1, <2>2, <2>4, <2>6, <2>8, <2>9, RunGoesOn
    <2>. QED  BY <1>3, <2>2, <2>4, <2>5, <2>10 DEF SeedRunOK
  <1>7. CASE UpsertPayment
    <2>1. PICK a \in {"free", "premium"} : paid' = [paid EXCEPT ![a] = script.opened[a]]
      BY <1>7 DEF UpsertPayment
    <2>2. UNCHANGED <<roleOf, subscriptions, skills, aliasOf, transfers, competencies, rows, seedDay>> /\ Onward(script)
      BY <1>7 DEF UpsertPayment
    <2>3. script.opened[a] \in 0 .. n
      BY <1>2, <1>3 DEF IsRun
    <2>4. SeedDataOK'
      BY <1>3, <2>1, <2>2, <2>3 DEF SeedDataOK
    <2>. QED  BY <1>1, <1>3, <2>2, <2>4, StepKeepsRun
  <1>. QED  BY <1>5, <1>6, <1>7

(* A list of one.                                                          *)
LEMMA Single ==
  ASSUME NEW T, NEW e \in T
  PROVE  \E y \in Seq(T) : y = <<e>> /\ Len(y) = 1 /\ ToSet(y) = {e} /\ y # <<>>
  <1>1. <<e>> \in Seq(T) /\ Len(<<e>>) = 1 /\ <<e>> # <<>> /\ DOMAIN <<e>> = {1} /\ <<e>>[1] = e
    OBVIOUS
  <1>2. PICK y \in Seq(T) : y = <<e>> /\ Len(y) = 1 /\ y # <<>> /\ DOMAIN y = {1} /\ y[1] = e
    BY <1>1
  <1>3. ToSet(y) = {e}
    BY <1>2 DEF ToSet
  <1>. QED  BY <1>2, <1>3

(* What is put behind the first element.                                   *)
Second(r, s, e) ==
  /\ r # <<>> /\ Head(r) = Head(s) /\ Tail(r) # <<>>
  /\ ToSet(r) = ToSet(s) \cup {e} /\ ToSet(Tail(r)) = ToSet(Tail(s)) \cup {e}

(* What a list holds after an element was put second.                      *)
LEMMA Inserted ==
  ASSUME NEW T, NEW s \in Seq(T), s # <<>>, NEW e \in T, NEW r, r = InsertAt(s, 2, e)
  PROVE  r \in Seq(T) /\ Second(r, s, e)
  <1>1. PICK n \in Nat : Len(s) = n /\ n > 0
    BY LenProperties, EmptySeq
  <1>2. PICK h \in T, t \in Seq(T) : h = Head(s) /\ h = s[1] /\ t = Tail(s) /\ ToSet(s) = {h} \cup ToSet(t)
    <2>1. Head(s) \in T /\ Tail(s) \in Seq(T) /\ ToSet(s) = {Head(s)} \cup ToSet(Tail(s))
      BY ListRange
    <2>2. Head(s) = s[1]
      BY <1>1
    <2>. QED  BY <2>1, <2>2
  <1>3. PICK u : u = SubSeq(s, 1, 1)
    OBVIOUS
  <1>4. u \in Seq(T) /\ Len(u) = 1 /\ u[1] = h
    <2>1. \A i \in 1 .. 1 : s[i] \in T
      BY <1>2
    <2>2. u \in Seq(T) /\ Len(u) = 1
      BY <1>3, <2>1, SubSeqProperties
    <2>3. \A i \in 1 .. 1 - 1 + 1 : u[i] = s[1 + i - 1]
      BY <1>3, <2>1, SubSeqProperties
    <2>4. u[1] = s[1]
      BY <2>3
    <2>. QED  BY <1>2, <2>2, <2>4
  <1>5. u # <<>> /\ Head(u) = h /\ Tail(u) = <<>> /\ ToSet(u) = {h}
    <2>1. u # <<>>
      <3>1. Len(<<>>) = 0
        BY EmptySeq
      <3>2. ASSUME u = <<>> PROVE FALSE
        <4>1. Len(u) = 0
          BY <3>1, <3>2, Zenon
        <4>. QED  BY <1>4, <4>1
      <3>. QED  BY <3>2
    <2>4. Head(u) = h
      BY <1>4
    <2>2. Tail(u) \in Seq(T) /\ Len(Tail(u)) = 0
      BY <1>4, <2>1, HeadTailProperties
    <2>3. DOMAIN u = {1}
      BY <1>4, LenProperties
    <2>. QED  BY <1>4, <2>1, <2>2, <2>3, <2>4, EmptySeq DEF ToSet
  <1>6. PICK y \in Seq(T) : y = <<e>> /\ Len(y) = 1 /\ ToSet(y) = {e} /\ y # <<>>
    BY Single
  <1>7. r = (u \o y) \o t
    <2>1. SubSeq(s, 2, Len(s)) = t
      BY <1>2, TailIsSubSeq
    <2>2. 2 - 1 = 1
      OBVIOUS
    <2>3. r = (SubSeq(s, 1, 1) \o <<e>>) \o SubSeq(s, 2, Len(s))
      BY <2>2 DEF InsertAt
    <2>. QED  BY <1>3, <1>6, <2>1, <2>3
  <1>8. PICK a : a = u \o y
    OBVIOUS
  <1>9. a \in Seq(T) /\ a # <<>> /\ Head(a) = h /\ Tail(a) = y /\ ToSet(a) = {h, e}
    <2>1. a \in Seq(T) /\ ToSet(a) = ToSet(u) \cup ToSet(y)
      BY <1>4, <1>6, <1>8, Concatenated
    <2>2. a # <<>> /\ Head(a) = Head(u) /\ Tail(a) = Tail(u) \o y
      BY <1>4, <1>5, <1>6, <1>8, TailOfConcat
    <2>3. <<>> \o y = y
      BY ConcatEmptySeq
    <2>4. Tail(a) = y
      BY <1>5, <2>2, <2>3
    <2>. QED  BY <1>5, <1>6, <2>1, <2>2, <2>4
  <1>13. r = a \o t
    BY <1>7, <1>8, Zenon
  <1>10. r \in Seq(T) /\ ToSet(r) = ToSet(a) \cup ToSet(t)
    <2>1. a \o t \in Seq(T) /\ ToSet(a \o t) = ToSet(a) \cup ToSet(t)
      BY <1>9, Concatenated
    <2>. QED  BY <1>13, <2>1, Zenon
  <1>11. r # <<>> /\ Head(r) = h /\ Tail(r) = y \o t
    BY <1>9, <1>13, TailOfConcat, Zenon
  <1>12. ToSet(y \o t) = ToSet(y) \cup ToSet(t) /\ y \o t # <<>>
    <2>1. ToSet(y \o t) = ToSet(y) \cup ToSet(t)
      BY Concatenated
    <2>2. y \o t # <<>>
      BY <1>6, TailOfConcat
    <2>. QED  BY <2>1, <2>2
  <1>. QED  BY <1>2, <1>6, <1>9, <1>10, <1>11, <1>12 DEF Second

(* The accounts that there are.                                            *)
Registered == {a \in Account : roleOf[a] # Missing}

(* A run in the phase of the users that goes on with r.                    *)
Attends(r) ==
  /\ Onward(r) /\ r.phase = "users" /\ r.left # <<>>
  /\ IsRun(r, Len(subscriptions), Len(skills)) /\ VisitsHere(r, roleOf)
  /\ r.ids = script.ids /\ r.began = script.began /\ r.opened = script.opened

(* The first statement of the users is followed by all the visits.         *)
AttendsAll(r) ==
  /\ Attends(r)
  /\ ToSet(Tail(r.left)) = ToSet(Tail(script.left)) \cup ToSet(VisitsOf(Registered))
  /\ ToSet(VisitsOf(Registered)) \subseteq {Visit(a, todo) : a \in Registered, todo \in {"find", "role"}}
  /\ \A a \in Registered : Visit(a, "find") \in ToSet(VisitsOf(Registered))

(* The list of users visits every account that there is.                   *)
LEMMA AllAreListed ==
  ASSUME SeedDataOK, SeedRunOK, ListUsers
  PROVE  \E r : AttendsAll(r)
  <1>1. InPhase("users") /\ "users" \in DOMAIN LineOf
    BY DEF ListUsers, LineOf
  <1>2. /\ IsRun(script, Len(subscriptions), Len(skills)) /\ VisitsHere(script, roleOf)
        /\ script.left # <<>> /\ script.phase = "users"
    BY <1>1, StatementHere
  <1>4. IsFiniteSet(Registered)
    <2>1. IsFiniteSet(Demo)
      BY FourAreFinite DEF Demo
    <2>2. IsFiniteSet(Account)
      BY <2>1, SeedAssumption, FS_Union DEF Account
    <2>. QED  BY <2>2, FS_Subset DEF Registered
  <1>5. PICK v : v = VisitsOf(Registered)
    OBVIOUS
  <1>6. PICK r : r = [script EXCEPT !.left = script.left \o v]
    OBVIOUS
  <1>7. Onward(r)
    BY <1>5, <1>6, Zenon DEF ListUsers, VisitsOf, Registered
  <1>. DEFINE V == {Visit(a, todo) : a \in Registered, todo \in {"find", "role"}}
  <1>8. v \in Seq(V) /\ \A a \in Registered : Visit(a, "find") \in ToSet(v)
    BY <1>4, <1>5, VisitsAre
  <1>9. V \subseteq Visits /\ \A x \in V : roleOf[x.user] # Missing
    BY DEF Visit, Visits, SeedDataOK, Registered
  <1>. HIDE DEF V
  <1>10. ToSet(v) \subseteq V
    BY <1>8, LenProperties DEF ToSet
  <1>11. v \in Seq(Kind("users")) /\ script.left \in Seq(Kind("users"))
    <2>1. V \subseteq Kind("users")
      BY <1>9 DEF Kind
    <2>. QED  BY <1>2, <1>8, <2>1 DEF IsRun
  <1>12. PICK K : K = Kind("users")
    OBVIOUS
  <1>13. PICK s \in Seq(K) : s = script.left /\ s # <<>>
    BY <1>2, <1>11, <1>12
  <1>14. /\ s \o v \in Seq(K) /\ ToSet(s \o v) = ToSet(s) \cup ToSet(v)
         /\ s \o v # <<>> /\ Tail(s \o v) = Tail(s) \o v
    <2>1. s \o v \in Seq(K) /\ ToSet(s \o v) = ToSet(s) \cup ToSet(v)
      BY <1>11, <1>12, Concatenated
    <2>2. s \o v # <<>> /\ Tail(s \o v) = Tail(s) \o v
      BY <1>11, <1>12, <1>13, TailOfConcat
    <2>. QED  BY <2>1, <2>2
  <1>15. /\ DOMAIN r = DOMAIN script /\ r.left = s \o v /\ r.phase = "users" /\ r.ids = script.ids
         /\ r.began = script.began /\ r.since = script.since /\ r.opened = script.opened
    BY <1>2, <1>6, <1>13 DEF IsRun
  <1>16. IsRun(r, Len(subscriptions), Len(skills))
    BY <1>2, <1>12, <1>14, <1>15 DEF IsRun
  <1>17. VisitsHere(r, roleOf)
    BY <1>2, <1>9, <1>10, <1>13, <1>14, <1>15 DEF VisitsHere
  <1>18. Attends(r)
    BY <1>7, <1>13, <1>14, <1>15, <1>16, <1>17 DEF Attends
  <1>19. ToSet(Tail(r.left)) = ToSet(Tail(script.left)) \cup ToSet(v)
    <2>1. Tail(s) \in Seq(K)
      BY <1>13, ListRange
    <2>2. ToSet(Tail(s) \o v) = ToSet(Tail(s)) \cup ToSet(v)
      BY <1>11, <1>12, <2>1, Concatenated
    <2>. QED  BY <1>13, <1>14, <1>15, <2>2
  <1>20. AttendsAll(r)
    BY <1>5, <1>8, <1>10, <1>18, <1>19 DEF AttendsAll, V
  <1>. QED  BY <1>20

(* A plan that was not found is to be given next.                          *)
AttendsOne(r) ==
  /\ Attends(r) /\ Head(r.left) = Statement
  /\ IF HasPlan(Statement.user) THEN r = script
     ELSE \E v \in Visits :
            /\ v.user = Statement.user /\ v.role = Statement.role /\ v.todo = "give"
            /\ ToSet(Tail(r.left)) = ToSet(Tail(script.left)) \cup {v}

(* An account without a plan is given one next, and no other visit is      *)
(* lost.                                                                   *)
LEMMA OneIsGiven ==
  ASSUME SeedDataOK, SeedRunOK, FindPlan
  PROVE  \E r : AttendsOne(r)
  <1>1. InPhase("users") /\ "users" \in DOMAIN LineOf /\ Statement.todo = "find"
    BY DEF FindPlan, LineOf
  <1>2. /\ IsRun(script, Len(subscriptions), Len(skills)) /\ VisitsHere(script, roleOf)
        /\ script.left # <<>> /\ script.phase = "users" /\ Statement = Head(script.left)
        /\ Statement \in Kind("users") /\ Statement \in ToSet(script.left)
    BY <1>1, StatementHere
  <1>3. CASE HasPlan(Statement.user)
    <2>1. Onward(script)
      BY <1>3 DEF FindPlan
    <2>2. AttendsOne(script)
      BY <1>2, <1>3, <2>1 DEF AttendsOne, Attends
    <2>. QED  BY <2>2
  <1>4. CASE ~ HasPlan(Statement.user)
    <2>1. PICK r : r = [script EXCEPT !.left = InsertAt(script.left, 2, [Statement EXCEPT !.todo = "give"])]
      OBVIOUS
    <2>2. Onward(r)
      BY <1>4, <2>1 DEF FindPlan
    <2>3. Statement \in Visits
      BY <1>1, <1>2 DEF Kind, Listing
    <2>4. PICK v \in Visits : /\ v = [Statement EXCEPT !.todo = "give"]
                              /\ v.user = Statement.user /\ v.role = Statement.role /\ v.todo = "give"
      <3>1. [Statement EXCEPT !.todo = "give"] \in Visits
        BY <2>3 DEF Visits
      <3>2. /\ [Statement EXCEPT !.todo = "give"].user = Statement.user
            /\ [Statement EXCEPT !.todo = "give"].role = Statement.role
            /\ [Statement EXCEPT !.todo = "give"].todo = "give"
        BY <2>3 DEF Visits
      <3>. QED  BY <3>1, <3>2
    <2>5. script.left \in Seq(Kind("users")) /\ v \in Kind("users")
      BY <1>2 DEF IsRun, Kind
    <2>11. PICK K, s : K = Kind("users") /\ s = script.left
      OBVIOUS
    <2>6. /\ InsertAt(script.left, 2, v) \in Seq(Kind("users")) /\ InsertAt(script.left, 2, v) # <<>>
          /\ Head(InsertAt(script.left, 2, v)) = Statement /\ Tail(InsertAt(script.left, 2, v)) # <<>>
          /\ ToSet(InsertAt(script.left, 2, v)) = ToSet(script.left) \cup {v}
          /\ ToSet(Tail(InsertAt(script.left, 2, v))) = ToSet(Tail(script.left)) \cup {v}
      <3>1. s \in Seq(K) /\ s # <<>> /\ v \in K /\ Statement = Head(s)
        BY <1>2, <2>5, <2>11
      <3>2. /\ InsertAt(s, 2, v) \in Seq(K) /\ InsertAt(s, 2, v) # <<>>
            /\ Head(InsertAt(s, 2, v)) = Statement /\ Tail(InsertAt(s, 2, v)) # <<>>
            /\ ToSet(InsertAt(s, 2, v)) = ToSet(s) \cup {v}
            /\ ToSet(Tail(InsertAt(s, 2, v))) = ToSet(Tail(s)) \cup {v}
        <4>1. PICK w : w = InsertAt(s, 2, v)
          OBVIOUS
        <4>2. /\ w \in Seq(K) /\ w # <<>> /\ Head(w) = Statement /\ Tail(w) # <<>>
              /\ ToSet(w) = ToSet(s) \cup {v} /\ ToSet(Tail(w)) = ToSet(Tail(s)) \cup {v}
          <5>1. /\ w \in Seq(K) /\ w # <<>> /\ Head(w) = Head(s) /\ Tail(w) # <<>>
                /\ ToSet(w) = ToSet(s) \cup {v} /\ ToSet(Tail(w)) = ToSet(Tail(s)) \cup {v}
            <6>1. w \in Seq(K) /\ Second(w, s, v)
              BY <3>1, <4>1, Inserted
            <6>. QED  BY <6>1 DEF Second
          <5>. QED  BY <3>1, <5>1
        <4>. QED  BY <4>1, <4>2
      <3>. QED  BY <2>11, <3>2
    <2>7. /\ DOMAIN r = DOMAIN script /\ r.left = InsertAt(script.left, 2, v) /\ r.phase = "users"
          /\ r.ids = script.ids
          /\ r.began = script.began /\ r.since = script.since /\ r.opened = script.opened
      BY <1>2, <2>1, <2>4 DEF IsRun
    <2>8. IsRun(r, Len(subscriptions), Len(skills))
      BY <1>2, <2>6, <2>7 DEF IsRun
    <2>9. roleOf[v.user] # Missing
      BY <1>1, <1>2, <2>4 DEF VisitsHere
    <2>10. VisitsHere(r, roleOf)
      BY <1>2, <2>6, <2>7, <2>9 DEF VisitsHere
    <2>12. /\ Head(r.left) = Statement /\ ToSet(Tail(r.left)) = ToSet(Tail(script.left)) \cup {v}
           /\ r.left # <<>>
      BY <2>6, <2>7
    <2>13. Attends(r)
      BY <2>2, <2>7, <2>8, <2>10, <2>12 DEF Attends
    <2>14. AttendsOne(r)
      BY <1>4, <2>4, <2>12, <2>13 DEF AttendsOne
    <2>. QED  BY <2>14
  <1>. QED  BY <1>3, <1>4

(* The statements of the phase of users keep the types.                    *)
LEMMA UsersPhaseKeeps ==
  ASSUME SeedDataOK, SeedRunOK, ListUsers \/ FindPlan \/ GivePlan \/ SetRole
  PROVE  SeedDataOK' /\ SeedRunOK'
  <1>1. InPhase("users") /\ "users" \in DOMAIN LineOf
    BY DEF ListUsers, FindPlan, GivePlan, SetRole, LineOf
  <1>2. /\ IsRun(script, Len(subscriptions), Len(skills)) /\ VisitsHere(script, roleOf)
        /\ script.left # <<>> /\ script.phase = "users" /\ Statement \in Visits \cup {Listing}
    BY <1>1, StatementHere DEF Kind
  <1>3. Statement.todo # "list" => Statement \in Visits /\ Statement.user \in Account
    BY <1>2 DEF Listing, Visits
  <1>4. Len(subscriptions) \in Nat /\ Now \in Nat
    BY DataIs DEF Now
  <1>5. CASE ListUsers \/ FindPlan
    <2>1. PICK r : Attends(r)
      BY <1>5, AllAreListed, OneIsGiven DEF AttendsAll, AttendsOne
    <2>2. UNCHANGED <<seedData, seedDay>>
      BY <1>5 DEF ListUsers, FindPlan
    <2>3. SeedDataOK'
      BY <2>2 DEF SeedDataOK, seedData
    <2>4. roleOf' = roleOf /\ subscriptions' = subscriptions /\ skills' = skills
      BY <2>2 DEF seedData
    <2>5. /\ Onward(r) /\ r.phase = script.phase /\ r.left # <<>>
          /\ IsRun(r, Len(subscriptions), Len(skills)) /\ VisitsHere(r, roleOf)
      BY <1>2, <2>1 DEF Attends
    <2>6. IsRun(script', Len(subscriptions), Len(skills)) /\ VisitsHere(script', roleOf')
      BY <2>4, <2>5, RunGoesOn
    <2>. QED  BY <2>3, <2>4, <2>6 DEF SeedRunOK
  <1>6. CASE GivePlan
    <2>1. /\ Statement.user \in Account /\ Onward(script)
          /\ subscriptions' = Append(subscriptions, Plan(Statement.user, "FREE", Forever, Now))
          /\ UNCHANGED <<roleOf, paid, skills, aliasOf, transfers, competencies, rows, seedDay>>
      BY <1>3, <1>6 DEF GivePlan
    <2>2. subscriptions' \in Seq(SubscriptionRow) /\ Len(subscriptions') = Len(subscriptions) + 1
      BY <1>4, <2>1, PlanIs
    <2>3. SeedDataOK' /\ Len(subscriptions') \in Nat
      BY <1>4, <2>1, <2>2, DataWithSubscriptions DEF SeedDataOK
    <2>. QED  BY <1>1, <1>4, <2>1, <2>2, <2>3, StepKeepsRun
  <1>7. CASE SetRole
    <2>1. /\ Statement.user \in Account /\ Onward(script)
          /\ UNCHANGED <<subscriptions, paid, skills, aliasOf, transfers, competencies, rows, seedDay>>
      BY <1>3, <1>7 DEF SetRole
    <2>2. roleOf' \in [Account -> Roles] /\ \A a \in Account : roleOf[a] # Missing => roleOf'[a] # Missing
      BY <1>7, <2>1 DEF SetRole, SeedDataOK, Roles, Missing
    <2>3. SeedDataOK'
      BY <2>1, <2>2 DEF SeedDataOK
    <2>. QED  BY <1>1, <1>4, <2>1, <2>2, <2>3, StepKeepsRun
  <1>. QED  BY <1>5, <1>6, <1>7

(* What upserting a skill does to the table of the skills.                 *)
UpsertedSkill(name, parent, id) ==
  /\ name \in SkillNames /\ parent \in 0 .. Len(skills)
  /\ id \in 1 .. Len(skills') /\ skills' \in Seq(SkillRow) /\ Len(skills) <= Len(skills')
  /\ skills'[id].name = name /\ (parent # 0 => skills'[id].parent = parent)
  /\ \A i \in DOMAIN skills : skills'[i].name = skills[i].name /\ (i # id => skills'[i] = skills[i])
  /\ \A i \in DOMAIN skills' : i \in DOMAIN skills \/ i = id
  /\ id \notin DOMAIN skills => Ids(name) = {}
  /\ \A i \in DOMAIN skills' : skills'[i].parent <= Len(skills')

(* A skill is found by its name or added; either way its id is             *)
(* remembered.                                                             *)
LEMMA UpsertsSkills ==
  ASSUME SeedDataOK, SeedRunOK, UpsertSkill
  PROVE  \E id :
           /\ UpsertedSkill(Statement.name,
                            IF Statement.parent = "" THEN 0 ELSE script.ids[Statement.parent], id)
           /\ Onward([script EXCEPT !.ids[Statement.name] = id])
  <1>1. InPhase("skills") /\ "skills" \in DOMAIN LineOf
    BY DEF UpsertSkill, LineOf
  <1>2. IsRun(script, Len(subscriptions), Len(skills)) /\ Statement \in ToSet(SeedSkills)
    BY <1>1, StatementHere DEF Kind
  <1>. DEFINE name == Statement.name
              parent == IF Statement.parent = "" THEN 0 ELSE script.ids[Statement.parent]
              id == IF Ids(name) = {} THEN Len(skills) + 1 ELSE CHOOSE i \in Ids(name) : TRUE
  <1>7. /\ skills' = IF Ids(name) = {} THEN Append(skills, [name |-> name, parent |-> parent])
                     ELSE IF parent = 0 THEN skills ELSE [skills EXCEPT ![id].parent = parent]
        /\ Onward([script EXCEPT !.ids[name] = id])
    BY Zenon DEF UpsertSkill
  <1>3. /\ name = Statement.name
        /\ parent = IF Statement.parent = "" THEN 0 ELSE script.ids[Statement.parent]
    OBVIOUS
  <1>6. id = IF Ids(name) = {} THEN Len(skills) + 1 ELSE CHOOSE i \in Ids(name) : TRUE
    BY SMTT(60)
  <1>. HIDE DEF name, parent, id
  <1>4. PICK n \in Nat : n = Len(skills) /\ DOMAIN skills = 1 .. n
    BY DataIs
  <1>5. name \in SkillNames /\ parent \in 0 .. n
    <2>1. name \in SkillNames /\ (Statement.parent # "" => Statement.parent \in SkillNames)
      BY <1>2, <1>3, SkillIs
    <2>2. script.ids \in [SkillNames -> 0 .. n]
      BY <1>2, <1>4 DEF IsRun
    <2>3. CASE Statement.parent = ""
      <3>1. parent = 0
        BY <1>3, <2>3, Zenon
      <3>2. name \in SkillNames
        BY <1>3, <2>1
      <3>. QED  BY <1>4, <3>1, <3>2
    <2>4. CASE Statement.parent # ""
      <3>1. parent = script.ids[Statement.parent]
        BY <1>3, <2>4, Zenon
      <3>2. name \in SkillNames
        BY <1>3, <2>1
      <3>. QED  BY <2>1, <2>2, <2>4, <3>1, <3>2
    <2>. QED  BY <2>3, <2>4
  <1>8. \A i \in 1 .. n : skills[i] \in SkillRow /\ skills[i].parent \in 0 .. n
    <2>1. skills \in Seq(SkillRow)
      BY DEF SeedDataOK
    <2>2. \A i \in 1 .. n : skills[i] \in SkillRow
      BY <1>4, <2>1
    <2>. QED  BY <1>4, <2>2 DEF SeedDataOK, SkillRow
  <1>9. UpsertedSkill(name, parent, id)
    <2>1. CASE Ids(name) = {}
      <3>1. PICK e \in SkillRow : e = [name |-> name, parent |-> parent] /\ e.name = name /\ e.parent = parent
        <4>1. name \in SkillNames \cup {NewName} /\ parent \in Nat
          BY <1>4, <1>5
        <4>2. [name |-> name, parent |-> parent] \in SkillRow
          BY <4>1 DEF SkillRow
        <4>3. [name |-> name, parent |-> parent].name = name /\ [name |-> name, parent |-> parent].parent = parent
          OBVIOUS
        <4>. QED  BY <4>2, <4>3, Zenon
      <3>2. skills' = Append(skills, e) /\ id = n + 1 /\ skills \in Seq(SkillRow)
        BY <1>4, <1>6, <1>7, <2>1, <3>1 DEF SeedDataOK
      <3>3. /\ skills' \in Seq(SkillRow) /\ Len(skills') = n + 1 /\ DOMAIN skills' = 1 .. n + 1
            /\ skills'[n + 1] = e /\ \A i \in 1 .. n : skills'[i] = skills[i]
        BY <1>4, <3>2, AppendIs
      <3>4. \A i \in 1 .. n + 1 : skills'[i].parent <= n + 1
        <4>1. \A i \in 1 .. n : skills'[i].parent <= n + 1
          BY <1>8, <3>3
        <4>2. skills'[n + 1].parent <= n + 1
          BY <1>5, <3>1, <3>3
        <4>3. \A i \in 1 .. n + 1 : i \in 1 .. n \/ i = n + 1
          OBVIOUS
        <4>. QED  BY <4>1, <4>2, <4>3
      <3>5. \A i \in 1 .. n + 1 : i \in 1 .. n \/ i = n + 1
        OBVIOUS
      <3>6. id \in 1 .. Len(skills') /\ Len(skills) <= Len(skills') /\ id \notin 1 .. n
        BY <1>4, <3>2, <3>3
      <3>7. skills'[id] = e
        BY <3>2, <3>3
      <3>8. \A i \in DOMAIN skills : skills'[i].name = skills[i].name /\ (i # id => skills'[i] = skills[i])
        BY <1>4, <3>3
      <3>9. \A i \in DOMAIN skills' : i \in DOMAIN skills \/ i = id
        BY <1>4, <3>2, <3>3, <3>5
      <3>10. \A i \in DOMAIN skills' : skills'[i].parent <= Len(skills')
        BY <3>3, <3>4
      <3>. QED  BY <1>4, <1>5, <2>1, <3>1, <3>3, <3>6, <3>7, <3>8, <3>9, <3>10 DEF UpsertedSkill
    <2>2. CASE Ids(name) # {}
      <3>1. id \in 1 .. n /\ skills[id].name = name
        <4>1. id \in Ids(name)
          BY <1>6, <2>2
        <4>. QED  BY <1>4, <4>1 DEF Ids
      <3>2. CASE parent = 0
        <4>1. skills' = skills
          BY <1>7, <2>2, <3>2
        <4>. QED  BY <1>4, <1>5, <1>8, <2>2, <3>1, <3>2, <4>1 DEF UpsertedSkill, SeedDataOK
      <3>3. CASE parent # 0
        <4>1. skills' = [skills EXCEPT ![id].parent = parent]
          BY <1>7, <2>2, <3>3
        <4>2. PICK s \in [1 .. n -> SkillRow] : s = skills
          <5>1. skills \in Seq(SkillRow)
            BY DEF SeedDataOK
          <5>. QED  BY <1>4, <5>1
        <4>3. /\ skills' \in [1 .. n -> SkillRow]
              /\ skills'[id].name = skills[id].name /\ skills'[id].parent = parent
              /\ \A i \in 1 .. n : i # id => skills'[i] = skills[i]
          BY <1>4, <1>5, <3>1, <4>1, <4>2 DEF SkillRow
        <4>4. skills' \in Seq(SkillRow) /\ Len(skills') = n /\ DOMAIN skills' = 1 .. n
          BY <4>3
        <4>5. \A i \in 1 .. n : skills'[i].parent <= n /\ skills'[i].name = skills[i].name
          BY <1>5, <1>8, <4>3
        <4>. QED  BY <1>4, <1>5, <2>2, <3>1, <4>3, <4>4, <4>5 DEF UpsertedSkill
      <3>. QED  BY <3>2, <3>3
    <2>. QED  BY <2>1, <2>2
  <1>. QED  BY <1>3, <1>7, <1>9

(* The statements of the phase of skills keep the types.                   *)
LEMMA SkillsPhaseKeeps ==
  ASSUME SeedDataOK, SeedRunOK, UpsertSkill
  PROVE  SeedDataOK' /\ SeedRunOK'
  <1>1. InPhase("skills") /\ "skills" \in DOMAIN LineOf
    BY DEF UpsertSkill, LineOf
  <1>2. /\ IsRun(script, Len(subscriptions), Len(skills)) /\ script.left # <<>>
        /\ script.phase = "skills"
    BY <1>1, StatementHere
  <1>3. PICK name, parent, id : /\ name = Statement.name /\ UpsertedSkill(name, parent, id)
                                /\ Onward([script EXCEPT !.ids[name] = id])
    BY UpsertsSkills
  <1>4. PICK m \in Nat : m = Len(skills) /\ DOMAIN skills = 1 .. m
    BY DataIs
  <1>5. PICK k \in Nat : k = Len(skills') /\ DOMAIN skills' = 1 .. k /\ m <= k
    BY <1>3, <1>4, LenProperties DEF UpsertedSkill
  <1>6. UNCHANGED <<roleOf, subscriptions, paid, aliasOf, transfers, competencies, rows, seedDay>>
    BY DEF UpsertSkill
  <1>7. \A i, j \in DOMAIN skills' : skills'[i].name = skills'[j].name => i = j
    <2>1. \A i \in DOMAIN skills : skills[i].name = name => id \in DOMAIN skills
      <3>1. ASSUME NEW i \in DOMAIN skills, skills[i].name = name, id \notin DOMAIN skills PROVE FALSE
        <4>1. i \in Ids(name)
          BY <3>1 DEF Ids
        <4>2. Ids(name) = {}
          BY <1>3, <3>1 DEF UpsertedSkill
        <4>. QED  BY <4>1, <4>2
      <3>. QED  BY <3>1
    <2>2. /\ skills'[id].name = name
          /\ \A i \in DOMAIN skills : skills'[i].name = skills[i].name
          /\ \A i \in DOMAIN skills' : i \in DOMAIN skills \/ i = id
      BY <1>3 DEF UpsertedSkill
    <2>3. \A i, j \in DOMAIN skills : skills[i].name = skills[j].name => i = j
      BY DEF SeedDataOK
    <2>4. SUFFICES ASSUME NEW i \in DOMAIN skills', NEW j \in DOMAIN skills', skills'[i].name = skills'[j].name
                   PROVE  i = j
      OBVIOUS
    <2>5. CASE i \in DOMAIN skills /\ j \in DOMAIN skills
      BY <2>2, <2>3, <2>4, <2>5
    <2>6. CASE i \notin DOMAIN skills
      BY <2>1, <2>2, <2>4, <2>6
    <2>7. CASE j \notin DOMAIN skills
      BY <2>1, <2>2, <2>4, <2>7
    <2>. QED  BY <2>5, <2>6, <2>7
  <1>8. \A n \in SkillNames : competencies[n] \in CompetencyRow /\ competencies[n].legacy <= k
    BY <1>4, <1>5 DEF SeedDataOK, CompetencyRow
  <1>9. SeedDataOK'
    <2>1. /\ skills' \in Seq(SkillRow)
          /\ \A i \in DOMAIN skills' : skills'[i].parent <= Len(skills')
      BY <1>3 DEF UpsertedSkill
    <2>2. \A n \in SkillNames : competencies'[n].legacy <= Len(skills')
      BY <1>5, <1>6, <1>8
    <2>3. /\ roleOf' \in [Account -> Roles] /\ subscriptions' \in Seq(SubscriptionRow)
          /\ paid' \in [{"free", "premium"} -> 0 .. Len(subscriptions')]
          /\ competencies' \in [SkillNames -> CompetencyRow]
          /\ rows' \in [SeededRows -> {"seed", "other", Missing}]
          /\ DOMAIN aliasOf' = {p[1] : p \in ToSet(Aliases)} /\ seedDay' \in Nat
      BY <1>6 DEF SeedDataOK
    <2>. QED  BY <1>7, <2>1, <2>2, <2>3 DEF SeedDataOK
  <1>10. PICK r : r = [script EXCEPT !.ids[name] = id]
    OBVIOUS
  <1>11. PICK l \in Nat : l = Len(subscriptions)
    BY DataIs
  <1>12. IsRun(script, l, k)
    BY <1>2, <1>4, <1>5, <1>11, MoreOfARun
  <1>13. IsRun(r, l, k) /\ r.phase = script.phase /\ r.left = script.left
    <2>1. id \in 0 .. k /\ name \in SkillNames
      BY <1>3, <1>5 DEF UpsertedSkill
    <2>. QED  BY <1>10, <1>12, <2>1 DEF IsRun
  <1>14. VisitsHere(r, roleOf)
    BY <1>2, <1>13 DEF VisitsHere
  <1>15. IsRun(script', l, k) /\ VisitsHere(script', roleOf')
    BY <1>2, <1>3, <1>6, <1>10, <1>13, <1>14, RunGoesOn
  <1>. QED  BY <1>5, <1>6, <1>9, <1>11, <1>15 DEF SeedRunOK

(* An alias leads to a name of the list.                                   *)
LEMMA AliasIs ==
  ASSUME NEW p \in ToSet(Aliases)
  PROVE  p[2] \in SkillNames /\ p[1] \in {q[1] : q \in ToSet(Aliases)}
  <1>1. PICK i \in DOMAIN Aliases : p = Aliases[i]
    BY DEF ToSet
  <1>2. PICK T : T = STRING \X SkillNames
    OBVIOUS
  <1>3. PICK s \in Seq(T) : s = Aliases
    BY <1>2, SeedAssumption
  <1>4. p \in T
    BY <1>1, <1>3
  <1>. QED  BY <1>2, <1>4

(* The statements that write aliases and transfers keep the types.         *)
LEMMA LinksPhasesKeep ==
  ASSUME SeedDataOK, SeedRunOK, UpsertAlias \/ UpsertTransferability
  PROVE  SeedDataOK' /\ SeedRunOK'
  <1>1. PICK p \in DOMAIN LineOf : InPhase(p)
    BY DEF UpsertAlias, UpsertTransferability, LineOf
  <1>2. Onward(script) /\ UNCHANGED <<roleOf, subscriptions, paid, skills, competencies, rows, seedDay>>
    BY DEF UpsertAlias, UpsertTransferability
  <1>3. DOMAIN aliasOf' = DOMAIN aliasOf
    BY DEF UpsertAlias, UpsertTransferability
  <1>4. SeedDataOK'
    BY <1>2, <1>3 DEF SeedDataOK
  <1>5. Len(subscriptions) \in Nat
    BY DataIs
  <1>. QED  BY <1>1, <1>2, <1>4, <1>5, StepKeepsRun

(* A competency that is given another skill, or another parent.             *)
Refers(g, f, S, n, legacy, parent) ==
  /\ g \in [S -> CompetencyRow] /\ g[n].legacy = legacy /\ g[n].parent = parent
  /\ \A k \in S : k # n => g[k] = f[k]

(* Linking one competency changes no other and no parent.                  *)
LEMMA CompetencyIsLinked ==
  ASSUME NEW S, NEW f \in [S -> CompetencyRow], NEW n \in S, NEW id \in Nat,
         NEW g, g = [f EXCEPT ![n].legacy = id]
  PROVE  Refers(g, f, S, n, id, f[n].parent)
  <1>1. PICK c \in CompetencyRow : c = f[n]
    OBVIOUS
  <1>2. PICK d \in CompetencyRow : d = [c EXCEPT !.legacy = id] /\ d.legacy = id /\ d.parent = c.parent
    <2>1. [c EXCEPT !.legacy = id] \in CompetencyRow /\ [c EXCEPT !.legacy = id].legacy = id
          /\ [c EXCEPT !.legacy = id].parent = c.parent
      BY DEF CompetencyRow
    <2>. QED  BY <2>1
  <1>3. g = [f EXCEPT ![n] = d]
    BY <1>1, <1>2
  <1>. QED  BY <1>1, <1>2, <1>3 DEF Refers

(* Giving one competency its parent changes no other and no link.          *)
LEMMA CompetencyHasParent ==
  ASSUME NEW S, NEW f \in [S -> CompetencyRow], NEW n \in S, NEW parent \in ParentNames,
         NEW g, g = [f EXCEPT ![n].parent = parent]
  PROVE  Refers(g, f, S, n, f[n].legacy, parent)
  <1>1. PICK c \in CompetencyRow : c = f[n]
    OBVIOUS
  <1>2. PICK d \in CompetencyRow : d = [c EXCEPT !.parent = parent] /\ d.parent = parent /\ d.legacy = c.legacy
    <2>1. [c EXCEPT !.parent = parent] \in CompetencyRow /\ [c EXCEPT !.parent = parent].parent = parent
          /\ [c EXCEPT !.parent = parent].legacy = c.legacy
      BY DEF CompetencyRow
    <2>. QED  BY <2>1
  <1>3. g = [f EXCEPT ![n] = d]
    BY <1>1, <1>2
  <1>. QED  BY <1>1, <1>2, <1>3 DEF Refers

(* The statements that write competencies keep the types.                  *)
LEMMA CompetenciesPhasesKeep ==
  ASSUME SeedDataOK, SeedRunOK, UpsertCompetency \/ SetParent
  PROVE  SeedDataOK' /\ SeedRunOK'
  <1>1. UNCHANGED <<roleOf, subscriptions, paid, skills, aliasOf, transfers, rows, seedDay>>
    BY DEF UpsertCompetency, SetParent
  <1>2. Len(subscriptions) \in Nat /\ Len(skills) \in Nat
    BY DataIs
  <1>3. CASE UpsertCompetency
    <2>1. InPhase("competencies") /\ "competencies" \in DOMAIN LineOf
      BY <1>3 DEF UpsertCompetency, LineOf
    <2>2. IsRun(script, Len(subscriptions), Len(skills)) /\ Statement \in ToSet(SeedSkills)
      BY <2>1, StatementHere DEF Kind
    <2>3. Statement.name \in SkillNames
      BY <2>2, SkillIs
    <2>4. script.ids[Statement.name] \in 0 .. Len(skills)
      BY <2>2, <2>3 DEF IsRun
    <2>5. CASE Onward(script) /\ competencies' = [competencies EXCEPT ![Statement.name].legacy = script.ids[Statement.name]]
      <3>1. competencies' \in [SkillNames -> CompetencyRow]
            /\ \A n \in SkillNames : competencies'[n].legacy <= Len(skills)
        <4>1. competencies \in [SkillNames -> CompetencyRow] /\ script.ids[Statement.name] \in Nat
          BY <1>2, <2>4 DEF SeedDataOK
        <4>2. Refers(competencies', competencies, SkillNames, Statement.name, script.ids[Statement.name],
                     competencies[Statement.name].parent)
          BY <2>3, <2>5, <4>1, CompetencyIsLinked
        <4>3. /\ competencies' \in [SkillNames -> CompetencyRow]
              /\ competencies'[Statement.name].legacy <= Len(skills)
              /\ \A n \in SkillNames : n # Statement.name => competencies'[n] = competencies[n]
          BY <1>2, <2>4, <4>2 DEF Refers
        <4>4. \A n \in SkillNames : competencies[n].legacy <= Len(skills)
          BY DEF SeedDataOK
        <4>. QED  BY <4>3, <4>4
      <3>2. SeedDataOK'
        BY <1>1, <3>1 DEF SeedDataOK
      <3>. QED  BY <1>1, <1>2, <2>1, <2>5, <3>2, StepKeepsRun
    <2>6. CASE script' = NotRunning /\ UNCHANGED competencies
      BY <1>1, <2>6 DEF SeedDataOK, SeedRunOK
    <2>. QED  BY <1>3, <2>5, <2>6 DEF UpsertCompetency
  <1>4. CASE SetParent
    <2>1. InPhase("parents") /\ "parents" \in DOMAIN LineOf /\ Onward(script)
      BY <1>4 DEF SetParent, LineOf
    <2>2. Statement \in ToSet(SeedSkills)
      BY <2>1, StatementHere, SkillLists DEF Kind
    <2>3. Statement.name \in SkillNames /\ Statement.parent \in ParentNames
      BY <2>2, SkillIs DEF ParentNames
    <2>4. competencies' \in [SkillNames -> CompetencyRow]
          /\ \A n \in SkillNames : competencies'[n].legacy <= Len(skills)
      <3>1. competencies \in [SkillNames -> CompetencyRow]
        BY DEF SeedDataOK
      <3>2. competencies' = [competencies EXCEPT ![Statement.name].parent = Statement.parent]
        BY <1>4 DEF SetParent
      <3>3. Refers(competencies', competencies, SkillNames, Statement.name,
                   competencies[Statement.name].legacy, Statement.parent)
        BY <2>3, <3>1, <3>2, CompetencyHasParent
      <3>4. /\ competencies' \in [SkillNames -> CompetencyRow]
            /\ competencies'[Statement.name].legacy = competencies[Statement.name].legacy
            /\ \A n \in SkillNames : n # Statement.name => competencies'[n] = competencies[n]
        BY <3>3 DEF Refers
      <3>5. \A n \in SkillNames : competencies[n].legacy <= Len(skills)
        BY DEF SeedDataOK
      <3>. QED  BY <2>3, <3>4, <3>5
    <2>5. SeedDataOK'
      BY <1>1, <2>4 DEF SeedDataOK
    <2>. QED  BY <1>1, <1>2, <2>1, <2>5, StepKeepsRun
  <1>. QED  BY <1>3, <1>4

(* Beginning and dying keep the types.                                     *)
LEMMA BeginsOrEnds ==
  ASSUME SeedDataOK, SeedRunOK, BeginSeed \/ SeedDies
  PROVE  SeedDataOK' /\ SeedRunOK'
  <1>1. UNCHANGED <<seedData, seedDay>>
    BY DEF BeginSeed, SeedDies
  <1>2. SeedDataOK'
    BY <1>1 DEF SeedDataOK, seedData
  <1>3. CASE SeedDies
    BY <1>2, <1>3 DEF SeedDies, SeedRunOK
  <1>4. CASE BeginSeed
    <2>1. PICK r : /\ r = [phase |-> "accounts", left |-> Statements("accounts"),
                           ids |-> [n \in SkillNames |-> 0], began |-> seedDay, since |-> Hence,
                           opened |-> [a \in {"free", "premium"} |-> 0]]
                   /\ script' = r
      BY <1>4, SMTT(60) DEF BeginSeed
    <2>2. PICK n \in Nat, m \in Nat : n = Len(subscriptions) /\ m = Len(skills)
      BY DataIs
    <2>3. Hence \in Nat /\ seedDay \in Nat
      BY DataIs DEF Hence, SeedDataOK
    <2>4. "accounts" \in DOMAIN LineOf /\ Statements("accounts") \in Seq(Kind("accounts"))
      BY StatementsAre DEF LineOf
    <2>5. /\ DOMAIN r = {"phase", "left", "ids", "began", "since", "opened"}
          /\ r.phase = "accounts" /\ r.left = Statements("accounts") /\ r.ids = [k \in SkillNames |-> 0]
          /\ r.began = seedDay /\ r.since = Hence /\ r.opened = [a \in {"free", "premium"} |-> 0]
      BY <2>1
    <2>6. [k \in SkillNames |-> 0] \in [SkillNames -> 0 .. m]
          /\ [a \in {"free", "premium"} |-> 0] \in [{"free", "premium"} -> 0 .. n]
      BY <2>2
    <2>7. IsRun(r, n, m)
      BY <2>3, <2>4, <2>5, <2>6 DEF IsRun
    <2>8. VisitsHere(r, roleOf)
      BY <2>5 DEF VisitsHere
    <2>9. subscriptions' = subscriptions /\ skills' = skills /\ roleOf' = roleOf
      BY <1>1 DEF seedData
    <2>. QED  BY <1>2, <2>1, <2>2, <2>7, <2>8, <2>9 DEF SeedRunOK
  <1>. QED  BY <1>3, <1>4

(* What happens beside the script leaves it where it is.                   *)
LEMMA RunStays ==
  ASSUME SeedDataOK, SeedRunOK, script' = script, Len(subscriptions') \in Nat,
         Len(subscriptions) <= Len(subscriptions'), Len(skills') = Len(skills),
         \A a \in Account : roleOf[a] # Missing => roleOf'[a] # Missing
  PROVE  SeedRunOK'
  <1>1. CASE script = NotRunning
    BY <1>1 DEF SeedRunOK
  <1>2. CASE IsRun(script, Len(subscriptions), Len(skills)) /\ VisitsHere(script, roleOf)
    <2>1. Len(subscriptions) \in Nat /\ Len(skills) \in Nat
      BY DataIs
    <2>2. IsRun(script, Len(subscriptions'), Len(skills))
      BY <1>2, <2>1, MoreOfARun
    <2>3. VisitsHere(script, roleOf')
      <3>1. SUFFICES ASSUME script.phase = "users", NEW v \in ToSet(script.left), v.todo # "list"
                     PROVE  roleOf'[v.user] # Missing
        BY DEF VisitsHere
      <3>2. script.left \in Seq(Visits \cup {Listing})
        BY <1>2, <3>1 DEF IsRun, Kind
      <3>3. v \in Visits \cup {Listing}
        BY <3>1, <3>2, LenProperties DEF ToSet
      <3>4. v.user \in Account
        BY <3>1, <3>3 DEF Visits, Listing
      <3>. QED  BY <1>2, <3>1, <3>4 DEF VisitsHere
    <2>. QED  BY <2>2, <2>3 DEF SeedRunOK
  <1>. QED  BY <1>1, <1>2 DEF SeedRunOK

(* What the service does beside the script keeps the types.                *)
LEMMA BesideKeeps ==
  ASSUME SeedDataOK, SeedRunOK,
         \/ \E a \in Customer : Join(a) \/ Pay(a)
         \/ \E a \in Account : AskPlan(a)
         \/ \E i \in DOMAIN skills, n \in SkillNames \cup {NewName} : RenameSkill(i, n)
         \/ \E r \in SeededRows : ChangeRow(r)
         \/ NextDay
  PROVE  SeedDataOK' /\ SeedRunOK'
  <1>0. Len(subscriptions) \in Nat /\ Len(skills) \in Nat /\ Now \in Nat /\ seedDay + Period \in Nat /\ seedDay \in Nat
    BY DataIs DEF Now, SeedDataOK, Period
  <1>1. CASE \E a \in Customer : Join(a)
    <2>1. PICK a \in Customer : Join(a)
      BY <1>1
    <2>2. a \in Account /\ script' = script
          /\ UNCHANGED <<subscriptions, paid, skills, aliasOf, transfers, competencies, rows, seedDay>>
      BY <2>1 DEF Join, Beside, Account
    <2>3. roleOf' \in [Account -> Roles] /\ \A b \in Account : roleOf[b] # Missing => roleOf'[b] # Missing
      BY <2>1, <2>2 DEF Join, SeedDataOK, Roles, Missing
    <2>4. SeedDataOK'
      BY <2>2, <2>3 DEF SeedDataOK
    <2>. QED  BY <1>0, <2>2, <2>3, <2>4, RunStays
  <1>2. CASE \E a \in Customer : Pay(a)
    <2>1. PICK a \in Customer : Pay(a)
      BY <1>2
    <2>2. a \in Account /\ script' = script
          /\ UNCHANGED <<paid, skills, aliasOf, transfers, competencies, rows, seedDay>>
      BY <2>1 DEF Pay, Beside, Account
    <2>3. roleOf' \in [Account -> Roles] /\ \A b \in Account : roleOf[b] # Missing => roleOf'[b] # Missing
      BY <2>1, <2>2 DEF Pay, SeedDataOK, Roles, Missing
    <2>4. PICK s : s = ClosedFor(a) /\ s \in Seq(SubscriptionRow) /\ Len(s) = Len(subscriptions)
      BY <2>2, ClosedIs
    <2>5. PICK e \in SubscriptionRow : e = Plan(a, "PREMIUM", seedDay + Period, Now)
      BY <1>0, <2>2, PlanIs
    <2>6. subscriptions' = Append(s, e)
      BY <2>1, <2>4, <2>5 DEF Pay
    <2>7. subscriptions' \in Seq(SubscriptionRow) /\ Len(subscriptions') = Len(subscriptions) + 1
      BY <2>4, <2>6, AppendIs
    <2>8. SeedDataOK' /\ Len(subscriptions') \in Nat
      BY <1>0, <2>2, <2>3, <2>7, DataWithSubscriptions
    <2>. QED  BY <1>0, <2>2, <2>3, <2>7, <2>8, RunStays
  <1>3. CASE \E a \in Account : AskPlan(a)
    <2>1. PICK a \in Account : AskPlan(a)
      BY <1>3
    <2>2. script' = script /\ UNCHANGED <<paid, skills, aliasOf, transfers, competencies, rows, seedDay>>
      BY <2>1 DEF AskPlan, Beside
    <2>3. roleOf' \in [Account -> Roles] /\ \A b \in Account : roleOf[b] # Missing => roleOf'[b] # Missing
      <3>1. PICK plan : roleOf' = [roleOf EXCEPT ![a] = IF roleOf[a] \in {"ADMIN", "SPECIALIST"} THEN roleOf[a]
                                      ELSE IF plan = "PREMIUM" THEN "PREMIUM" ELSE "USER"]
        BY <2>1 DEF AskPlan
      <3>. QED  BY <2>1, <3>1 DEF SeedDataOK, Roles, Missing
    <2>4. PICK s : /\ s = [i \in DOMAIN subscriptions |->
                            IF subscriptions[i].user = a /\ subscriptions[i].expires \in 0 .. seedDay
                            THEN [subscriptions[i] EXCEPT !.active = FALSE] ELSE subscriptions[i]]
                   /\ subscriptions' = IF HasPlan(a) THEN s ELSE Append(s, Plan(a, "FREE", Forever, Now))
      BY <2>1 DEF AskPlan
    <2>5. s \in Seq(SubscriptionRow) /\ Len(s) = Len(subscriptions)
      <3>1. PICK n \in Nat : n = Len(subscriptions) /\ DOMAIN subscriptions = 1 .. n
        BY DataIs
      <3>2. \A i \in 1 .. n : subscriptions[i] \in SubscriptionRow
        BY <3>1 DEF SeedDataOK
      <3>3. \A x \in SubscriptionRow : [x EXCEPT !.active = FALSE] \in SubscriptionRow
        BY DEF SubscriptionRow
      <3>4. s \in [1 .. n -> SubscriptionRow]
        BY <2>4, <3>1, <3>2, <3>3
      <3>. QED  BY <3>1, <3>4
    <2>6. PICK e \in SubscriptionRow : e = Plan(a, "FREE", Forever, Now)
      <3>1. Forever \in Nat \cup {Forever}
        OBVIOUS
      <3>. QED  BY <1>0, <3>1, PlanIs
    <2>7. subscriptions' \in Seq(SubscriptionRow) /\ Len(subscriptions) <= Len(subscriptions')
      <3>1. CASE HasPlan(a)
        BY <1>0, <2>4, <2>5, <3>1
      <3>2. CASE ~ HasPlan(a)
        <4>1. subscriptions' = Append(s, e)
          BY <2>4, <2>6, <3>2
        <4>. QED  BY <1>0, <2>5, <4>1, AppendIs
      <3>. QED  BY <3>1, <3>2
    <2>8. SeedDataOK' /\ Len(subscriptions') \in Nat
      BY <2>2, <2>3, <2>7, DataWithSubscriptions
    <2>. QED  BY <2>2, <2>3, <2>7, <2>8, RunStays
  <1>4. CASE \E i \in DOMAIN skills, n \in SkillNames \cup {NewName} : RenameSkill(i, n)
    <2>1. PICK i \in DOMAIN skills, n \in SkillNames \cup {NewName} : RenameSkill(i, n)
      BY <1>4
    <2>2. /\ skills' = [skills EXCEPT ![i].name = n] /\ Ids(n) = {} /\ script' = script
          /\ UNCHANGED <<roleOf, subscriptions, paid, aliasOf, transfers, competencies, rows, seedDay>>
      BY <2>1, SMTT(60) DEF RenameSkill, Beside
    <2>3. PICK m \in Nat : m = Len(skills) /\ DOMAIN skills = 1 .. m
      BY DataIs
    <2>4. PICK s \in [1 .. m -> SkillRow] : s = skills
      <3>1. skills \in Seq(SkillRow)
        BY DEF SeedDataOK
      <3>. QED  BY <2>3, <3>1
    <2>5. /\ skills' \in [1 .. m -> SkillRow] /\ skills'[i].name = n
          /\ \A k \in 1 .. m : skills'[k].parent = skills[k].parent /\ (k # i => skills'[k] = skills[k])
      BY <2>2, <2>3, <2>4 DEF SkillRow
    <2>6. skills' \in Seq(SkillRow) /\ Len(skills') = m /\ DOMAIN skills' = 1 .. m
      BY <2>5
    <2>7. \A k \in 1 .. m : skills[k].name # n
      BY <2>2, <2>3 DEF Ids
    <2>8. \A k, l \in 1 .. m : skills'[k].name = skills'[l].name => k = l
      <3>1. \A k, l \in 1 .. m : skills[k].name = skills[l].name => k = l
        BY <2>3 DEF SeedDataOK
      <3>. QED  BY <2>5, <2>7, <3>1
    <2>9. \A k \in 1 .. m : skills'[k].parent <= m
      BY <2>3, <2>5 DEF SeedDataOK
    <2>10. SeedDataOK'
      BY <2>2, <2>3, <2>6, <2>8, <2>9 DEF SeedDataOK
    <2>. QED  BY <1>0, <2>2, <2>3, <2>6, <2>10, RunStays
  <1>5. CASE NextDay \/ \E r \in SeededRows : ChangeRow(r)
    <2>1. /\ script' = script /\ seedDay' \in Nat
          /\ UNCHANGED <<roleOf, subscriptions, paid, skills, aliasOf, transfers, competencies>>
      BY <1>0, <1>5 DEF NextDay, ChangeRow, Beside, seedData
    <2>2. rows' \in [SeededRows -> {"seed", "other", Missing}]
      BY <1>5 DEF NextDay, ChangeRow, SeedDataOK, seedData
    <2>3. SeedDataOK'
      BY <2>1, <2>2 DEF SeedDataOK
    <2>. QED  BY <1>0, <2>1, <2>3, RunStays
  <1>. QED  BY <1>1, <1>2, <1>3, <1>4, <1>5

(* The types hold at the beginning.                                        *)
LEMMA SeedBegins ==
  ASSUME SeedInit
  PROVE  SeedDataOK /\ SeedRunOK
  <1>1. roleOf \in [Account -> Roles]
    BY DEF SeedInit, Roles
  <1>2. /\ subscriptions \in Seq(SubscriptionRow) /\ skills \in Seq(SkillRow)
        /\ Len(subscriptions) = 0 /\ Len(skills) = 0 /\ DOMAIN skills = {}
    <2>1. subscriptions = <<>> /\ skills = <<>>
      BY DEF SeedInit
    <2>. QED  BY <2>1
  <1>4. paid \in [{"free", "premium"} -> 0 .. 0]
    <2>1. paid = [a \in {"free", "premium"} |-> 0]
      BY DEF SeedInit
    <2>2. 0 \in 0 .. 0
      OBVIOUS
    <2>. QED  BY <2>1, <2>2
  <1>5. competencies \in [SkillNames -> CompetencyRow] /\ \A k \in SkillNames : competencies[k].legacy <= 0
    <2>1. competencies = [n \in SkillNames |-> [legacy |-> 0, parent |-> ""]]
      BY DEF SeedInit
    <2>2. PICK c : c = [legacy |-> 0, parent |-> ""]
      OBVIOUS
    <2>3. c \in CompetencyRow
      BY <2>2 DEF CompetencyRow, ParentNames
    <2>4. c.legacy <= 0
      <3>1. c.legacy = 0
        BY <2>2
      <3>. QED  BY <3>1
    <2>. QED  BY <2>1, <2>2, <2>3, <2>4
  <1>6. rows \in [SeededRows -> {"seed", "other", Missing}] /\ seedDay \in Nat
        /\ DOMAIN aliasOf = {p[1] : p \in ToSet(Aliases)} /\ script = NotRunning
    BY DEF SeedInit
  <1>. QED  BY <1>1, <1>2, <1>4, <1>5, <1>6 DEF SeedDataOK, SeedRunOK

(* Every step keeps the types, and the run fits the tables.                *)
LEMMA SeedStepKeeps ==
  ASSUME SeedDataOK, SeedRunOK, [SeedNext]_seedVars
  PROVE  SeedDataOK' /\ SeedRunOK'
  <1>1. CASE UNCHANGED seedVars
    BY <1>1 DEF seedVars, SeedDataOK, SeedRunOK
  <1>2. CASE UpsertAccount \/ UpsertPlan \/ UpsertRow \/ CreateMissing
    BY <1>2, AccountsPhaseKeeps
  <1>3. CASE CloseSubscriptions \/ OpenSubscription \/ UpsertPayment
    BY <1>3, PaymentsPhaseKeeps
  <1>4. CASE ListUsers \/ FindPlan \/ GivePlan \/ SetRole
    BY <1>4, UsersPhaseKeeps
  <1>5. CASE UpsertSkill
    BY <1>5, SkillsPhaseKeeps
  <1>6. CASE UpsertAlias \/ UpsertTransferability
    BY <1>6, LinksPhasesKeep
  <1>7. CASE UpsertCompetency \/ SetParent
    BY <1>7, CompetenciesPhasesKeep
  <1>8. CASE BeginSeed \/ SeedDies
    BY <1>8, BeginsOrEnds
  <1>9. CASE \/ \E a \in Customer : Join(a) \/ Pay(a)
             \/ \E a \in Account : AskPlan(a)
             \/ \E i \in DOMAIN skills, n \in SkillNames \cup {NewName} : RenameSkill(i, n)
             \/ \E r \in SeededRows : ChangeRow(r)
             \/ NextDay
    BY <1>9, BesideKeeps
  <1>. QED  BY <1>1, <1>2, <1>3, <1>4, <1>5, <1>6, <1>7, <1>8, <1>9 DEF SeedNext

(* The types of the module follow.                                         *)
LEMMA SeedDataIsTyped ==
  ASSUME SeedDataOK
  PROVE  SeedTypeOK
  <1>1. \A i \in DOMAIN subscriptions : subscriptions[i] \in SubscriptionRow
    BY DataIs DEF SeedDataOK
  <1>2. \A i \in DOMAIN skills : skills[i] \in SkillRow
    BY DataIs DEF SeedDataOK
  <1>3. \A i \in DOMAIN skills : skills[i].parent \in 0 .. Len(skills)
    BY <1>2, DataIs DEF SeedDataOK, SkillRow
  <1>4. \A n \in SkillNames : competencies[n].legacy \in 0 .. Len(skills)
    BY DataIs DEF SeedDataOK, CompetencyRow
  <1>. QED  BY <1>1, <1>3, <1>4 DEF SeedDataOK, SeedTypeOK, SubscriptionRow, Roles

(* Whatever is seeded, however often, and whatever is done beside it, the  *)
(* rows keep their types, and what refers to a subscription or a skill     *)
(* refers to one that there is.                                            *)
THEOREM SeedTypes == SeedSpec => []SeedTypeOK
  <1>1. SeedInit => SeedDataOK /\ SeedRunOK
    BY SeedBegins
  <1>2. (SeedDataOK /\ SeedRunOK) /\ [SeedNext]_seedVars => (SeedDataOK /\ SeedRunOK)'
    BY SeedStepKeeps
  <1>3. SeedDataOK => SeedTypeOK
    BY SeedDataIsTyped
  <1>. QED  BY <1>1, <1>2, <1>3, PTL DEF SeedSpec

-----------------------------------------------------------------------------
(* What the statements that a run has executed have left behind            *)

(* What the statements that a run has executed have left behind.           *)
Active(a) == {i \in DOMAIN subscriptions : subscriptions[i].user = a /\ subscriptions[i].active}
DemoPlan == [free |-> "FREE", premium |-> "PREMIUM"]
(* The subscription the run opened for a demo account is its only active   *)
(* one, of its plan and in force.                                          *)
Opened(a) ==
  /\ script.opened[a] \in DOMAIN subscriptions /\ Active(a) = {script.opened[a]}
  /\ subscriptions[script.opened[a]].plan = DemoPlan[a]
  /\ InForce(subscriptions[script.opened[a]])
Six == <<"close free", "open free", "close premium", "open premium", "pay premium", "pay free">>
(* The first k statements of the payments have been executed.              *)
Executed(k) ==
  LineOf[script.phase] > 3 \/ (script.phase = "payments" /\ Len(script.left) <= 6 - k)

(* What the run has executed stands, table by table.                       *)
AccountsDone == \A a \in Demo : Pending(script, "accounts", a) \/ roleOf[a] = DemoRole[a]

RowsDone ==
  /\ \A x \in ToSet(PlanRows) : Pending(script, "plans", x) \/ rows[x] = "seed"
  /\ \A x \in ToSet(CatalogRows) :
       Pending(script, "rows", x) \/ rows[x] = "seed" \/ (x[1] \in KeptTables /\ rows[x] # Missing)

PaymentsDone ==
  /\ script.phase = "payments" =>
       /\ Len(script.left) <= 6
       /\ \A i \in DOMAIN script.left : script.left[i] = Six[6 - Len(script.left) + i]
       /\ Len(script.left) = 5 => Active("free") = {}
       /\ Len(script.left) = 3 => Active("premium") = {}
  /\ Executed(2) => Opened("free")
  /\ Executed(4) => Opened("premium")
  /\ Executed(5) => paid["premium"] = script.opened["premium"]
  /\ LineOf[script.phase] > 3 => paid["free"] = script.opened["free"]

(* A visit remembers the role of the account; demo accounts need no plan   *)
(* given.                                                                  *)
VisitOK(v) ==
  v.todo # "list" =>
    /\ v.user \in Demo => v.role = DemoRole[v.user]
    /\ v.todo = "give" => v.user \notin {"free", "premium"}
(* A visit that will still see to the plan of the account.                 *)
Covers(v, a) == v.todo = "list" \/ (v.user = a /\ v.todo \in {"find", "give"})
UsersDone ==
  /\ script.phase = "users" => \A v \in ToSet(script.left) : VisitOK(v)
  /\ \A a \in Account : roleOf[a] # Missing =>
       \/ HasPlan(a) \/ LineOf[script.phase] < 4
       \/ script.phase = "users" /\ \E v \in ToSet(script.left) : Covers(v, a)

(* The skill and its parent have been written, and it refers to that       *)
(* parent.                                                                 *)
Rooted(s) ==
  /\ script.ids[s.name] # 0
  /\ s.parent # "" => /\ script.ids[s.parent] # 0
                      /\ skills[script.ids[s.name]].parent = script.ids[s.parent]
SkillsDone ==
  /\ \A n \in SkillNames : script.ids[n] # 0 => skills[script.ids[n]].name = n
  /\ \A s \in ToSet(SeedSkills) : Pending(script, "skills", s) \/ Rooted(s)
  /\ script.phase = "skills" => \A i \in DOMAIN script.left :
       script.left[i].parent # "" =>
         \/ script.ids[script.left[i].parent] # 0
         \/ \E j \in 1 .. i - 1 : script.left[j].name = script.left[i].parent

LinksDone ==
  /\ \A p \in ToSet(Aliases) : Pending(script, "aliases", p) \/ aliasOf[p[1]] = script.ids[p[2]]
  /\ \A p \in ToSet(SeedTransfers) :
       Pending(script, "transfers", p) \/ <<script.ids[p[1]], script.ids[p[2]]>> \in transfers

CompetenciesDone ==
  /\ \A s \in ToSet(SeedSkills) :
       Pending(script, "competencies", s) \/ competencies[s.name].legacy = script.ids[s.name]
  /\ \A s \in ToSet(Children) :
       Pending(script, "parents", s) \/ competencies[s.name].parent = s.parent

AllDone ==
  /\ script.began = seedDay /\ AccountsDone /\ RowsDone /\ PaymentsDone /\ UsersDone
  /\ SkillsDone /\ LinksDone /\ CompetenciesDone
(* As long as nobody else writes, what the run has executed stands.        *)
SeedProgress == undisturbed /\ script # NotRunning => AllDone

(* A run that has executed a statement of the phase p and goes on with r.  *)
Moved(p, r) ==
  /\ script.phase = p /\ script.left # <<>> /\ p # "done" /\ p \in DOMAIN LineOf
  /\ script'.ids = r.ids /\ script'.began = r.began /\ script'.opened = r.opened
  /\ script'.phase \in DOMAIN LineOf
  /\ \/ script'.phase = p /\ script'.left = Tail(r.left) /\ Tail(r.left) # <<>>
     \/ LineOf[script'.phase] = LineOf[p] + 1 /\ script'.left = Statements(script'.phase) /\ Tail(r.left) = <<>>
  /\ \A q \in DOMAIN LineOf \ {p} : \A x \in ToSet(Statements(q)) :
       Pending(script, q, x) => Pending(script', q, x)
  /\ r.left = script.left => \A x \in ToSet(Statements(p)) :
       Pending(script, p, x) => Pending(script', p, x) \/ x = Statement

(* A statement moves the run on from its phase.                            *)
LEMMA Moves ==
  ASSUME SeedDataOK, SeedRunOK, NEW p \in DOMAIN LineOf, InPhase(p),
         NEW n, NEW m, NEW r, IsRun(r, n, m), r.phase = p, r.left # <<>>, Onward(r)
  PROVE  Moved(p, r) /\ IsRun(script', n, m)
  <1>1. script.phase = p /\ script.left # <<>> /\ Statement = Head(script.left)
    BY StatementHere
  <1>2. script' = GoesOn(r)
    BY <1>1, OnwardIs
  <1>3. PICK g : g = GoesOn(r)
    OBVIOUS
  <1>4. /\ IsRun(g, n, m) /\ g.ids = r.ids /\ g.began = r.began /\ g.opened = r.opened /\ p # "done"
        /\ \/ g.phase = p /\ g.left = Tail(r.left) /\ Tail(r.left) # <<>>
           \/ /\ g.phase = PhaseAfter(p) /\ LineOf[g.phase] = LineOf[p] + 1
              /\ g.left = Statements(PhaseAfter(p)) /\ Tail(r.left) = <<>>
    <2>1. /\ IsRun(GoesOn(r), n, m) /\ GoesOn(r).ids = r.ids /\ GoesOn(r).began = r.began
          /\ GoesOn(r).opened = r.opened /\ r.phase # "done"
      BY MovesOn
    <2>2. \/ GoesOn(r).phase = r.phase /\ GoesOn(r).left = Tail(r.left) /\ Tail(r.left) # <<>>
          \/ /\ GoesOn(r).phase = PhaseAfter(r.phase) /\ LineOf[GoesOn(r).phase] = LineOf[r.phase] + 1
             /\ GoesOn(r).left = Statements(PhaseAfter(r.phase)) /\ Tail(r.left) = <<>>
      BY MovesOn
    <2>. QED  BY <1>3, <2>1, <2>2, Zenon
  <1>5. \A q \in DOMAIN LineOf : \A x \in ToSet(Statements(q)) :
          Pending(r, q, x) => Pending(g, q, x) \/ (q = p /\ x = Head(r.left))
    <2>1. \A q \in DOMAIN LineOf : \A x \in ToSet(Statements(q)) :
            Pending(r, q, x) => Pending(GoesOn(r), q, x) \/ (q = r.phase /\ x = Head(r.left))
      <3>1. StillPending(r, GoesOn(r))
        BY MovesOn
      <3>. QED  BY <3>1 DEF StillPending
    <2>. QED  BY <1>3, <2>1
  <1>6. \A q \in DOMAIN LineOf \ {p} : \A x : Pending(script, q, x) => Pending(r, q, x)
    BY <1>1 DEF Pending
  <1>7. r.left = script.left => \A x : Pending(script, p, x) => Pending(r, p, x)
    BY <1>1 DEF Pending
  <1>8. g.phase \in DOMAIN LineOf
    BY <1>4 DEF IsRun
  <1>9. \A q \in DOMAIN LineOf \ {p} : \A x \in ToSet(Statements(q)) : Pending(script, q, x) => Pending(g, q, x)
    BY <1>5, <1>6
  <1>10. r.left = script.left => \A x \in ToSet(Statements(p)) :
           Pending(script, p, x) => Pending(g, p, x) \/ x = Statement
    BY <1>1, <1>5, <1>7
  <1>11. \/ g.phase = p /\ g.left = Tail(r.left) /\ Tail(r.left) # <<>>
         \/ LineOf[g.phase] = LineOf[p] + 1 /\ g.left = Statements(g.phase) /\ Tail(r.left) = <<>>
    BY <1>4
  <1>12. script' = g
    BY <1>2, <1>3
  <1>. QED  BY <1>1, <1>4, <1>8, <1>9, <1>10, <1>11, <1>12, Zenon DEF Moved

(* No two phases have one number.                                          *)
LEMMA Later ==
  \A p \in DOMAIN LineOf : LineOf[p] \in Nat /\ \A q \in DOMAIN LineOf : LineOf[p] = LineOf[q] => p = q
  BY DEF LineOf

(* What is done about the accounts stays done.                             *)
LEMMA AccountsStay ==
  ASSUME NEW p, NEW r, Moved(p, r), p # "accounts", AccountsDone,
         \A a \in Demo : roleOf[a] = DemoRole[a] => roleOf'[a] = DemoRole[a]
  PROVE  AccountsDone'
  <1>1. \A a \in Demo : a \in ToSet(Statements("accounts")) /\ "accounts" \in DOMAIN LineOf
    <2>1. Statements("accounts") = <<"admin", "free", "premium", "specialist">>
      BY DEF Statements
    <2>. QED  BY <2>1 DEF Demo, ToSet, LineOf
  <1>. QED  BY <1>1 DEF AccountsDone, Moved

(* What is done about the rows that nothing refers to stays done.          *)
LEMMA RowsStay ==
  ASSUME NEW p, NEW r, Moved(p, r), p \notin {"plans", "rows"}, RowsDone, rows' = rows
  PROVE  RowsDone'
  <1>1. /\ Statements("plans") = PlanRows /\ Statements("rows") = CatalogRows
        /\ {"plans", "rows"} \subseteq DOMAIN LineOf
    BY DEF Statements, LineOf
  <1>. QED  BY <1>1 DEF RowsDone, Moved

(* What is done about the demo plans and payments stays done.              *)
LEMMA PaymentsStay ==
  ASSUME NEW p, NEW r, Moved(p, r), p # "payments", PaymentsDone, paid' = paid,
         script'.opened = script.opened, Opened("free") => Opened("free")', Opened("premium") => Opened("premium")'
  PROVE  PaymentsDone'
  <1>1. CASE LineOf[p] < 3
    <2>1. script'.phase = "payments" => script'.left = Six
      BY <1>1 DEF Moved, Statements, Six, LineOf
    <2>2. LineOf[script'.phase] <= 3 /\ script'.phase \in DOMAIN LineOf
      BY <1>1, Later DEF Moved
    <2>3. Len(Six) = 6 /\ \A i \in DOMAIN Six : Six[i] = Six[6 - 6 + i]
      <3>1. \A i \in 1 .. 6 : 6 - 6 + i = i
        OBVIOUS
      <3>2. Len(Six) = 6 /\ DOMAIN Six = 1 .. 6
        BY DEF Six
      <3>. QED  BY <3>1, <3>2
    <2>4. ~ Executed(2)' /\ ~ Executed(4)' /\ ~ Executed(5)' /\ ~ (LineOf[script'.phase] > 3)
      <3>1. LineOf[script'.phase] \in Nat /\ ~ (LineOf[script'.phase] > 3)
        BY <2>2, Later
      <3>2. script'.phase = "payments" => Len(script'.left) = 6
        BY <2>1, <2>3
      <3>3. PICK l : l = Len(script'.left)
        OBVIOUS
      <3>4. \A k \in {2, 4, 5} : script'.phase = "payments" => ~ (l <= 6 - k)
        <4>1. SUFFICES ASSUME NEW k \in {2, 4, 5}, script'.phase = "payments" PROVE ~ (l <= 6 - k)
          OBVIOUS
        <4>2. l = 6 /\ (k = 2 \/ k = 4 \/ k = 5)
          BY <3>2, <3>3, <4>1, Zenon
        <4>. QED  BY <4>2
      <3>5. \A k \in {2, 4, 5} : ~ Executed(k)'
        BY <3>1, <3>3, <3>4, Zenon DEF Executed
      <3>. QED  BY <3>1, <3>5
    <2>5. ASSUME script'.phase = "payments"
          PROVE  /\ Len(script'.left) <= 6 /\ Len(script'.left) # 5 /\ Len(script'.left) # 3
                 /\ \A i \in DOMAIN script'.left : script'.left[i] = Six[6 - Len(script'.left) + i]
      <3>1. script'.left = Six
        BY <2>1, <2>5
      <3>2. Len(script'.left) = 6
        BY <2>3, <3>1, Zenon
      <3>3. \A i \in DOMAIN script'.left : script'.left[i] = Six[6 - Len(script'.left) + i]
        BY <2>3, <3>1, <3>2, Zenon
      <3>. QED  BY <3>2, <3>3
    <2>. QED  BY <2>4, <2>5 DEF PaymentsDone
  <1>2. CASE ~ (LineOf[p] < 3)
    <2>1. LineOf[p] > 3 /\ LineOf["payments"] = 3
      <3>1. LineOf["payments"] = 3 /\ "payments" \in DOMAIN LineOf
        BY DEF LineOf
      <3>. QED  BY <1>2, <3>1, Later DEF Moved
    <2>2. LineOf[script'.phase] > 3 /\ script'.phase # "payments"
      BY <2>1, Later DEF Moved
    <2>3. script.phase = p
      BY DEF Moved
    <2>4. Executed(2) /\ Executed(4) /\ Executed(5)
      BY <2>1, <2>3 DEF Executed
    <2>. QED  BY <2>1, <2>2, <2>3, <2>4 DEF PaymentsDone
  <1>. QED  BY <1>1, <1>2

(* What is done about the plans of all accounts stays done.                *)
LEMMA UsersStay ==
  ASSUME NEW p, NEW r, Moved(p, r), p # "users", UsersDone, seedDay' = seedDay,
         LineOf[p] < 4 \/ (subscriptions' = subscriptions /\ roleOf' = roleOf)
  PROVE  UsersDone'
  <1>1. LineOf["users"] = 4 /\ "users" \in DOMAIN LineOf
    BY DEF LineOf
  <1>2. LineOf[p] # 4 /\ LineOf[p] \in Nat /\ LineOf[script'.phase] \in Nat /\ p \in DOMAIN LineOf /\ script.phase = p
    BY <1>1, Later DEF Moved
  <1>3. CASE LineOf[p] < 4
    <2>1. LineOf[script'.phase] <= 4
      BY <1>2, <1>3 DEF Moved
    <2>2. CASE script'.phase = "users"
      <3>1. script'.left = <<Listing>>
        BY <1>1, <1>2, <2>2 DEF Moved, Statements, Listing
      <3>2. ToSet(<<Listing>>) = {Listing}
        BY DEF ToSet
      <3>3. Listing.todo = "list"
        BY DEF Listing
      <3>. QED  BY <2>2, <3>1, <3>2, <3>3 DEF UsersDone, VisitOK, Covers
    <2>3. CASE script'.phase # "users"
      <3>1. LineOf[script'.phase] < 4
        BY <1>1, <1>2, <2>1, <2>3, Later DEF Moved
      <3>. QED  BY <2>3, <3>1 DEF UsersDone
    <2>. QED  BY <2>2, <2>3
  <1>4. CASE ~ (LineOf[p] < 4)
    <2>1. LineOf[p] > 4 /\ LineOf[script'.phase] > 4 /\ script'.phase # "users" /\ script.phase # "users"
      BY <1>1, <1>2, <1>4 DEF Moved
    <2>2. \A a \in Account : roleOf[a] # Missing => HasPlan(a)
      BY <1>2, <2>1 DEF UsersDone
    <2>3. subscriptions' = subscriptions /\ roleOf' = roleOf
      BY <1>4
    <2>4. \A a \in Account : HasPlan(a)' <=> HasPlan(a)
      BY <2>3 DEF HasPlan, InForce
    <2>. QED  BY <2>1, <2>2, <2>3, <2>4 DEF UsersDone
  <1>. QED  BY <1>3, <1>4

(* What is done about the skills stays done.                               *)
LEMMA SkillsStay ==
  ASSUME NEW p, NEW r, Moved(p, r), p # "skills", SkillsDone, skills' = skills,
         script'.ids = script.ids
  PROVE  SkillsDone'
  <1>1. Statements("skills") = Roots \o Children /\ "skills" \in DOMAIN LineOf /\ LineOf["skills"] = 5
    BY DEF Statements, LineOf
  <1>2. \A s \in ToSet(SeedSkills) : Pending(script, "skills", s) => Pending(script', "skills", s)
    BY <1>1, SkillLists DEF Moved
  <1>3. script'.phase = "skills" => script'.left = Roots \o Children
    BY <1>1 DEF Moved
  <1>. QED  BY <1>2, <1>3, SkillLists DEF SkillsDone, Rooted

(* What is done about aliases and transfers stays done.                    *)
LEMMA LinksStay ==
  ASSUME NEW p, NEW r, Moved(p, r), p \notin {"aliases", "transfers"}, LinksDone,
         aliasOf' = aliasOf, transfers' = transfers, p = "skills" \/ script'.ids = script.ids
  PROVE  LinksDone'
  <1>1. /\ Statements("aliases") = Aliases /\ Statements("transfers") = SeedTransfers
        /\ {"aliases", "transfers"} \subseteq DOMAIN LineOf
    BY DEF Statements, LineOf
  <1>2. \A x \in ToSet(Aliases) : Pending(script, "aliases", x) => Pending(script', "aliases", x)
    BY <1>1 DEF Moved
  <1>3. \A x \in ToSet(SeedTransfers) : Pending(script, "transfers", x) => Pending(script', "transfers", x)
    BY <1>1 DEF Moved
  <1>4. CASE p = "skills"
    <2>1. \A x : Pending(script, "aliases", x) /\ Pending(script, "transfers", x)
      BY <1>4 DEF Moved, Pending, LineOf
    <2>. QED  BY <1>2, <1>3, <2>1 DEF LinksDone
  <1>5. CASE script'.ids = script.ids
    BY <1>2, <1>3, <1>5 DEF LinksDone
  <1>. QED  BY <1>4, <1>5

(* What is done about the competencies stays done.                         *)
LEMMA CompetenciesStay ==
  ASSUME NEW p, NEW r, Moved(p, r), p \notin {"competencies", "parents"}, CompetenciesDone,
         competencies' = competencies, p = "skills" \/ script'.ids = script.ids
  PROVE  CompetenciesDone'
  <1>1. /\ Statements("competencies") = SeedSkills /\ Statements("parents") = Children
        /\ {"competencies", "parents"} \subseteq DOMAIN LineOf
    BY DEF Statements, LineOf
  <1>2. \A x \in ToSet(SeedSkills) : Pending(script, "competencies", x) => Pending(script', "competencies", x)
    BY <1>1 DEF Moved
  <1>3. \A x \in ToSet(Children) : Pending(script, "parents", x) => Pending(script', "parents", x)
    BY <1>1 DEF Moved
  <1>4. CASE p = "skills"
    <2>1. \A x : Pending(script, "competencies", x)
      BY <1>4 DEF Moved, Pending, LineOf
    <2>. QED  BY <1>2, <1>3, <2>1 DEF CompetenciesDone
  <1>5. CASE script'.ids = script.ids
    BY <1>2, <1>3, <1>5 DEF CompetenciesDone
  <1>. QED  BY <1>4, <1>5

-----------------------------------------------------------------------------
(* What a statement adds: accounts, rows, links and competencies           *)

(* A statement that remembers nothing moves the run on, and is the only    *)
(* one no longer pending.                                                  *)
LEMMA Goes ==
  ASSUME SeedDataOK, SeedRunOK, NEW p \in DOMAIN LineOf, InPhase(p), Onward(script)
  PROVE  Moved(p, script) /\ script'.ids = script.ids /\ script'.began = script.began
         /\ script'.opened = script.opened
         /\ \A x \in ToSet(Statements(p)) : Pending(script, p, x) => Pending(script', p, x) \/ x = Statement
  <1>1. IsRun(script, Len(subscriptions), Len(skills)) /\ script.left # <<>> /\ script.phase = p
    BY StatementHere
  <1>2. Moved(p, script)
    BY <1>1, Moves
  <1>. QED  BY <1>2 DEF Moved

(* A subscription opened by the run stays open while nothing is written    *)
(* there.                                                                  *)
LEMMA OpenedSame ==
  ASSUME script'.opened = script.opened, subscriptions' = subscriptions, seedDay' = seedDay, NEW a, Opened(a)
  PROVE  Opened(a)'
  BY DEF Opened, Active, InForce

(* The statements about the accounts leave done what they take off the     *)
(* list.                                                                   *)
LEMMA AccountsAdvance ==
  ASSUME SeedDataOK, SeedRunOK, AllDone, UpsertAccount
  PROVE  AllDone'
  <1>1. InPhase("accounts") /\ "accounts" \in DOMAIN LineOf /\ Onward(script) /\ LineOf["accounts"] < 4
    BY DEF UpsertAccount, LineOf
  <1>2. /\ roleOf' = [roleOf EXCEPT ![Statement] = DemoRole[Statement]]
        /\ UNCHANGED <<subscriptions, paid, skills, aliasOf, transfers, competencies, rows, seedDay>>
    BY DEF UpsertAccount
  <1>3. /\ Moved("accounts", script) /\ script'.ids = script.ids /\ script'.began = script.began
        /\ script'.opened = script.opened
        /\ \A x \in ToSet(Statements("accounts")) :
             Pending(script, "accounts", x) => Pending(script', "accounts", x) \/ x = Statement
    BY <1>1, Goes
  <1>4. AccountsDone'
    <2>1. \A a \in Demo : a \in ToSet(Statements("accounts"))
      <3>1. Statements("accounts") = <<"admin", "free", "premium", "specialist">>
        BY DEF Statements
      <3>. QED  BY <3>1 DEF Demo, ToSet
    <2>2. \A a \in Demo : a \in DOMAIN roleOf
      BY DEF SeedDataOK, Account
    <2>3. \A a \in Demo : roleOf'[a] = IF a = Statement THEN DemoRole[a] ELSE roleOf[a]
      BY <1>2, <2>2
    <2>. QED  BY <1>3, <2>1, <2>3 DEF AccountsDone, AllDone
  <1>5. RowsDone'
    BY <1>2, <1>3, RowsStay DEF AllDone
  <1>6. PaymentsDone'
    BY <1>2, <1>3, PaymentsStay, OpenedSame DEF AllDone
  <1>7. UsersDone'
    BY <1>1, <1>2, <1>3, UsersStay DEF AllDone
  <1>8. SkillsDone'
    BY <1>2, <1>3, SkillsStay DEF AllDone
  <1>9. LinksDone'
    BY <1>2, <1>3, LinksStay DEF AllDone
  <1>10. CompetenciesDone'
    BY <1>2, <1>3, CompetenciesStay DEF AllDone
  <1>. QED  BY <1>2, <1>3, <1>4, <1>5, <1>6, <1>7, <1>8, <1>9, <1>10 DEF AllDone

(* The statements about the rows that nothing refers to leave done what    *)
(* they take off the list.                                                 *)
LEMMA RowsAdvance ==
  ASSUME SeedDataOK, SeedRunOK, AllDone, UpsertPlan \/ UpsertRow \/ CreateMissing
  PROVE  AllDone'
  <1>1. PICK p \in {"plans", "rows"} : InPhase(p) /\ p \in DOMAIN LineOf /\ Onward(script) /\ p = script.phase
    BY DEF UpsertPlan, UpsertRow, CreateMissing, WriteRow, LineOf, InPhase
  <1>2. UNCHANGED <<roleOf, subscriptions, paid, skills, aliasOf, transfers, competencies, seedDay>>
    BY DEF UpsertPlan, UpsertRow, CreateMissing, WriteRow
  <1>3. /\ Moved(p, script) /\ script'.ids = script.ids /\ script'.began = script.began
        /\ script'.opened = script.opened
        /\ \A x \in ToSet(Statements(p)) : Pending(script, p, x) => Pending(script', p, x) \/ x = Statement
    BY <1>1, Goes
  <1>4. RowsDone'
    <2>1. /\ Statements("plans") = PlanRows /\ Statements("rows") = CatalogRows
          /\ {"plans", "rows"} \subseteq DOMAIN LineOf
      BY DEF Statements, LineOf
    <2>2. Statement \in SeededRows
      BY <1>1, StatementHere DEF Kind, SeededRows
    <2>3. /\ \A x \in SeededRows : x # Statement => rows'[x] = rows[x]
          /\ rows[Statement] = "seed" => rows'[Statement] = "seed"
          /\ rows'[Statement] = "seed" \/ (p = "rows" /\ Statement[1] \in KeptTables /\ rows'[Statement] # Missing)
      <3>1. DOMAIN rows = SeededRows
        BY DEF SeedDataOK
      <3>2. CASE UpsertPlan \/ UpsertRow
        <4>1. rows' = [rows EXCEPT ![Statement] = "seed"]
          BY <3>2 DEF UpsertPlan, UpsertRow, WriteRow
        <4>. QED  BY <2>2, <3>1, <4>1
      <3>3. CASE CreateMissing
        <4>1. /\ rows' = [rows EXCEPT ![Statement] = IF rows[Statement] = Missing THEN "seed" ELSE rows[Statement]]
              /\ Statement[1] \in KeptTables /\ p = "rows"
          BY <1>1, <3>3 DEF CreateMissing, InPhase
        <4>. QED  BY <2>2, <3>1, <4>1
      <3>. QED  BY <3>2, <3>3
    <2>4. ASSUME NEW x \in ToSet(PlanRows) PROVE Pending(script', "plans", x) \/ rows'[x] = "seed"
      <3>1. Pending(script, "plans", x) => Pending(script', "plans", x) \/ (p = "plans" /\ x = Statement)
        BY <1>3, <2>1, <2>4 DEF Moved
      <3>2. p = "plans" => rows'[Statement] = "seed"
        BY <2>3
      <3>3. Pending(script, "plans", x) \/ rows[x] = "seed"
        BY <2>4 DEF AllDone, RowsDone
      <3>4. x \in SeededRows
        BY <2>4 DEF SeededRows
      <3>. QED  BY <2>3, <3>1, <3>2, <3>3, <3>4
    <2>5. ASSUME NEW x \in ToSet(CatalogRows)
          PROVE  Pending(script', "rows", x) \/ rows'[x] = "seed" \/ (x[1] \in KeptTables /\ rows'[x] # Missing)
      <3>1. Pending(script, "rows", x) => Pending(script', "rows", x) \/ (p = "rows" /\ x = Statement)
        BY <1>3, <2>1, <2>5 DEF Moved
      <3>2. Pending(script, "rows", x) \/ rows[x] = "seed" \/ (x[1] \in KeptTables /\ rows[x] # Missing)
        BY <2>5 DEF AllDone, RowsDone
      <3>3. x \in SeededRows
        BY <2>5 DEF SeededRows
      <3>4. rows'[Statement] # Missing
        BY <2>3 DEF Missing
      <3>. QED  BY <2>3, <3>1, <3>2, <3>3, <3>4
    <2>. QED  BY <2>4, <2>5 DEF RowsDone
  <1>5. AccountsDone'
    BY <1>2, <1>3, AccountsStay DEF AllDone
  <1>6. PaymentsDone'
    BY <1>2, <1>3, PaymentsStay, OpenedSame DEF AllDone
  <1>7. UsersDone'
    BY <1>1, <1>2, <1>3, UsersStay DEF AllDone
  <1>8. SkillsDone'
    BY <1>2, <1>3, SkillsStay DEF AllDone
  <1>9. LinksDone'
    BY <1>2, <1>3, LinksStay DEF AllDone
  <1>10. CompetenciesDone'
    BY <1>2, <1>3, CompetenciesStay DEF AllDone
  <1>. QED  BY <1>2, <1>3, <1>4, <1>5, <1>6, <1>7, <1>8, <1>9, <1>10 DEF AllDone

(* The statements about the aliases and transfers leave done what they     *)
(* take off the list.                                                      *)
LEMMA LinksAdvance ==
  ASSUME SeedDataOK, SeedRunOK, AllDone, UpsertAlias \/ UpsertTransferability
  PROVE  AllDone'
  <1>1. PICK p \in {"aliases", "transfers"} : InPhase(p) /\ p \in DOMAIN LineOf /\ Onward(script) /\ p = script.phase
    BY DEF UpsertAlias, UpsertTransferability, LineOf, InPhase
  <1>2. UNCHANGED <<roleOf, subscriptions, paid, skills, competencies, rows, seedDay>>
    BY DEF UpsertAlias, UpsertTransferability
  <1>3. /\ Moved(p, script) /\ script'.ids = script.ids /\ script'.began = script.began
        /\ script'.opened = script.opened
        /\ \A x \in ToSet(Statements(p)) : Pending(script, p, x) => Pending(script', p, x) \/ x = Statement
    BY <1>1, Goes
  <1>4. LinksDone'
    <2>1. /\ Statements("aliases") = Aliases /\ Statements("transfers") = SeedTransfers
          /\ {"aliases", "transfers"} \subseteq DOMAIN LineOf
      BY DEF Statements, LineOf
    <2>2. \/ p = "aliases" /\ transfers' = transfers
             /\ aliasOf' = [aliasOf EXCEPT ![Statement[1]] = script.ids[Statement[2]]]
          \/ p = "transfers" /\ aliasOf' = aliasOf
             /\ transfers' = transfers \cup {<<script.ids[Statement[1]], script.ids[Statement[2]]>>}
      BY <1>1 DEF UpsertAlias, UpsertTransferability, InPhase
    <2>3. ASSUME NEW x \in ToSet(Aliases) PROVE Pending(script', "aliases", x) \/ aliasOf'[x[1]] = script.ids[x[2]]
      <3>1. Pending(script, "aliases", x) => Pending(script', "aliases", x) \/ (p = "aliases" /\ x = Statement)
        BY <1>3, <2>1, <2>3 DEF Moved
      <3>2. Pending(script, "aliases", x) \/ aliasOf[x[1]] = script.ids[x[2]]
        BY <2>3 DEF AllDone, LinksDone
      <3>3. x[1] \in DOMAIN aliasOf
        BY <2>3 DEF SeedDataOK
      <3>4. CASE p = "transfers"
        BY <2>2, <3>1, <3>2, <3>4
      <3>5. CASE p = "aliases"
        <4>1. Statement \in ToSet(Aliases)
          BY <1>1, <3>5, StatementHere DEF Kind
        <4>2. x[1] = Statement[1] => x = Statement
          BY <2>3, <4>1, SeedAssumption DEF ToSet
        <4>3. aliasOf'[x[1]] = IF x[1] = Statement[1] THEN script.ids[Statement[2]] ELSE aliasOf[x[1]]
          BY <2>2, <3>3, <3>5
        <4>. QED  BY <3>1, <3>2, <4>2, <4>3
      <3>. QED  BY <3>4, <3>5
    <2>4. ASSUME NEW x \in ToSet(SeedTransfers)
          PROVE  Pending(script', "transfers", x) \/ <<script.ids[x[1]], script.ids[x[2]]>> \in transfers'
      <3>1. Pending(script, "transfers", x) => Pending(script', "transfers", x) \/ (p = "transfers" /\ x = Statement)
        BY <1>3, <2>1, <2>4 DEF Moved
      <3>2. Pending(script, "transfers", x) \/ <<script.ids[x[1]], script.ids[x[2]]>> \in transfers
        BY <2>4 DEF AllDone, LinksDone
      <3>3. transfers \subseteq transfers'
            /\ (p = "transfers" => <<script.ids[Statement[1]], script.ids[Statement[2]]>> \in transfers')
        BY <2>2
      <3>. QED  BY <3>1, <3>2, <3>3
    <2>. QED  BY <1>3, <2>3, <2>4 DEF LinksDone
  <1>5. AccountsDone'
    BY <1>2, <1>3, AccountsStay DEF AllDone
  <1>6. RowsDone'
    BY <1>2, <1>3, RowsStay DEF AllDone
  <1>7. PaymentsDone'
    BY <1>2, <1>3, PaymentsStay, OpenedSame DEF AllDone
  <1>8. UsersDone'
    BY <1>1, <1>2, <1>3, UsersStay DEF AllDone
  <1>9. SkillsDone'
    BY <1>2, <1>3, SkillsStay DEF AllDone
  <1>10. CompetenciesDone'
    BY <1>2, <1>3, CompetenciesStay DEF AllDone
  <1>. QED  BY <1>2, <1>3, <1>4, <1>5, <1>6, <1>7, <1>8, <1>9, <1>10 DEF AllDone

(* The statements about the competencies leave done what they take off     *)
(* the list.                                                               *)
LEMMA CompetenciesAdvance ==
  ASSUME SeedDataOK, SeedRunOK, AllDone, UpsertCompetency \/ SetParent, script' # NotRunning
  PROVE  AllDone'
  <1>1. PICK p \in {"competencies", "parents"} :
          InPhase(p) /\ p \in DOMAIN LineOf /\ Onward(script) /\ p = script.phase
    BY DEF UpsertCompetency, SetParent, LineOf, InPhase
  <1>2. UNCHANGED <<roleOf, subscriptions, paid, skills, aliasOf, transfers, rows, seedDay>>
    BY DEF UpsertCompetency, SetParent
  <1>3. /\ Moved(p, script) /\ script'.ids = script.ids /\ script'.began = script.began
        /\ script'.opened = script.opened
        /\ \A x \in ToSet(Statements(p)) : Pending(script, p, x) => Pending(script', p, x) \/ x = Statement
    BY <1>1, Goes
  <1>4. CompetenciesDone'
    <2>1. /\ Statements("competencies") = SeedSkills /\ Statements("parents") = Children
          /\ {"competencies", "parents"} \subseteq DOMAIN LineOf
      BY DEF Statements, LineOf
    <2>2. Statement \in ToSet(SeedSkills) /\ (p = "parents" => Statement \in ToSet(Children))
      BY <1>1, StatementHere, SkillLists DEF Kind
    <2>3. PICK name : name = Statement.name /\ name \in SkillNames
      BY <2>2, SkillIs
    <2>4. IsRun(script, Len(subscriptions), Len(skills))
      BY <1>1, StatementHere
    <2>5. script.ids[name] \in Nat
      BY <2>3, <2>4, DataIs DEF IsRun
    <2>6. \/ p = "competencies" /\ Refers(competencies', competencies, SkillNames, name, script.ids[name], competencies[name].parent)
          \/ p = "parents" /\ Refers(competencies', competencies, SkillNames, name, competencies[name].legacy, Statement.parent)
      <3>1. competencies \in [SkillNames -> CompetencyRow]
        BY DEF SeedDataOK
      <3>2. CASE UpsertCompetency
        <4>1. p = "competencies" /\ competencies' = [competencies EXCEPT ![name].legacy = script.ids[name]]
          BY <1>1, <2>3, <3>2 DEF UpsertCompetency, InPhase
        <4>. QED  BY <2>3, <2>5, <3>1, <4>1, CompetencyIsLinked
      <3>3. CASE SetParent
        <4>1. p = "parents" /\ competencies' = [competencies EXCEPT ![name].parent = Statement.parent]
          BY <1>1, <2>3, <3>3 DEF SetParent, InPhase
        <4>2. Statement.parent \in ParentNames
          BY <2>2 DEF ParentNames
        <4>. QED  BY <2>3, <3>1, <4>1, <4>2, CompetencyHasParent
      <3>. QED  BY <3>2, <3>3
    <2>7. \A x \in ToSet(SeedSkills) : x.name \in SkillNames /\ (x.name = name => x = Statement)
      <3>1. ASSUME NEW x \in ToSet(SeedSkills) PROVE x.name \in SkillNames /\ (x.name = name => x = Statement)
        <4>1. x.name \in SkillNames
          BY <3>1, SkillIs
        <4>2. PICK i \in DOMAIN SeedSkills, k \in DOMAIN SeedSkills : x = SeedSkills[i] /\ Statement = SeedSkills[k]
          BY <2>2, <3>1 DEF ToSet
        <4>. QED  BY <2>3, <4>1, <4>2, SeedAssumption
      <3>. QED  BY <3>1
    <2>8. ASSUME NEW x \in ToSet(SeedSkills)
          PROVE  Pending(script', "competencies", x) \/ competencies'[x.name].legacy = script.ids[x.name]
      <3>1. Pending(script, "competencies", x) => Pending(script', "competencies", x) \/ (p = "competencies" /\ x = Statement)
        BY <1>3, <2>1, <2>8 DEF Moved
      <3>2. Pending(script, "competencies", x) \/ competencies[x.name].legacy = script.ids[x.name]
        BY <2>8 DEF AllDone, CompetenciesDone
      <3>3. x.name # name => competencies'[x.name] = competencies[x.name]
        BY <2>6, <2>7, <2>8 DEF Refers
      <3>4. \/ p = "competencies" /\ competencies'[name].legacy = script.ids[name]
            \/ p = "parents" /\ competencies'[name].legacy = competencies[name].legacy
        BY <2>6 DEF Refers
      <3>. QED  BY <2>3, <2>7, <2>8, <3>1, <3>2, <3>3, <3>4
    <2>9. ASSUME NEW x \in ToSet(Children)
          PROVE  Pending(script', "parents", x) \/ competencies'[x.name].parent = x.parent
      <3>0. x \in ToSet(SeedSkills)
        BY <2>9, SkillLists
      <3>1. Pending(script, "parents", x) => Pending(script', "parents", x) \/ (p = "parents" /\ x = Statement)
        BY <1>3, <2>1, <2>9 DEF Moved
      <3>2. Pending(script, "parents", x) \/ competencies[x.name].parent = x.parent
        BY <2>9 DEF AllDone, CompetenciesDone
      <3>3. x.name # name => competencies'[x.name] = competencies[x.name]
        BY <2>6, <2>7, <3>0 DEF Refers
      <3>4. \/ p = "competencies" /\ competencies'[name].parent = competencies[name].parent
            \/ p = "parents" /\ competencies'[name].parent = Statement.parent
        BY <2>6 DEF Refers
      <3>. QED  BY <2>3, <2>7, <3>0, <3>1, <3>2, <3>3, <3>4
    <2>. QED  BY <1>3, <2>8, <2>9 DEF CompetenciesDone
  <1>5. AccountsDone'
    BY <1>2, <1>3, AccountsStay DEF AllDone
  <1>6. RowsDone'
    BY <1>2, <1>3, RowsStay DEF AllDone
  <1>7. PaymentsDone'
    BY <1>2, <1>3, PaymentsStay, OpenedSame DEF AllDone
  <1>8. UsersDone'
    BY <1>1, <1>2, <1>3, UsersStay DEF AllDone
  <1>9. SkillsDone'
    BY <1>2, <1>3, SkillsStay DEF AllDone
  <1>10. LinksDone'
    BY <1>2, <1>3, LinksStay DEF AllDone
  <1>. QED  BY <1>2, <1>3, <1>4, <1>5, <1>6, <1>7, <1>8, <1>9, <1>10 DEF AllDone

-----------------------------------------------------------------------------
(* Subscriptions and payments                                              *)

(* Opening a subscription leaves every other in force.                     *)
LEMMA Appended ==
  ASSUME SeedDataOK, NEW e \in SubscriptionRow, e.active = TRUE,
         subscriptions' = Append(subscriptions, e), seedDay' = seedDay
  PROVE  /\ Len(subscriptions) + 1 \in DOMAIN subscriptions' /\ subscriptions'[Len(subscriptions) + 1] = e
         /\ \A b \in Account : b # e.user => Active(b)' = Active(b)
         /\ Active(e.user)' = Active(e.user) \cup {Len(subscriptions) + 1}
         /\ \A i \in DOMAIN subscriptions : i \in DOMAIN subscriptions' /\ subscriptions'[i] = subscriptions[i]
         /\ \A b \in Account : HasPlan(b) => HasPlan(b)'
         /\ InForce(e) => HasPlan(e.user)'
  <1>1. PICK n \in Nat : n = Len(subscriptions) /\ DOMAIN subscriptions = 1 .. n
    BY DataIs
  <1>2. subscriptions \in Seq(SubscriptionRow)
    BY DEF SeedDataOK
  <1>3. /\ DOMAIN subscriptions' = 1 .. n + 1 /\ subscriptions'[n + 1] = e
        /\ \A i \in 1 .. n : subscriptions'[i] = subscriptions[i]
    BY <1>1, <1>2, AppendIs
  <1>4. \A i \in 1 .. n + 1 : i \in 1 .. n \/ i = n + 1
    OBVIOUS
  <1>5. \A i \in 1 .. n : i \in 1 .. n + 1 /\ i # n + 1
    OBVIOUS
  <1>6. n + 1 \in 1 .. n + 1
    OBVIOUS
  <1>7. \A b \in Account : b # e.user => Active(b)' = Active(b)
    BY <1>1, <1>3, <1>4, <1>5 DEF Active
  <1>8. Active(e.user)' = Active(e.user) \cup {n + 1}
    BY <1>1, <1>3, <1>4, <1>5, <1>6 DEF Active
  <1>9. \A b \in Account : HasPlan(b) => HasPlan(b)'
    <2>1. \A s : InForce(s) => InForce(s)'
      BY DEF InForce
    <2>2. SUFFICES ASSUME NEW b \in Account, HasPlan(b) PROVE HasPlan(b)'
      OBVIOUS
    <2>3. PICK i \in 1 .. n : subscriptions[i].user = b /\ InForce(subscriptions[i])
      BY <1>1, <2>2 DEF HasPlan
    <2>4. i \in 1 .. n + 1 /\ subscriptions'[i] = subscriptions[i]
      BY <1>3, <1>5
    <2>. QED  BY <1>3, <2>3, <2>4 DEF HasPlan, InForce
  <1>10. InForce(e) => HasPlan(e.user)'
    BY <1>3, <1>6 DEF HasPlan, InForce
  <1>. QED  BY <1>1, <1>3, <1>5, <1>6, <1>7, <1>8, <1>9, <1>10

(* Closing leaves the account none and the others theirs.                  *)
LEMMA ClosedActive ==
  ASSUME SeedDataOK, NEW a \in Account, subscriptions' = ClosedFor(a)
  PROVE  /\ DOMAIN subscriptions' = DOMAIN subscriptions /\ Active(a)' = {}
         /\ \A b \in Account : b # a => Active(b)' = Active(b)
         /\ \A i \in DOMAIN subscriptions : subscriptions[i].user # a => subscriptions'[i] = subscriptions[i]
  <1>1. /\ DOMAIN subscriptions' = DOMAIN subscriptions
        /\ \A i \in DOMAIN subscriptions :
             /\ subscriptions'[i].user = subscriptions[i].user
             /\ subscriptions[i].user = a => ~ subscriptions'[i].active
             /\ subscriptions[i].user # a => subscriptions'[i] = subscriptions[i]
    BY ClosedIs
  <1>. QED  BY <1>1 DEF Active

(* A demo account's subscription is untouched by what happens to others.   *)
LEMMA OpenedKept ==
  ASSUME NEW a, Opened(a), script'.opened[a] = script.opened[a], seedDay' = seedDay, Active(a)' = Active(a),
         \A i \in DOMAIN subscriptions :
           subscriptions[i].user = a => i \in DOMAIN subscriptions' /\ subscriptions'[i] = subscriptions[i]
  PROVE  Opened(a)'
  <1>1. PICK i : i = script.opened[a]
    OBVIOUS
  <1>2. i \in DOMAIN subscriptions /\ Active(a) = {i} /\ subscriptions[i].plan = DemoPlan[a] /\ InForce(subscriptions[i])
    BY <1>1 DEF Opened
  <1>3. subscriptions[i].user = a
    BY <1>2 DEF Active
  <1>4. i \in DOMAIN subscriptions' /\ subscriptions'[i] = subscriptions[i]
    BY <1>2, <1>3
  <1>5. InForce(subscriptions[i])'
    BY <1>2, <1>4 DEF InForce
  <1>6. script'.opened[a] = i /\ Active(a)' = {i} /\ subscriptions'[i].plan = DemoPlan[a]
    BY <1>1, <1>2, <1>4
  <1>7. InForce(subscriptions[script.opened[a]])'
    BY <1>1, <1>5, <1>6
  <1>. QED  BY <1>4, <1>6, <1>7 DEF Opened

(* Where the replacement of the subscriptions is.                          *)
PaymentsLeft(n) ==
  /\ n \in 1 .. 6 /\ Len(script.left) = n /\ Statement = Six[7 - n]
  /\ \/ n > 1 /\ script'.phase = "payments" /\ Len(script'.left) = n - 1
        /\ \A i \in DOMAIN script'.left : script'.left[i] = Six[6 - (n - 1) + i]
     \/ n = 1 /\ LineOf[script'.phase] = 4 /\ script'.phase # "payments"

(* In the phase of the payments the number of statements left says which   *)
(* comes next.                                                             *)
LEMMA Pays ==
  ASSUME SeedDataOK, SeedRunOK, PaymentsDone, InPhase("payments"), NEW r, Moved("payments", r), r.left = script.left
  PROVE  \E n : PaymentsLeft(n)
  <1>1. LineOf["payments"] = 3 /\ "payments" \in DOMAIN LineOf
    BY DEF LineOf
  <1>2. /\ script.phase = "payments" /\ script.left # <<>> /\ Statement = Head(script.left)
        /\ IsRun(script, Len(subscriptions), Len(skills))
    BY <1>1, StatementHere
  <1>3. PICK K : K = Kind("payments")
    OBVIOUS
  <1>4. PICK s \in Seq(K) : s = script.left
    BY <1>2, <1>3 DEF IsRun
  <1>5. PICK n \in Nat : n = Len(s) /\ n > 0 /\ DOMAIN s = 1 .. n
    BY <1>2, <1>4, EmptySeq, LenProperties
  <1>6. n <= 6 /\ \A i \in 1 .. n : s[i] = Six[6 - n + i]
    BY <1>2, <1>4, <1>5 DEF PaymentsDone
  <1>7. PICK t \in Seq(K) : /\ t = Tail(s) /\ Len(t) = n - 1 /\ DOMAIN t = 1 .. n - 1
                            /\ \A i \in 1 .. n - 1 : t[i] = s[i + 1]
    <2>1. s # <<>>
      BY <1>2, <1>4
    <2>2. Tail(s) \in Seq(K) /\ Len(Tail(s)) = n - 1 /\ \A i \in DOMAIN Tail(s) : Tail(s)[i] = s[i + 1]
      BY <1>5, <2>1, ListRange
    <2>3. DOMAIN Tail(s) = 1 .. n - 1
      BY <2>2, LenProperties
    <2>. QED  BY <2>2, <2>3
  <1>8. Statement = Six[7 - n]
    <2>1. Statement = s[1]
      BY <1>2, <1>4, <1>5
    <2>2. s[1] = Six[6 - n + 1] /\ 6 - n + 1 = 7 - n
      BY <1>5, <1>6
    <2>. QED  BY <2>1, <2>2
  <1>9. CASE t # <<>>
    <2>1. n > 1
      <3>1. Len(t) # 0
        BY <1>9, EmptySeq
      <3>. QED  BY <1>5, <1>7, <3>1
    <2>2. script'.phase = "payments" /\ script'.left = t
      BY <1>4, <1>7, <1>9 DEF Moved
    <2>3. \A i \in 1 .. n - 1 : t[i] = Six[6 - (n - 1) + i]
      <3>1. SUFFICES ASSUME NEW i \in 1 .. n - 1 PROVE t[i] = Six[6 - (n - 1) + i]
        OBVIOUS
      <3>2. i + 1 \in 1 .. n /\ 6 - n + (i + 1) = 6 - (n - 1) + i
        BY <1>5
      <3>3. t[i] = s[i + 1]
        BY <1>7
      <3>4. s[i + 1] = Six[6 - n + (i + 1)]
        BY <1>6, <3>2
      <3>. QED  BY <3>2, <3>3, <3>4
    <2>4. n \in 1 .. 6 /\ Len(script.left) = n
      <3>1. n <= 6
        BY <1>6
      <3>2. Len(script.left) = n
        BY <1>4, <1>5
      <3>3. n \in Nat /\ n > 0
        BY <1>5
      <3>4. n \in 1 .. 6
        BY <3>1, <3>3
      <3>. QED  BY <3>2, <3>4
    <2>5. Len(script'.left) = n - 1 /\ DOMAIN script'.left = 1 .. n - 1
      BY <1>7, <2>2
    <2>6. \A i \in DOMAIN script'.left : script'.left[i] = Six[6 - (n - 1) + i]
      BY <2>2, <2>3, <2>5
    <2>7. PaymentsLeft(n)
      BY <1>8, <2>1, <2>2, <2>4, <2>5, <2>6 DEF PaymentsLeft
    <2>. QED  BY <2>7
  <1>10. CASE t = <<>>
    <2>1. Len(t) = 0
      BY <1>10, EmptySeq
    <2>2. n = 1
      BY <1>5, <1>7, <2>1
    <2>3. LineOf[script'.phase] = 4
      BY <1>1, <1>4, <1>7, <1>10 DEF Moved
    <2>4. script'.phase # "payments"
      BY <1>1, <2>3
    <2>. QED  BY <1>4, <1>5, <1>8, <2>2, <2>3, <2>4 DEF PaymentsLeft
  <1>. QED  BY <1>9, <1>10

(* What a statement of the payments has to leave for the next one.         *)
LEMMA PaymentsGo ==
  ASSUME SeedDataOK, PaymentsDone, script.phase = "payments", NEW n, PaymentsLeft(n),
         n = 6 => Active("free")' = {}, n = 4 => Active("premium")' = {},
         n <= 5 => Opened("free")', n <= 3 => Opened("premium")',
         n <= 2 => paid'["premium"] = script'.opened["premium"],
         n = 1 => paid'["free"] = script'.opened["free"]
  PROVE  PaymentsDone'
  <1>1. n \in 1 .. 6
    BY DEF PaymentsLeft
  <1>2. CASE n > 1
    <2>1. PICK l : l = script'.left
      OBVIOUS
    <2>2. /\ script'.phase = "payments" /\ Len(l) = n - 1
          /\ \A i \in DOMAIN l : l[i] = Six[6 - (n - 1) + i]
      BY <1>1, <1>2, <2>1 DEF PaymentsLeft
    <2>3. ~ (LineOf[script'.phase] > 3)
      BY <2>2 DEF LineOf
    <2>4. Len(l) <= 6 /\ (Len(l) = 5 => n = 6) /\ (Len(l) = 3 => n = 4)
          /\ (Len(l) <= 6 - 2 => n <= 5) /\ (Len(l) <= 6 - 4 => n <= 3) /\ (Len(l) <= 6 - 5 => n <= 2)
      BY <1>1, <2>2
    <2>5. \A i \in DOMAIN l : l[i] = Six[6 - Len(l) + i]
      BY <2>2
    <2>6. Executed(2)' => n <= 5
      BY <2>1, <2>3, <2>4, Zenon DEF Executed
    <2>7. Executed(4)' => n <= 3
      BY <2>1, <2>3, <2>4, Zenon DEF Executed
    <2>8. Executed(5)' => n <= 2
      BY <2>1, <2>3, <2>4, Zenon DEF Executed
    <2>. QED  BY <2>1, <2>3, <2>4, <2>5, <2>6, <2>7, <2>8 DEF PaymentsDone
  <1>3. CASE n = 1
    <2>1. script'.phase # "payments"
      BY <1>3 DEF PaymentsLeft
    <2>2. n <= 5 /\ n <= 3 /\ n <= 2
      BY <1>3
    <2>. QED  BY <1>3, <2>1, <2>2 DEF PaymentsDone
  <1>. QED  BY <1>1, <1>2, <1>3

(* What holds where the replacement is.                                    *)
LEMMA PaymentsSoFar ==
  ASSUME PaymentsDone, script.phase = "payments", NEW n, PaymentsLeft(n)
  PROVE  /\ n = 5 => Active("free") = {}
         /\ n = 3 => Active("premium") = {}
         /\ n \in {1, 2, 3, 4} => Opened("free")
         /\ n \in {1, 2} => Opened("premium")
         /\ n = 1 => paid["premium"] = script.opened["premium"]
         /\ Statement = "close free" => n = 6
         /\ Statement = "open free" => n = 5
         /\ Statement = "close premium" => n = 4
         /\ Statement = "open premium" => n = 3
         /\ Statement = "pay premium" => n = 2
         /\ Statement = "pay free" => n = 1
  <1>1. n \in 1 .. 6 /\ Len(script.left) = n /\ Statement = Six[7 - n]
    BY DEF PaymentsLeft
  <1>2. n = 1 \/ n = 2 \/ n = 3 \/ n = 4 \/ n = 5 \/ n = 6
    BY <1>1
  <1>3. /\ n = 1 => Statement = "pay free"
        /\ n = 2 => Statement = "pay premium"
        /\ n = 3 => Statement = "open premium"
        /\ n = 4 => Statement = "close premium"
        /\ n = 5 => Statement = "open free"
        /\ n = 6 => Statement = "close free"
    <2>1. /\ Six[1] = "close free" /\ Six[2] = "open free" /\ Six[3] = "close premium"
          /\ Six[4] = "open premium" /\ Six[5] = "pay premium" /\ Six[6] = "pay free"
      BY DEF Six
    <2>2. PICK k : k = 7 - n
      OBVIOUS
    <2>3. /\ n = 1 => k = 6
          /\ n = 2 => k = 5
          /\ n = 3 => k = 4
          /\ n = 4 => k = 3
          /\ n = 5 => k = 2
          /\ n = 6 => k = 1
      BY <1>1, <2>2
    <2>4. Statement = Six[k]
      BY <1>1, <2>2
    <2>. QED  BY <2>1, <2>3, <2>4
  <1>4. (n <= 4 => Executed(2)) /\ (n <= 2 => Executed(4)) /\ (n <= 1 => Executed(5))
    BY <1>1 DEF Executed
  <1>5. /\ n = 5 => Active("free") = {}
        /\ n = 3 => Active("premium") = {}
    BY <1>1 DEF PaymentsDone
  <1>6. /\ n \in {1, 2, 3, 4} => Opened("free")
        /\ n \in {1, 2} => Opened("premium")
        /\ n = 1 => paid["premium"] = script.opened["premium"]
    <2>1. /\ n \in {1, 2, 3, 4} => n <= 4
          /\ n \in {1, 2} => n <= 2
          /\ n = 1 => n <= 1
      OBVIOUS
    <2>. QED  BY <1>4, <2>1 DEF PaymentsDone
  <1>. QED  BY <1>2, <1>3, <1>5, <1>6

(* The statements about the demo plans and payments leave done what they   *)
(* take off the list.                                                      *)
LEMMA PaymentsAdvance ==
  ASSUME SeedDataOK, SeedRunOK, AllDone, CloseSubscriptions \/ OpenSubscription \/ UpsertPayment
  PROVE  AllDone'
  <1>1. InPhase("payments") /\ "payments" \in DOMAIN LineOf /\ LineOf["payments"] < 4
    <2>1. InPhase("payments")
      BY DEF CloseSubscriptions, OpenSubscription, UpsertPayment
    <2>. QED  BY <2>1 DEF LineOf
  <1>2. /\ IsRun(script, Len(subscriptions), Len(skills)) /\ script.left # <<>> /\ script.phase = "payments"
    BY <1>1, StatementHere
  <1>3. UNCHANGED <<roleOf, skills, aliasOf, transfers, competencies, rows, seedDay>>
    BY DEF CloseSubscriptions, OpenSubscription, UpsertPayment
  <1>4. {"free", "premium"} \subseteq Account /\ seedDay \in Nat
    BY DEF Account, Demo, SeedDataOK
  <1>5. SUFFICES \E r : /\ Moved("payments", r) /\ r.ids = script.ids /\ r.began = seedDay
                        /\ PaymentsDone'
    <2>1. PICK r : /\ Moved("payments", r) /\ r.ids = script.ids /\ r.began = seedDay /\ PaymentsDone'
      BY <1>5
    <2>2. script'.ids = script.ids /\ script'.began = seedDay'
      BY <1>3, <2>1 DEF Moved
    <2>3. AccountsDone'
      BY <1>3, <2>1, AccountsStay DEF AllDone
    <2>4. RowsDone'
      BY <1>3, <2>1, RowsStay DEF AllDone
    <2>5. UsersDone'
      BY <1>1, <1>3, <2>1, UsersStay DEF AllDone
    <2>6. SkillsDone'
      BY <1>3, <2>1, <2>2, SkillsStay DEF AllDone
    <2>7. LinksDone'
      BY <1>3, <2>1, <2>2, LinksStay DEF AllDone
    <2>8. CompetenciesDone'
      BY <1>3, <2>1, <2>2, CompetenciesStay DEF AllDone
    <2>. QED  BY <2>1, <2>2, <2>3, <2>4, <2>5, <2>6, <2>7, <2>8 DEF AllDone
  <1>6. CASE CloseSubscriptions
    <2>1. PICK a \in {"free", "premium"} :
            /\ Statement = IF a = "free" THEN "close free" ELSE "close premium"
            /\ subscriptions' = ClosedFor(a)
            /\ Onward(IF a = "free" THEN [script EXCEPT !.began = seedDay, !.since = Hence] ELSE script)
      BY <1>6 DEF CloseSubscriptions
    <2>2. PICK r : r = IF a = "free" THEN [script EXCEPT !.began = seedDay, !.since = Hence] ELSE script
      OBVIOUS
    <2>3. Hence \in Nat /\ script.began = seedDay
      BY DataIs DEF Hence, AllDone
    <2>4. /\ IsRun(r, Len(subscriptions), Len(skills)) /\ r.phase = "payments" /\ r.left = script.left
          /\ r.ids = script.ids /\ r.began = seedDay /\ r.opened = script.opened
      BY <1>2, <1>4, <2>2, <2>3 DEF IsRun
    <2>5. Moved("payments", r)
      BY <1>1, <1>2, <2>1, <2>2, <2>4, Moves
    <2>6. PICK n : PaymentsLeft(n)
      BY <1>1, <2>4, <2>5, Pays DEF AllDone
    <2>7. /\ DOMAIN subscriptions' = DOMAIN subscriptions /\ Active(a)' = {}
          /\ \A b \in Account : b # a => Active(b)' = Active(b)
          /\ \A i \in DOMAIN subscriptions : subscriptions[i].user # a => subscriptions'[i] = subscriptions[i]
      BY <1>4, <2>1, ClosedActive
    <2>8. script'.opened = script.opened
      BY <2>4, <2>5 DEF Moved
    <2>9. CASE a = "free"
      <3>1. n = 6
        BY <1>2, <2>1, <2>6, <2>9, PaymentsSoFar DEF AllDone
      <3>2. Active("free")' = {}
        BY <2>7, <2>9
      <3>3. PaymentsDone'
        BY <1>2, <2>6, <3>1, <3>2, PaymentsGo DEF AllDone
      <3>. QED  BY <2>4, <2>5, <3>3
    <2>10. CASE a = "premium"
      <3>1. n = 4 /\ Opened("free")
        <4>1. Statement = "close premium"
          BY <2>1, <2>10
        <4>2. n = 4
          BY <1>2, <2>6, <4>1, PaymentsSoFar DEF AllDone
        <4>. QED  BY <1>2, <2>6, <4>2, PaymentsSoFar DEF AllDone
      <3>2. Active("premium")' = {}
        BY <2>7, <2>10
      <3>3. Opened("free")'
        <4>1. Active("free")' = Active("free")
          BY <1>4, <2>7, <2>10
        <4>2. \A i \in DOMAIN subscriptions : subscriptions[i].user = "free" =>
                 i \in DOMAIN subscriptions' /\ subscriptions'[i] = subscriptions[i]
          BY <2>7, <2>10
        <4>. QED  BY <1>3, <2>8, <3>1, <4>1, <4>2, OpenedKept
      <3>4. PaymentsDone'
        BY <1>2, <2>6, <3>1, <3>2, <3>3, PaymentsGo DEF AllDone
      <3>. QED  BY <2>4, <2>5, <3>4
    <2>. QED  BY <2>9, <2>10
  <1>7. CASE OpenSubscription
    <2>1. PICK a \in {"free", "premium"} :
            /\ Statement = IF a = "free" THEN "open free" ELSE "open premium"
            /\ subscriptions' = Append(subscriptions, IF a = "free" THEN Plan(a, "FREE", Forever, Now)
                                                      ELSE Plan(a, "PREMIUM", script.began + Period, script.since))
            /\ Onward([script EXCEPT !.opened[a] = Len(subscriptions')])
      BY <1>7 DEF OpenSubscription
    <2>2. PICK e : e = IF a = "free" THEN Plan(a, "FREE", Forever, Now)
                       ELSE Plan(a, "PREMIUM", script.began + Period, script.since)
      OBVIOUS
    <2>3. /\ e \in SubscriptionRow /\ e.active = TRUE /\ e.user = a /\ e.plan = DemoPlan[a] /\ InForce(e)
      <3>1. script.began = seedDay /\ script.since \in Nat /\ seedDay + Period \in Nat /\ seedDay + Period > seedDay /\ Now \in Nat
        BY <1>2, <1>4, DataIs DEF IsRun, Period, Now, AllDone
      <3>2. CASE a = "free"
        <4>1. e = Plan(a, "FREE", Forever, Now) /\ Forever \in Nat \cup {Forever} /\ a \in Account
          BY <1>4, <2>2, <3>2
        <4>2. e \in SubscriptionRow
          BY <3>1, <4>1, PlanIs
        <4>. QED  BY <3>2, <4>1, <4>2 DEF Plan, InForce, DemoPlan
      <3>3. CASE a = "premium"
        <4>1. e = Plan(a, "PREMIUM", seedDay + Period, script.since) /\ a \in Account
          BY <1>4, <2>2, <3>1, <3>3
        <4>2. e \in SubscriptionRow
          BY <3>1, <4>1, PlanIs, SMTT(60)
        <4>. QED  BY <3>1, <3>3, <4>1, <4>2 DEF Plan, InForce, DemoPlan
      <3>. QED  BY <3>2, <3>3
    <2>4. PICK l \in Nat : l = Len(subscriptions)
      BY DataIs
    <2>5. subscriptions' = Append(subscriptions, e) /\ Len(subscriptions') = l + 1
      <3>1. subscriptions' = Append(subscriptions, e)
        BY <2>1, <2>2
      <3>2. subscriptions \in Seq(SubscriptionRow)
        BY DEF SeedDataOK
      <3>. QED  BY <2>3, <2>4, <3>1, <3>2, AppendIs
    <2>6. PICK r : r = [script EXCEPT !.opened[a] = l + 1]
      OBVIOUS
    <2>7. IsRun(script, l + 1, Len(skills))
      BY <1>2, <2>4, DataIs, MoreOfARun
    <2>8. /\ IsRun(r, l + 1, Len(skills)) /\ r.phase = "payments" /\ r.left = script.left
          /\ r.ids = script.ids /\ r.began = seedDay /\ r.opened[a] = l + 1
          /\ \A b \in {"free", "premium"} : b # a => r.opened[b] = script.opened[b]
      <3>1. script.began = seedDay
        BY DEF AllDone
      <3>. QED  BY <1>2, <2>4, <2>6, <2>7, <3>1 DEF IsRun
    <2>9. Moved("payments", r)
      BY <1>1, <1>2, <2>1, <2>5, <2>6, <2>8, Moves
    <2>10. PICK n : PaymentsLeft(n)
      BY <1>1, <2>8, <2>9, Pays DEF AllDone
    <2>11. /\ l + 1 \in DOMAIN subscriptions' /\ subscriptions'[l + 1] = e
           /\ \A b \in Account : b # a => Active(b)' = Active(b)
           /\ Active(a)' = Active(a) \cup {l + 1}
           /\ \A i \in DOMAIN subscriptions : i \in DOMAIN subscriptions' /\ subscriptions'[i] = subscriptions[i]
      BY <1>3, <2>3, <2>4, <2>5, Appended
    <2>12. script'.opened = r.opened
      BY <2>9 DEF Moved
    <2>13. ASSUME Active(a) = {} PROVE Opened(a)'
      <3>1. script'.opened[a] = l + 1 /\ Active(a)' = {l + 1}
        BY <2>8, <2>11, <2>12, <2>13
      <3>2. InForce(subscriptions[script.opened[a]])'
        BY <1>3, <2>3, <2>11, <3>1 DEF InForce
      <3>. QED  BY <2>3, <2>11, <3>1, <3>2 DEF Opened
    <2>14. CASE a = "free"
      <3>1. n = 5 /\ Active("free") = {}
        <4>1. Statement = "open free"
          BY <2>1, <2>14
        <4>2. n = 5
          BY <1>2, <2>10, <4>1, PaymentsSoFar DEF AllDone
        <4>. QED  BY <1>2, <2>10, <4>2, PaymentsSoFar DEF AllDone
      <3>2. PaymentsDone'
        BY <1>2, <2>10, <2>13, <2>14, <3>1, PaymentsGo DEF AllDone
      <3>. QED  BY <2>8, <2>9, <3>2
    <2>15. CASE a = "premium"
      <3>1. n = 3 /\ Active("premium") = {} /\ Opened("free")
        <4>1. Statement = "open premium"
          BY <2>1, <2>15
        <4>2. n = 3
          BY <1>2, <2>10, <4>1, PaymentsSoFar DEF AllDone
        <4>. QED  BY <1>2, <2>10, <4>2, PaymentsSoFar DEF AllDone
      <3>2. Opened("free")'
        <4>1. Active("free")' = Active("free") /\ script'.opened["free"] = script.opened["free"]
          BY <1>4, <2>8, <2>11, <2>12, <2>15
        <4>. QED  BY <1>3, <2>11, <3>1, <4>1, OpenedKept
      <3>3. PaymentsDone'
        BY <1>2, <2>10, <2>13, <2>15, <3>1, <3>2, PaymentsGo DEF AllDone
      <3>. QED  BY <2>8, <2>9, <3>3
    <2>. QED  BY <2>14, <2>15
  <1>8. CASE UpsertPayment
    <2>1. PICK a \in {"free", "premium"} :
            /\ Statement = IF a = "free" THEN "pay free" ELSE "pay premium"
            /\ paid' = [paid EXCEPT ![a] = script.opened[a]]
      BY <1>8 DEF UpsertPayment
    <2>2. Onward(script) /\ subscriptions' = subscriptions
      BY <1>8 DEF UpsertPayment
    <2>3. Moved("payments", script) /\ script'.opened = script.opened
      BY <1>1, <2>2, Goes
    <2>4. script.began = seedDay
      BY DEF AllDone
    <2>5. PICK n : PaymentsLeft(n)
      BY <1>1, <2>3, Pays DEF AllDone
    <2>6. /\ DOMAIN paid = {"free", "premium"}
      BY DEF SeedDataOK
    <2>7. paid'[a] = script'.opened[a] /\ \A b \in {"free", "premium"} : b # a => paid'[b] = paid[b]
      BY <2>1, <2>3, <2>6
    <2>8. Opened("free") => Opened("free")'
      BY <1>3, <2>2, <2>3, OpenedSame
    <2>9. Opened("premium") => Opened("premium")'
      BY <1>3, <2>2, <2>3, OpenedSame
    <2>10. CASE a = "free"
      <3>1. n = 1 /\ Opened("free") /\ Opened("premium") /\ paid["premium"] = script.opened["premium"]
        <4>1. Statement = "pay free"
          BY <2>1, <2>10
        <4>2. n = 1
          BY <1>2, <2>5, <4>1, PaymentsSoFar DEF AllDone
        <4>. QED  BY <1>2, <2>5, <4>2, PaymentsSoFar DEF AllDone
      <3>2. PaymentsDone'
        BY <1>2, <2>3, <2>5, <2>7, <2>8, <2>9, <2>10, <3>1, PaymentsGo DEF AllDone
      <3>. QED  BY <2>3, <2>4, <3>2
    <2>11. CASE a = "premium"
      <3>1. n = 2 /\ Opened("free") /\ Opened("premium")
        <4>1. Statement = "pay premium"
          BY <2>1, <2>11
        <4>2. n = 2
          BY <1>2, <2>5, <4>1, PaymentsSoFar DEF AllDone
        <4>. QED  BY <1>2, <2>5, <4>2, PaymentsSoFar DEF AllDone
      <3>2. PaymentsDone'
        BY <1>2, <2>5, <2>7, <2>8, <2>9, <2>11, <3>1, PaymentsGo DEF AllDone
      <3>. QED  BY <2>3, <2>4, <3>2
    <2>. QED  BY <2>10, <2>11
  <1>. QED  BY <1>6, <1>7, <1>8

-----------------------------------------------------------------------------
(* The visits                                                              *)

(* What a visit has to leave for the next one.                             *)
LEMMA UsersGo ==
  ASSUME NEW r, Moved("users", r),
         \A v \in ToSet(Tail(r.left)) : VisitOK(v),
         \A a \in Account : roleOf'[a] # Missing =>
           HasPlan(a)' \/ \E v \in ToSet(Tail(r.left)) : Covers(v, a)
  PROVE  UsersDone'
  <1>1. CASE script'.phase = "users" /\ script'.left = Tail(r.left)
    BY <1>1 DEF UsersDone
  <1>2. CASE LineOf[script'.phase] = LineOf["users"] + 1 /\ Tail(r.left) = <<>>
    <2>1. ToSet(<<>>) = {}
      BY DEF ToSet
    <2>2. script'.phase # "users"
      BY <1>2 DEF LineOf
    <2>3. ToSet(Tail(r.left)) = {}
      BY <1>2, <2>1
    <2>. QED  BY <2>2, <2>3 DEF UsersDone
  <1>. QED  BY <1>1, <1>2 DEF Moved

(* Nobody who has been seeded a subscription is given another one.         *)
LEMMA OpenedIsAPlan ==
  ASSUME NEW a, Opened(a)
  PROVE  HasPlan(a)
  BY DEF Opened, HasPlan, Active

(* The statements about the plans of all accounts leave done what they     *)
(* take off the list.                                                      *)
LEMMA UsersAdvance ==
  ASSUME SeedDataOK, SeedRunOK, AllDone, ListUsers \/ FindPlan \/ GivePlan \/ SetRole
  PROVE  AllDone'
  <1>1. InPhase("users") /\ "users" \in DOMAIN LineOf
    <2>1. InPhase("users")
      BY DEF ListUsers, FindPlan, GivePlan, SetRole
    <2>. QED  BY <2>1 DEF LineOf
  <1>2. /\ IsRun(script, Len(subscriptions), Len(skills)) /\ VisitsHere(script, roleOf)
        /\ script.left # <<>> /\ script.phase = "users"
        /\ Statement \in Visits \cup {Listing} /\ Statement \in ToSet(script.left) /\ Statement = Head(script.left)
    BY <1>1, StatementHere DEF Kind
  <1>3. UNCHANGED <<paid, skills, aliasOf, transfers, competencies, rows, seedDay>>
    BY DEF ListUsers, FindPlan, GivePlan, SetRole, seedData
  <1>4. ToSet(script.left) = {Statement} \cup ToSet(Tail(script.left)) /\ ToSet(script.left) \subseteq Visits \cup {Listing}
    <2>1. script.left \in Seq(Visits \cup {Listing})
      BY <1>2 DEF IsRun, Kind
    <2>. QED  BY <1>2, <2>1, ListRange
  <1>5. /\ Opened("free") /\ Opened("premium") /\ \A a \in Demo : roleOf[a] = DemoRole[a]
    <2>1. LineOf["users"] > 3 /\ ~ (LineOf["users"] < LineOf["accounts"]) /\ "users" # "accounts"
      BY DEF LineOf
    <2>2. Executed(2) /\ Executed(4) /\ \A a : ~ Pending(script, "accounts", a)
      BY <1>2, <2>1 DEF Executed, Pending
    <2>. QED  BY <2>2 DEF AllDone, PaymentsDone, AccountsDone
  <1>6. /\ \A v \in ToSet(script.left) : VisitOK(v)
        /\ \A a \in Account : roleOf[a] # Missing => HasPlan(a) \/ \E v \in ToSet(script.left) : Covers(v, a)
    <2>1. ~ (LineOf["users"] < 4)
      BY DEF LineOf
    <2>. QED  BY <1>2, <2>1 DEF AllDone, UsersDone
  <1>7. SUFFICES \E r : /\ Moved("users", r) /\ r.ids = script.ids /\ r.began = seedDay /\ r.opened = script.opened
                        /\ Opened("free")' /\ Opened("premium")' /\ UsersDone'
                        /\ \A a \in Demo : roleOf[a] = DemoRole[a] => roleOf'[a] = DemoRole[a]
    <2>1. PICK r : /\ Moved("users", r) /\ r.ids = script.ids /\ r.began = seedDay /\ r.opened = script.opened
                   /\ Opened("free")' /\ Opened("premium")' /\ UsersDone'
                   /\ \A a \in Demo : roleOf[a] = DemoRole[a] => roleOf'[a] = DemoRole[a]
      BY <1>7
    <2>2. script'.ids = script.ids /\ script'.began = seedDay' /\ script'.opened = script.opened
      BY <1>3, <2>1 DEF Moved
    <2>3. AccountsDone'
      BY <1>3, <2>1, AccountsStay DEF AllDone
    <2>4. RowsDone'
      BY <1>3, <2>1, RowsStay DEF AllDone
    <2>5. PaymentsDone'
      BY <1>3, <2>1, <2>2, PaymentsStay DEF AllDone
    <2>6. SkillsDone'
      BY <1>3, <2>1, <2>2, SkillsStay DEF AllDone
    <2>7. LinksDone'
      BY <1>3, <2>1, <2>2, LinksStay DEF AllDone
    <2>8. CompetenciesDone'
      BY <1>3, <2>1, <2>2, CompetenciesStay DEF AllDone
    <2>. QED  BY <2>1, <2>2, <2>3, <2>4, <2>5, <2>6, <2>7, <2>8 DEF AllDone
  <1>8. script.began = seedDay
    BY DEF AllDone
  <1>9. CASE ListUsers
    <2>1. PICK r : AttendsAll(r)
      BY <1>9, AllAreListed
    <2>2. PICK L : L = ToSet(VisitsOf(Registered))
      OBVIOUS
    <2>3. /\ ToSet(Tail(r.left)) = ToSet(Tail(script.left)) \cup L
          /\ L \subseteq {Visit(a, todo) : a \in Registered, todo \in {"find", "role"}}
          /\ \A a \in Registered : Visit(a, "find") \in L
      BY <2>1, <2>2 DEF AttendsAll
    <2>4. /\ Onward(r) /\ r.phase = "users" /\ r.left # <<>>
          /\ IsRun(r, Len(subscriptions), Len(skills))
          /\ r.ids = script.ids /\ r.began = script.began /\ r.opened = script.opened
      BY <2>1 DEF AttendsAll, Attends
    <2>5. Moved("users", r)
      BY <1>1, <2>4, Moves
    <2>6. UNCHANGED <<roleOf, subscriptions>>
      BY <1>9 DEF ListUsers, seedData
    <2>7. \A v \in L : VisitOK(v)
      <3>1. ASSUME NEW v \in L PROVE VisitOK(v)
        <4>1. PICK a \in Registered, todo \in {"find", "role"} : v = Visit(a, todo)
          BY <2>3, <3>1
        <4>2. v.user = a /\ v.role = roleOf[a] /\ v.todo # "give"
          BY <4>1 DEF Visit
        <4>. QED  BY <1>5, <4>2 DEF VisitOK
      <3>. QED  BY <3>1
    <2>8. \A v \in ToSet(Tail(r.left)) : VisitOK(v)
      BY <1>4, <1>6, <2>3, <2>7
    <2>9. \A a \in Account : roleOf'[a] # Missing => \E v \in ToSet(Tail(r.left)) : Covers(v, a)
      <3>1. ASSUME NEW a \in Account, roleOf'[a] # Missing PROVE \E v \in ToSet(Tail(r.left)) : Covers(v, a)
        <4>1. a \in Registered
          BY <2>6, <3>1 DEF Registered
        <4>2. Visit(a, "find") \in ToSet(Tail(r.left))
          BY <2>3, <4>1
        <4>3. Covers(Visit(a, "find"), a)
          BY DEF Covers, Visit
        <4>. QED  BY <4>2, <4>3
      <3>. QED  BY <3>1
    <2>10. UsersDone'
      BY <2>5, <2>8, <2>9, UsersGo
    <2>11. Opened("free")' /\ Opened("premium")'
      <3>1. script'.opened = script.opened
        BY <2>4, <2>5 DEF Moved
      <3>. QED  BY <1>3, <1>5, <2>6, <3>1, OpenedSame
    <2>. QED  BY <1>8, <2>4, <2>5, <2>6, <2>10, <2>11
  <1>10. CASE FindPlan
    <2>1. PICK r : AttendsOne(r)
      BY <1>10, OneIsGiven
    <2>2. /\ Onward(r) /\ r.phase = "users" /\ r.left # <<>>
          /\ IsRun(r, Len(subscriptions), Len(skills))
          /\ r.ids = script.ids /\ r.began = script.began /\ r.opened = script.opened
      BY <2>1 DEF AttendsOne, Attends
    <2>3. Moved("users", r)
      BY <1>1, <2>2, Moves
    <2>4. UNCHANGED <<roleOf, subscriptions>> /\ Statement.todo = "find"
      BY <1>10 DEF FindPlan, seedData
    <2>5. \A a : HasPlan(a)' <=> HasPlan(a)
      BY <1>3, <2>4 DEF HasPlan, InForce
    <2>6. \A a : Covers(Statement, a) => a = Statement.user
      BY <2>4 DEF Covers
    <2>7. CASE HasPlan(Statement.user)
      <3>1. r = script
        BY <2>1, <2>7 DEF AttendsOne
      <3>2. UsersDone'
        BY <1>4, <1>6, <2>3, <2>4, <2>5, <2>6, <2>7, <3>1, UsersGo
      <3>3. Opened("free")' /\ Opened("premium")'
        <4>1. script'.opened = script.opened
          BY <2>2, <2>3 DEF Moved
        <4>. QED  BY <1>3, <1>5, <2>4, <4>1, OpenedSame
      <3>. QED  BY <1>8, <2>2, <2>3, <2>4, <3>2, <3>3
    <2>8. CASE ~ HasPlan(Statement.user)
      <3>1. PICK v \in Visits :
              /\ v.user = Statement.user /\ v.role = Statement.role /\ v.todo = "give"
              /\ ToSet(Tail(r.left)) = ToSet(Tail(script.left)) \cup {v}
        BY <2>1, <2>8 DEF AttendsOne
      <3>2. VisitOK(v)
        <4>1. Statement.user \notin {"free", "premium"}
          BY <1>5, <2>8, OpenedIsAPlan
        <4>2. VisitOK(Statement)
          BY <1>2, <1>6
        <4>. QED  BY <2>4, <3>1, <4>1, <4>2 DEF VisitOK
      <3>3. Covers(v, Statement.user)
        BY <3>1 DEF Covers
      <3>4. UsersDone'
        BY <1>4, <1>6, <2>3, <2>4, <2>5, <2>6, <3>1, <3>2, <3>3, UsersGo
      <3>5. Opened("free")' /\ Opened("premium")'
        <4>1. script'.opened = script.opened
          BY <2>2, <2>3 DEF Moved
        <4>. QED  BY <1>3, <1>5, <2>4, <4>1, OpenedSame
      <3>. QED  BY <1>8, <2>2, <2>3, <2>4, <3>4, <3>5
    <2>. QED  BY <2>7, <2>8
  <1>11. CASE GivePlan
    <2>1. /\ Statement.todo = "give" /\ Onward(script) /\ roleOf' = roleOf
          /\ subscriptions' = Append(subscriptions, Plan(Statement.user, "FREE", Forever, Now))
      BY <1>11 DEF GivePlan
    <2>2. Statement.user \in Account
      BY <1>2, <2>1 DEF Visits, Listing
    <2>3. PICK e \in SubscriptionRow : e = Plan(Statement.user, "FREE", Forever, Now)
      <3>1. Now \in Nat /\ Forever \in Nat \cup {Forever}
        BY DataIs DEF Now
      <3>. QED  BY <2>2, <3>1, PlanIs
    <2>4. e.user = Statement.user /\ e.active = TRUE /\ InForce(e)
      BY <2>3 DEF Plan, InForce
    <2>5. Moved("users", script) /\ script'.opened = script.opened
      BY <1>1, <2>1, Goes
    <2>6. /\ \A b \in Account : b # e.user => Active(b)' = Active(b)
          /\ \A i \in DOMAIN subscriptions : i \in DOMAIN subscriptions' /\ subscriptions'[i] = subscriptions[i]
          /\ \A b \in Account : HasPlan(b) => HasPlan(b)'
          /\ HasPlan(e.user)'
      BY <1>3, <2>1, <2>3, <2>4, Appended
    <2>7. Statement.user \notin {"free", "premium"}
      <3>1. VisitOK(Statement)
        BY <1>2, <1>6
      <3>. QED  BY <2>1, <3>1 DEF VisitOK
    <2>8. Opened("free")' /\ Opened("premium")'
      <3>1. {"free", "premium"} \subseteq Account
        BY DEF Account, Demo
      <3>2. Active("free")' = Active("free") /\ Active("premium")' = Active("premium")
        BY <2>4, <2>6, <2>7, <3>1
      <3>. QED  BY <1>3, <1>5, <2>5, <2>6, <3>2, OpenedKept
    <2>9. \A a : Covers(Statement, a) => a = Statement.user
      BY <2>1 DEF Covers
    <2>10. UsersDone'
      BY <1>4, <1>6, <2>1, <2>2, <2>4, <2>5, <2>6, <2>9, UsersGo
    <2>. QED  BY <1>8, <2>1, <2>5, <2>8, <2>10
  <1>12. CASE SetRole
    <2>1. /\ Statement.todo = "role" /\ Onward(script) /\ subscriptions' = subscriptions
          /\ roleOf' = IF Statement.role \in {"ADMIN", "SPECIALIST"} THEN roleOf
                       ELSE [roleOf EXCEPT ![Statement.user] = IF Statement.user = "premium" THEN "PREMIUM" ELSE "USER"]
      BY <1>12 DEF SetRole
    <2>2. Statement.user \in Account /\ roleOf[Statement.user] # Missing /\ DOMAIN roleOf = Account
      <3>1. Statement.user \in Account
        BY <1>2, <2>1 DEF Visits, Listing
      <3>2. roleOf[Statement.user] # Missing
        BY <1>2, <2>1 DEF VisitsHere
      <3>. QED  BY <3>1, <3>2 DEF SeedDataOK
    <2>3. Moved("users", script) /\ script'.opened = script.opened
      BY <1>1, <2>1, Goes
    <2>4. Opened("free")' /\ Opened("premium")'
      BY <1>3, <1>5, <2>1, <2>3, OpenedSame
    <2>5. \A a \in Demo : roleOf[a] = DemoRole[a] => roleOf'[a] = DemoRole[a]
      <3>1. ASSUME NEW a \in Demo PROVE roleOf'[a] = DemoRole[a]
        <4>1. CASE a # Statement.user
          <5>1. roleOf'[a] = roleOf[a]
            BY <2>1, <2>2, <4>1
          <5>. QED  BY <1>5, <5>1
        <4>2. CASE a = Statement.user
          <5>1. Statement.role = DemoRole[a]
            <6>1. VisitOK(Statement)
              BY <1>2, <1>6
            <6>. QED  BY <2>1, <4>2, <6>1 DEF VisitOK
          <5>2. CASE a \in {"admin", "specialist"}
            <6>1. DemoRole[a] \in {"ADMIN", "SPECIALIST"}
              BY <5>2 DEF DemoRole
            <6>. QED  BY <1>5, <2>1, <5>1, <6>1
          <5>3. CASE a \in {"free", "premium"}
            <6>1. DemoRole[a] \notin {"ADMIN", "SPECIALIST"} /\ DemoRole[a] = IF a = "premium" THEN "PREMIUM" ELSE "USER"
              BY <5>3 DEF DemoRole
            <6>. QED  BY <2>1, <2>2, <4>2, <5>1, <6>1
          <5>. QED  BY <5>2, <5>3 DEF Demo
        <4>. QED  BY <4>1, <4>2
      <3>. QED  BY <3>1
    <2>6. \A a \in Account : roleOf'[a] # Missing => roleOf[a] # Missing
      BY <2>1, <2>2
    <2>7. \A a : ~ Covers(Statement, a)
      BY <2>1 DEF Covers
    <2>8. \A a : HasPlan(a)' <=> HasPlan(a)
      BY <1>3, <2>1 DEF HasPlan, InForce
    <2>9. UsersDone'
      BY <1>4, <1>6, <2>3, <2>6, <2>7, <2>8, UsersGo
    <2>. QED  BY <1>8, <2>3, <2>4, <2>5, <2>9
  <1>. QED  BY <1>9, <1>10, <1>11, <1>12

-----------------------------------------------------------------------------
(* The skills                                                              *)

(* The statements about the skills leave done what they take off the       *)
(* list.                                                                   *)
LEMMA SkillsAdvance ==
  ASSUME SeedDataOK, SeedRunOK, AllDone, UpsertSkill
  PROVE  AllDone'
  <1>1. InPhase("skills") /\ "skills" \in DOMAIN LineOf /\ LineOf["skills"] = 5
    BY DEF UpsertSkill, LineOf
  <1>2. /\ IsRun(script, Len(subscriptions), Len(skills)) /\ script.left # <<>>
        /\ script.phase = "skills" /\ Statement \in ToSet(SeedSkills) /\ Statement = Head(script.left)
        /\ script.left \in Seq(ToSet(SeedSkills))
    <2>1. /\ IsRun(script, Len(subscriptions), Len(skills)) /\ script.left # <<>>
          /\ script.phase = "skills" /\ Statement \in Kind("skills") /\ Statement = Head(script.left)
      BY <1>1, StatementHere
    <2>2. Kind("skills") = ToSet(SeedSkills)
      BY DEF Kind
    <2>. QED  BY <2>1, <2>2 DEF IsRun
  <1>3. PICK name, parent, id :
          /\ name = Statement.name /\ parent = IF Statement.parent = "" THEN 0 ELSE script.ids[Statement.parent]
          /\ UpsertedSkill(name, parent, id) /\ Onward([script EXCEPT !.ids[name] = id])
    BY UpsertsSkills
  <1>4. PICK m \in Nat : m = Len(skills) /\ DOMAIN skills = 1 .. m
    BY DataIs
  <1>5. PICK k \in Nat : k = Len(skills') /\ DOMAIN skills' = 1 .. k /\ m <= k
    BY <1>3, <1>4, LenProperties DEF UpsertedSkill
  <1>6. UNCHANGED <<roleOf, subscriptions, paid, aliasOf, transfers, competencies, rows, seedDay>>
    BY DEF UpsertSkill
  <1>7. PICK r : r = [script EXCEPT !.ids[name] = id]
    OBVIOUS
  <1>8. PICK l \in Nat : l = Len(subscriptions)
    BY DataIs
  <1>9. /\ IsRun(r, l, k) /\ r.phase = "skills" /\ r.left = script.left /\ r.began = script.began
        /\ r.opened = script.opened /\ script.ids \in [SkillNames -> 0 .. m] /\ name \in SkillNames
        /\ r.ids = [script.ids EXCEPT ![name] = id] /\ id \in 1 .. k
    <2>1. IsRun(script, l, k)
      BY <1>2, <1>4, <1>5, <1>8, MoreOfARun
    <2>2. id \in 1 .. k /\ name \in SkillNames
      BY <1>3, <1>5 DEF UpsertedSkill
    <2>. QED  BY <1>2, <1>4, <1>7, <2>1, <2>2 DEF IsRun
  <1>10. Moved("skills", r)
    BY <1>1, <1>2, <1>3, <1>7, <1>9, Moves
  <1>11. /\ script'.began = script.began /\ script'.opened = script.opened
         /\ \A n \in SkillNames : script'.ids[n] = IF n = name THEN id ELSE script.ids[n]
    BY <1>9, <1>10 DEF Moved
  <1>12. SkillsDone
    BY DEF AllDone
  <1>13. \A n \in SkillNames : script.ids[n] # 0 =>
           /\ script.ids[n] \in DOMAIN skills /\ script.ids[n] \in DOMAIN skills'
           /\ skills'[script.ids[n]].name = n
    <2>1. \A i \in DOMAIN skills : skills'[i].name = skills[i].name
      BY <1>3 DEF UpsertedSkill
    <2>2. \A n \in SkillNames : script.ids[n] \in 0 .. m
      BY <1>9
    <2>3. \A n \in SkillNames : script.ids[n] # 0 => skills[script.ids[n]].name = n
      BY <1>12 DEF SkillsDone
    <2>. QED  BY <1>4, <1>5, <2>1, <2>2, <2>3
  <1>14. skills'[id].name = name /\ id \in DOMAIN skills' /\ id # 0
    <2>1. skills'[id].name = name
      BY <1>3 DEF UpsertedSkill
    <2>2. id \in DOMAIN skills' /\ id # 0
      BY <1>5, <1>9
    <2>. QED  BY <2>1, <2>2
  <1>15. \A n \in SkillNames : script.ids[n] # 0 => script'.ids[n] = script.ids[n]
    <2>1. \A i, j \in DOMAIN skills' : skills'[i].name = skills'[j].name => i = j
      BY SkillsPhaseKeeps DEF SeedDataOK
    <2>2. script.ids[name] # 0 => script.ids[name] = id
      BY <1>9, <1>13, <1>14, <2>1
    <2>. QED  BY <1>11, <2>2
  <1>16. \A n \in SkillNames : script.ids[n] # 0 /\ n # name => skills'[script.ids[n]] = skills[script.ids[n]]
    <2>1. \A i \in DOMAIN skills : i # id => skills'[i] = skills[i]
      BY <1>3 DEF UpsertedSkill
    <2>. QED  BY <1>13, <1>14, <2>1
  <1>17. Statement \in SeedSkill /\ (Statement.parent # "" => Statement.parent \in SkillNames)
    BY <1>2, SkillIs
  <1>18. Statement.parent # "" => script.ids[Statement.parent] # 0
    <2>1. ASSUME Statement.parent # "" PROVE script.ids[Statement.parent] # 0
      <3>1. Statement = script.left[1] /\ 1 \in DOMAIN script.left
        <4>1. PICK s \in Seq(ToSet(SeedSkills)) : s = script.left /\ s # <<>> /\ Statement = Head(s)
          BY <1>2
        <4>2. Len(s) \in Nat /\ Len(s) # 0 /\ Head(s) = s[1] /\ DOMAIN s = 1 .. Len(s)
          BY <4>1, HeadTailProperties, EmptySeq, LenProperties
        <4>. QED  BY <4>1, <4>2
      <3>2. \/ script.ids[script.left[1].parent] # 0
            \/ \E j \in 1 .. 1 - 1 : script.left[j].name = script.left[1].parent
        BY <1>2, <1>12, <2>1, <3>1 DEF SkillsDone
      <3>3. ~ \E j \in 1 .. 1 - 1 : TRUE
        OBVIOUS
      <3>. QED  BY <3>1, <3>2, <3>3
    <2>. QED  BY <2>1
  <1>19. SkillsDone'
    <2>1. \A n \in SkillNames : script'.ids[n] # 0 => skills'[script'.ids[n]].name = n
      BY <1>11, <1>13, <1>14
    <2>2. ASSUME NEW s \in ToSet(SeedSkills), ~ Pending(script', "skills", s)
          PROVE  /\ script'.ids[s.name] # 0
                 /\ s.parent # "" => /\ script'.ids[s.parent] # 0
                                     /\ skills'[script'.ids[s.name]].parent = script'.ids[s.parent]
      <3>1. s.name \in SkillNames /\ (s.parent # "" => s.parent \in SkillNames)
        BY <2>2, SkillIs
      <3>2. CASE s = Statement
        <4>1. script'.ids[s.name] = id
          BY <1>3, <1>9, <1>11, <3>2
        <4>2. ASSUME s.parent # ""
              PROVE  script'.ids[s.parent] # 0 /\ skills'[id].parent = script'.ids[s.parent]
          <5>1. script.ids[s.parent] # 0 /\ script'.ids[s.parent] = script.ids[s.parent]
            BY <1>15, <1>17, <1>18, <3>2, <4>2
          <5>2. parent = script.ids[s.parent]
            BY <1>3, <3>2, <4>2, Zenon
          <5>3. parent # 0 => skills'[id].parent = parent
            BY <1>3 DEF UpsertedSkill
          <5>. QED  BY <5>1, <5>2, <5>3
        <4>. QED  BY <1>14, <4>1, <4>2
      <3>3. CASE s # Statement
        <4>1. ~ Pending(script, "skills", s)
          <5>1. s \in ToSet(Statements("skills"))
            BY <2>2, SkillLists DEF Statements
          <5>. QED  BY <1>9, <1>10, <2>2, <3>3, <5>1 DEF Moved
        <4>2. /\ script.ids[s.name] # 0
              /\ s.parent # "" => /\ script.ids[s.parent] # 0
                                  /\ skills[script.ids[s.name]].parent = script.ids[s.parent]
          BY <1>12, <2>2, <4>1 DEF SkillsDone, Rooted
        <4>3. s.name # name
          <5>1. PICK i \in DOMAIN SeedSkills, j \in DOMAIN SeedSkills : s = SeedSkills[i] /\ Statement = SeedSkills[j]
            BY <1>2, <2>2 DEF ToSet
          <5>. QED  BY <1>3, <3>3, <5>1, SeedAssumption
        <4>4. skills'[script.ids[s.name]] = skills[script.ids[s.name]]
          BY <1>16, <3>1, <4>2, <4>3
        <4>5. script'.ids[s.name] = script.ids[s.name]
          BY <1>15, <3>1, <4>2
        <4>6. s.parent # "" => script'.ids[s.parent] = script.ids[s.parent]
          BY <1>15, <3>1, <4>2
        <4>. QED  BY <4>2, <4>4, <4>5, <4>6
      <3>. QED  BY <3>2, <3>3
    <2>3. ASSUME script'.phase = "skills", NEW i \in DOMAIN script'.left, script'.left[i].parent # ""
          PROVE  \/ script'.ids[script'.left[i].parent] # 0
                 \/ \E j \in 1 .. i - 1 : script'.left[j].name = script'.left[i].parent
      <3>1. PICK s \in Seq(ToSet(SeedSkills)), t \in Seq(ToSet(SeedSkills)) :
              /\ s = script.left /\ t = script'.left /\ Len(s) \in Nat /\ Len(t) = Len(s) - 1
              /\ DOMAIN s = 1 .. Len(s) /\ DOMAIN t = 1 .. Len(s) - 1
              /\ \A j \in 1 .. Len(s) - 1 : t[j] = s[j + 1]
              /\ s[1] = Statement
        <4>1. PICK s \in Seq(ToSet(SeedSkills)) : s = script.left /\ s # <<>> /\ Statement = Head(s)
          BY <1>2
        <4>2. PICK t \in Seq(ToSet(SeedSkills)) : t = Tail(s) /\ Len(t) = Len(s) - 1 /\ \A j \in DOMAIN t : t[j] = s[j + 1]
          <5>1. /\ Tail(s) \in Seq(ToSet(SeedSkills)) /\ Len(Tail(s)) = Len(s) - 1
                /\ \A j \in DOMAIN Tail(s) : Tail(s)[j] = s[j + 1]
            BY <4>1, ListRange
          <5>. QED  BY <5>1, Zenon
        <4>3. Len(s) \in Nat /\ Head(s) = s[1] /\ DOMAIN s = 1 .. Len(s) /\ DOMAIN t = 1 .. Len(t)
          BY <4>1, HeadTailProperties, EmptySeq, LenProperties
        <4>4. script'.left = Tail(script.left)
          <5>1. LineOf["skills"] # LineOf["skills"] + 1
            BY <1>1
          <5>2. script'.phase = "skills"
            BY <2>3
          <5>. QED  BY <1>9, <1>10, <5>1, <5>2 DEF Moved
        <4>. QED  BY <4>1, <4>2, <4>3, <4>4
      <3>2. PICK u \in 1 .. Len(s) - 1, w \in 1 .. Len(s) :
              u = i /\ w = u + 1 /\ t[u] = s[w] /\ s[w].parent # "" /\ w - 1 = u
        <4>1. PICK u \in 1 .. Len(s) - 1 : u = i
          BY <2>3, <3>1
        <4>2. PICK w \in 1 .. Len(s) : w = u + 1 /\ w - 1 = u
          BY <3>1
        <4>. QED  BY <2>3, <3>1, <4>1, <4>2
      <3>3. s[w] \in ToSet(SeedSkills)
        BY <3>1, <3>2, ElementOfSeq
      <3>4. s[w].parent \in SkillNames
        BY <3>2, <3>3, SkillIs
      <3>5. \/ script.ids[s[w].parent] # 0
            \/ \E j \in 1 .. w - 1 : s[j].name = s[w].parent
        BY <1>2, <1>12, <3>1, <3>2 DEF SkillsDone
      <3>6. CASE script.ids[s[w].parent] # 0
        BY <1>15, <3>1, <3>2, <3>4, <3>6
      <3>7. ASSUME NEW j \in 1 .. u, s[j].name = s[w].parent
            PROVE  \/ script'.ids[s[w].parent] # 0
                   \/ \E q \in 1 .. u - 1 : t[q].name = s[w].parent
        <4>1. CASE j = 1
          <5>1. s[w].parent = name
            BY <1>3, <3>1, <3>7, <4>1
          <5>. QED  BY <1>9, <1>11, <1>14, <5>1
        <4>2. CASE j # 1
          <5>1. j - 1 \in 1 .. u - 1 /\ j - 1 \in 1 .. Len(s) - 1 /\ (j - 1) + 1 = j
            <6>1. PICK y \in Nat : y = Len(s)
              BY <3>1
            <6>2. u \in 1 .. y - 1
              BY <6>1
            <6>. QED  BY <4>2, <6>1, <6>2
          <5>2. t[j - 1] = s[j]
            BY <3>1, <5>1
          <5>. QED  BY <3>7, <5>1, <5>2
        <4>. QED  BY <4>1, <4>2
      <3>9. \/ script'.ids[s[w].parent] # 0
            \/ \E q \in 1 .. u - 1 : t[q].name = s[w].parent
        BY <1>15, <3>2, <3>4, <3>5, <3>7
      <3>. QED  BY <3>1, <3>2, <3>9
    <2>. QED  BY <2>1, <2>2, <2>3 DEF SkillsDone, Rooted
  <1>20. AccountsDone'
    BY <1>6, <1>10, AccountsStay DEF AllDone
  <1>21. RowsDone'
    BY <1>6, <1>10, RowsStay DEF AllDone
  <1>22. PaymentsDone'
    BY <1>6, <1>10, <1>11, PaymentsStay, OpenedSame DEF AllDone
  <1>23. UsersDone'
    BY <1>6, <1>10, UsersStay DEF AllDone
  <1>24. LinksDone'
    BY <1>6, <1>10, LinksStay DEF AllDone
  <1>25. CompetenciesDone'
    BY <1>6, <1>10, CompetenciesStay DEF AllDone
  <1>. QED  BY <1>6, <1>11, <1>19, <1>20, <1>21, <1>22, <1>23, <1>24, <1>25 DEF AllDone

-----------------------------------------------------------------------------
(* A run from its beginning to its end                                     *)

(* When a run begins everything is pending, so that nothing is claimed.    *)
LEMMA BeginsWithNothingDone ==
  ASSUME BeginSeed
  PROVE  AllDone'
  <1>1. /\ script'.phase = "accounts" /\ script'.left = <<"admin", "free", "premium", "specialist">>
        /\ script'.ids = [n \in SkillNames |-> 0] /\ script'.began = seedDay /\ seedDay' = seedDay
    BY DEF BeginSeed, Statements
  <1>2. /\ \A p \in DOMAIN LineOf \ {"accounts"} : \A x : Pending(script', p, x)
        /\ \A a \in Demo : Pending(script', "accounts", a)
    <2>1. Demo \subseteq ToSet(<<"admin", "free", "premium", "specialist">>)
      BY DEF Demo, ToSet
    <2>. QED  BY <1>1, <2>1 DEF Pending, LineOf
  <1>3. {"plans", "rows", "skills", "aliases", "transfers", "competencies", "parents"} \subseteq DOMAIN LineOf \ {"accounts"}
    BY DEF LineOf
  <1>4. ~ (LineOf[script'.phase] > 3) /\ LineOf[script'.phase] < 4
    BY <1>1 DEF LineOf
  <1>5. AccountsDone' /\ RowsDone'
    BY <1>2, <1>3 DEF AccountsDone, RowsDone
  <1>6. PaymentsDone'
    BY <1>1, <1>4 DEF PaymentsDone, Executed
  <1>7. UsersDone'
    BY <1>1, <1>4 DEF UsersDone
  <1>8. SkillsDone'
    <2>1. \A s \in ToSet(SeedSkills) : Pending(script', "skills", s)
      BY <1>2, <1>3
    <2>. QED  BY <1>1, <2>1 DEF SkillsDone
  <1>9. LinksDone' /\ CompetenciesDone'
    BY <1>2, <1>3 DEF LinksDone, CompetenciesDone
  <1>. QED  BY <1>1, <1>5, <1>6, <1>7, <1>8, <1>9 DEF AllDone

(* Every step keeps the progress: the run's own by executing what it       *)
(* takes off the list, all others because they end the claim.              *)
LEMMA SeedAdvances ==
  ASSUME SeedDataOK, SeedRunOK, SeedProgress, [SeedNext]_seedVars
  PROVE  SeedProgress'
  <1>1. CASE UNCHANGED seedVars
    <2>1. UNCHANGED <<roleOf, subscriptions, paid, skills, aliasOf, transfers, competencies, rows, script,
                      seedDay, undisturbed>>
      BY <1>1 DEF seedVars
    <2>2. AccountsDone' <=> AccountsDone
      BY <2>1 DEF AccountsDone
    <2>3. RowsDone' <=> RowsDone
      BY <2>1 DEF RowsDone
    <2>4. PaymentsDone' <=> PaymentsDone
      BY <2>1 DEF PaymentsDone, Executed, Opened, Active, InForce
    <2>5. UsersDone' <=> UsersDone
      BY <2>1 DEF UsersDone, HasPlan, InForce
    <2>6. SkillsDone' <=> SkillsDone
      BY <2>1 DEF SkillsDone, Rooted
    <2>7. LinksDone' <=> LinksDone
      BY <2>1 DEF LinksDone
    <2>8. CompetenciesDone' <=> CompetenciesDone
      BY <2>1 DEF CompetenciesDone
    <2>. QED  BY <2>1, <2>2, <2>3, <2>4, <2>5, <2>6, <2>7, <2>8 DEF SeedProgress, AllDone
  <1>2. CASE BeginSeed
    BY <1>2, BeginsWithNothingDone DEF SeedProgress
  <1>3. CASE SeedDies
    BY <1>3 DEF SeedDies, SeedProgress
  <1>4. CASE \/ \E a \in Customer : Join(a) \/ Pay(a)
             \/ \E a \in Account : AskPlan(a)
             \/ \E i \in DOMAIN skills, n \in SkillNames \cup {NewName} : RenameSkill(i, n)
             \/ \E r \in SeededRows : ChangeRow(r)
             \/ NextDay
    <2>1. undisturbed' = FALSE
      BY <1>4 DEF Join, Pay, AskPlan, RenameSkill, ChangeRow, NextDay, Beside
    <2>. QED  BY <2>1 DEF SeedProgress
  <1>5. ASSUME NEW p \in DOMAIN LineOf, InPhase(p) PROVE script # NotRunning
    <2>1. "none" \notin DOMAIN LineOf
      BY DEF LineOf
    <2>. QED  BY <1>5, <2>1 DEF InPhase, NotRunning
  <1>6. CASE UpsertAccount
    <2>1. "accounts" \in DOMAIN LineOf /\ InPhase("accounts") /\ undisturbed' = undisturbed
      BY <1>6 DEF UpsertAccount, LineOf
    <2>. QED  BY <1>5, <1>6, <2>1, AccountsAdvance DEF SeedProgress
  <1>7. CASE UpsertPlan \/ UpsertRow \/ CreateMissing
    <2>1. \E p \in {"plans", "rows"} : p \in DOMAIN LineOf /\ InPhase(p)
      BY <1>7 DEF UpsertPlan, UpsertRow, CreateMissing, LineOf
    <2>2. undisturbed' = undisturbed
      BY <1>7 DEF UpsertPlan, UpsertRow, CreateMissing, WriteRow
    <2>. QED  BY <1>5, <1>7, <2>1, <2>2, RowsAdvance DEF SeedProgress
  <1>8. CASE CloseSubscriptions \/ OpenSubscription \/ UpsertPayment
    <2>1. "payments" \in DOMAIN LineOf /\ InPhase("payments") /\ undisturbed' = undisturbed
      BY <1>8 DEF CloseSubscriptions, OpenSubscription, UpsertPayment, LineOf
    <2>. QED  BY <1>5, <1>8, <2>1, PaymentsAdvance DEF SeedProgress
  <1>9. CASE ListUsers \/ FindPlan \/ GivePlan \/ SetRole
    <2>1. "users" \in DOMAIN LineOf /\ InPhase("users") /\ undisturbed' = undisturbed
      BY <1>9 DEF ListUsers, FindPlan, GivePlan, SetRole, LineOf
    <2>. QED  BY <1>5, <1>9, <2>1, UsersAdvance DEF SeedProgress
  <1>10. CASE UpsertSkill
    <2>1. "skills" \in DOMAIN LineOf /\ InPhase("skills") /\ undisturbed' = undisturbed
      BY <1>10 DEF UpsertSkill, LineOf
    <2>. QED  BY <1>5, <1>10, <2>1, SkillsAdvance DEF SeedProgress
  <1>11. CASE UpsertAlias \/ UpsertTransferability
    <2>1. \E p \in {"aliases", "transfers"} : p \in DOMAIN LineOf /\ InPhase(p)
      BY <1>11 DEF UpsertAlias, UpsertTransferability, LineOf
    <2>2. undisturbed' = undisturbed
      BY <1>11 DEF UpsertAlias, UpsertTransferability
    <2>. QED  BY <1>5, <1>11, <2>1, <2>2, LinksAdvance DEF SeedProgress
  <1>12. CASE UpsertCompetency \/ SetParent
    <2>1. \E p \in {"competencies", "parents"} : p \in DOMAIN LineOf /\ InPhase(p)
      BY <1>12 DEF UpsertCompetency, SetParent, LineOf
    <2>2. undisturbed' = undisturbed
      BY <1>12 DEF UpsertCompetency, SetParent
    <2>. QED  BY <1>5, <1>12, <2>1, <2>2, CompetenciesAdvance DEF SeedProgress
  <1>. QED  BY <1>1, <1>2, <1>3, <1>4, <1>6, <1>7, <1>8, <1>9, <1>10, <1>11, <1>12 DEF SeedNext

(* At the end nothing is pending, so that everything is as the seed says.  *)
LEMMA WholeAtTheEnd ==
  ASSUME SeedDataOK, SeedRunOK, SeedProgress
  PROVE  SeedIsWhole
  <1>1. SUFFICES ASSUME script.phase = "done", undisturbed
                 PROVE  SeedIsWhole
    BY DEF SeedIsWhole
  <1>2. script # NotRunning
    BY <1>1 DEF NotRunning
  <1>3. AllDone /\ IsRun(script, Len(subscriptions), Len(skills))
    BY <1>1, <1>2 DEF SeedProgress, SeedRunOK
  <1>4. \A p \in DOMAIN LineOf \ {"done"} : \A x : ~ Pending(script, p, x)
    BY <1>1 DEF Pending, LineOf
  <1>5. {"accounts", "plans", "rows", "skills", "aliases", "transfers", "competencies", "parents"} \subseteq DOMAIN LineOf \ {"done"}
    BY DEF LineOf
  <1>6. LineOf[script.phase] > 3 /\ ~ (LineOf[script.phase] < 4)
    BY <1>1 DEF LineOf
  <1>7. /\ AccountsDone /\ RowsDone /\ PaymentsDone /\ UsersDone /\ SkillsDone /\ LinksDone /\ CompetenciesDone
    BY <1>3 DEF AllDone
  <1>8. \A r \in SeededRows : rows[r] \in IF r[1] \in KeptTables THEN {"seed", "other"} ELSE {"seed"}
    <2>1. ASSUME NEW r \in SeededRows
          PROVE  rows[r] \in IF r[1] \in KeptTables THEN {"seed", "other"} ELSE {"seed"}
      <3>1. rows[r] = "seed" \/ (r[1] \in KeptTables /\ rows[r] # Missing)
        BY <1>4, <1>5, <1>7 DEF RowsDone, SeededRows
      <3>2. rows[r] \in {"seed", "other", Missing}
        BY DEF SeedDataOK
      <3>. QED  BY <3>1, <3>2
    <2>. QED  BY <2>1
  <1>9. \A a \in Demo : roleOf[a] = DemoRole[a]
    BY <1>4, <1>5, <1>7 DEF AccountsDone
  <1>10. \A a \in Account : roleOf[a] # Missing => HasPlan(a)
    BY <1>1, <1>6, <1>7 DEF UsersDone
  <1>11. /\ Opened("free") /\ Opened("premium")
         /\ paid["free"] = script.opened["free"] /\ paid["premium"] = script.opened["premium"]
    BY <1>6, <1>7 DEF PaymentsDone, Executed
  <1>12. DOMAIN paid = {"free", "premium"}
    BY DEF SeedDataOK
  <1>13. \A a \in DOMAIN paid :
           {i \in DOMAIN subscriptions : subscriptions[i].user = a /\ subscriptions[i].active} = {paid[a]}
    BY <1>11, <1>12 DEF Opened, Active
  <1>14. ASSUME NEW a \in {"free", "premium"} PROVE PlanOf(a) = DemoPlan[a]
    <2>1. Opened(a)
      BY <1>11
    <2>2. PICK o : o = script.opened[a] /\ o \in DOMAIN subscriptions
      BY <2>1 DEF Opened
    <2>3. {i \in DOMAIN subscriptions : subscriptions[i].user = a /\ InForce(subscriptions[i])} = {o}
      BY <2>1, <2>2 DEF Opened, Active, InForce
    <2>4. (CHOOSE i \in {o} : \A k \in {o} : subscriptions[k].since <= subscriptions[i].since) = o
      <3>1. subscriptions[o].since <= subscriptions[o].since
        <4>1. subscriptions[o] \in SubscriptionRow
          BY <2>2, DataIs DEF SeedDataOK
        <4>. QED  BY <4>1 DEF SubscriptionRow
      <3>. QED  BY <3>1
    <2>5. PlanOf(a) = subscriptions[o].plan
      BY <2>3, <2>4, Zenon DEF PlanOf
    <2>. QED  BY <2>1, <2>2, <2>5 DEF Opened
  <1>15. PlanOf("premium") = "PREMIUM" /\ PlanOf("free") = "FREE"
    BY <1>14 DEF DemoPlan
  <1>16. ASSUME NEW s \in ToSet(SeedSkills)
         PROVE  /\ s.name \in SkillNames /\ script.ids[s.name] \in DOMAIN skills
                /\ competencies[s.name].legacy = script.ids[s.name] /\ Ids(s.name) = {script.ids[s.name]}
                /\ s.parent # "" => skills[script.ids[s.name]].parent = script.ids[s.parent]
    <2>1. s.name \in SkillNames /\ Rooted(s)
      BY <1>4, <1>5, <1>7, SkillIs DEF SkillsDone
    <2>2. script.ids[s.name] \in DOMAIN skills
      <3>1. PICK m \in Nat : m = Len(skills) /\ DOMAIN skills = 1 .. m
        BY DataIs
      <3>2. script.ids[s.name] \in 0 .. m /\ script.ids[s.name] # 0
        BY <1>3, <2>1, <3>1 DEF IsRun, Rooted
      <3>. QED  BY <3>1, <3>2, SMTT(60)
    <2>3. skills[script.ids[s.name]].name = s.name
      BY <1>7, <2>1 DEF SkillsDone, Rooted
    <2>4. Ids(s.name) = {script.ids[s.name]}
      <3>1. \A i, k \in DOMAIN skills : skills[i].name = skills[k].name => i = k
        BY DEF SeedDataOK
      <3>. QED  BY <2>2, <2>3, <3>1 DEF Ids
    <2>5. competencies[s.name].legacy = script.ids[s.name]
      BY <1>4, <1>5, <1>7 DEF CompetenciesDone
    <2>. QED  BY <2>1, <2>2, <2>4, <2>5 DEF Rooted
  <1>17. ASSUME NEW n \in SkillNames
         PROVE  Seeded(n) /\ competencies[n].legacy = script.ids[n]
    <2>1. PICK s \in ToSet(SeedSkills) : s.name = n
      BY DEF SkillNames, ToSet
    <2>. QED  BY <1>16, <2>1 DEF Seeded
  <1>18. ASSUME NEW p \in ToSet(Aliases) PROVE aliasOf[p[1]] = competencies[p[2]].legacy
    <2>1. p[2] \in SkillNames
      <3>1. PICK s \in Seq(STRING \X SkillNames) : s = Aliases
        BY SeedAssumption
      <3>2. p \in STRING \X SkillNames
        BY <1>18, <3>1, LenProperties DEF ToSet
      <3>. QED  BY <3>2
    <2>2. aliasOf[p[1]] = script.ids[p[2]]
      BY <1>4, <1>5, <1>7, <1>18 DEF LinksDone
    <2>. QED  BY <1>17, <2>1, <2>2
  <1>19. ASSUME NEW p \in ToSet(SeedTransfers)
         PROVE  <<competencies[p[1]].legacy, competencies[p[2]].legacy>> \in transfers
    <2>1. p[1] \in SkillNames /\ p[2] \in SkillNames
      <3>1. PICK s \in Seq(SkillNames \X SkillNames) : s = SeedTransfers
        BY SeedAssumption
      <3>2. p \in SkillNames \X SkillNames
        BY <1>19, <3>1, LenProperties DEF ToSet
      <3>. QED  BY <3>2
    <2>2. <<script.ids[p[1]], script.ids[p[2]]>> \in transfers
      BY <1>4, <1>5, <1>7, <1>19 DEF LinksDone
    <2>3. competencies[p[1]].legacy = script.ids[p[1]] /\ competencies[p[2]].legacy = script.ids[p[2]]
      BY <1>17, <2>1
    <2>. QED  BY <2>2, <2>3
  <1>20. ASSUME NEW s \in ToSet(Children)
         PROVE  /\ competencies[s.name].parent = s.parent
                /\ skills[competencies[s.name].legacy].parent = competencies[s.parent].legacy
    <2>1. s \in ToSet(SeedSkills) /\ s.parent # ""
      BY <1>20, SkillLists
    <2>2. s.parent \in SkillNames
      BY <2>1, SkillIs
    <2>3. competencies[s.name].parent = s.parent
      BY <1>4, <1>5, <1>7, <1>20 DEF CompetenciesDone
    <2>4. /\ competencies[s.name].legacy = script.ids[s.name]
          /\ skills[script.ids[s.name]].parent = script.ids[s.parent]
      BY <1>16, <2>1
    <2>5. competencies[s.parent].legacy = script.ids[s.parent]
      BY <1>17, <2>2
    <2>. QED  BY <2>3, <2>4, <2>5
  <1>. QED  BY <1>8, <1>9, <1>10, <1>13, <1>15, <1>17, <1>18, <1>19, <1>20 DEF SeedIsWhole

(* At the end of a run that nothing disturbed the database is as the lists *)
(* say, whatever it was before and however the earlier runs ended (main).  *)
THEOREM SeedRestores == SeedSpec => []SeedIsWhole
  <1>1. SeedInit => SeedDataOK /\ SeedRunOK /\ SeedProgress
    BY SeedBegins DEF SeedInit, SeedProgress
  <1>2. SeedDataOK /\ SeedRunOK /\ SeedProgress /\ [SeedNext]_seedVars
          => (SeedDataOK /\ SeedRunOK /\ SeedProgress)'
    BY SeedStepKeeps, SeedAdvances
  <1>3. SeedDataOK /\ SeedRunOK /\ SeedProgress => SeedIsWhole
    BY WholeAtTheEnd
  <1>. QED  BY <1>1, <1>2, <1>3, PTL DEF SeedSpec

-----------------------------------------------------------------------------
(* The parts side by side                                                  *)

(* A behaviour of all is, for each part, one of that part, or one in which *)
(* it stands still.                                                        *)
LEMMA PartsOfReadiness ==
  ReadinessSpec => /\ WizardSpec /\ ScoringSpec /\ MatchSpec /\ LegalSpec /\ FinancialSpec
                   /\ Spec /\ SeedSpec
  <1>1. ReadinessInit => /\ WizardInit /\ ScoringInit /\ MatchInit /\ LegalInit /\ FinancialInit
                         /\ Init /\ SeedInit
    BY DEF ReadinessInit
  <1>2. [ReadinessNext]_readinessVars => [WizardNext]_wizardVars /\ [ScoringNext]_scoringVars
    BY DEF ReadinessNext, readinessVars, profileVars
  <1>3. [ReadinessNext]_readinessVars => [MatchNext]_matchVars /\ [LegalNext]_legalVars
    BY DEF ReadinessNext, readinessVars, profileVars
  <1>4. [ReadinessNext]_readinessVars => [FinancialNext]_financialVars
    BY DEF ReadinessNext, readinessVars, profileVars
  <1>5. [ReadinessNext]_readinessVars => [Next]_vars /\ [SeedNext]_seedVars
    BY DEF ReadinessNext, readinessVars, profileVars
  <1>. QED  BY <1>1, <1>2, <1>3, <1>4, <1>5, PTL
            DEF ReadinessSpec, WizardSpec, ScoringSpec, MatchSpec, LegalSpec, FinancialSpec, Spec, SeedSpec

(* TypesOK: the questionnaire, the analysis, the matching, both engines,   *)
(* the cases and the seed keep their types together.                       *)
THEOREM ReadinessTypes == ReadinessSpec => []TypesOK
  <1>1. WizardTypeOK /\ ScoringTypeOK /\ MatchTypeOK /\ LegalTypeOK /\ FinancialTypeOK /\ TypeOK
          /\ SeedTypeOK => TypesOK
    BY DEF TypesOK
  <1>. QED  BY <1>1, PartsOfReadiness, WizardTypes, ScoringTypes, MatchTypes, LegalTypes,
               FinancialTypes, TypeCorrect, SeedTypes, PTL

(* RoadmapIsSound: a roadmap is in the order its dependencies demand, and  *)
(* as long as the longest chain of them (buildRoadmap and                  *)
(* computeCriticalPathHours).                                              *)
THEOREM SoundRoadmaps == ReadinessSpec => []RoadmapIsSound
  <1>1. RoadmapRespectsDependencies /\ CriticalPathIsLongestChain => RoadmapIsSound
    BY DEF RoadmapIsSound
  <1>. QED  BY <1>1, PartsOfReadiness, RoadmapInOrder, PathIsLongest, PTL

(* ImprovingNeverHurts: no answer is worse for raised levels, a simpler    *)
(* move or safer finances (computeAnalysis, resolveOverallRisk and         *)
(* resolveRiskLevel).                                                      *)
THEOREM ImprovedIsNoWorse == ReadinessSpec => ImprovingNeverHurts
  <1>1. [RaisedLevelsHurtNothing]_result => RaisedLevelsHurtNothing
    BY DEF RaisedLevelsHurtNothing
  <1>2. [SimplerMoveIsNoRiskier]_legalReport => SimplerMoveIsNoRiskier
    BY DEF SimplerMoveIsNoRiskier
  <1>3. [SaferFinancesAreNoRiskier]_report => SaferFinancesAreNoRiskier
    BY DEF SaferFinancesAreNoRiskier
  <1>. QED  BY <1>1, <1>2, <1>3, PartsOfReadiness, RaisedIsNoWorse, SimplerIsNoRiskier, SaferIsNoRiskier, PTL
            DEF ImprovingNeverHurts

=============================================================================
