-------------------------------- MODULE Seed --------------------------------
(***************************************************************************)
(* The seed script (prisma/seed.ts): a list of upserts, without a          *)
(* transaction, that may die at any statement and is run again on whatever *)
(* is in the database by then.  Beside it the database is used: accounts   *)
(* come, pay and ask for their plan, an administrator renames skills and   *)
(* changes rows, days pass.  A row of the tables that nothing refers to is *)
(* either as the seed has it or not.                                       *)
(***************************************************************************)
EXTENDS Integers, SequencesExt, Lists

CONSTANTS
  Customer,          \* accounts that register
  SeedSkills,        \* skills: a sequence of [name, parent], parent "" for none
  Aliases,           \* aliases: a sequence of <<alias, name>>
  SeedTransfers,     \* transfers: a sequence of <<name, name>>
  PlanRows,          \* plans and PLAN_ENTITLEMENTS: a sequence of <<table, key>>
  CatalogRows,       \* what is seeded last: a sequence of <<table, key>>
  KeptTables,        \* tables whose rows are created if missing, never updated
  NewName,           \* a name an administrator gives
  SeedBounds         \* how often what costs states may happen

Demo == {"admin", "free", "premium", "specialist"}
Account == Demo \cup Customer
DemoRole == [admin |-> "ADMIN", free |-> "USER", premium |-> "PREMIUM",
             specialist |-> "SPECIALIST"]
Missing == "missing"
Period == 1          \* PREMIUM_PERIOD_DAYS
Forever == -1        \* expiresAt null

SkillNames == {SeedSkills[i].name : i \in DOMAIN SeedSkills}
SeededRows == ToSet(PlanRows) \cup ToSet(CatalogRows)

(* The lists of the script: a skill is named once, after the skill that it *)
(* builds on unless that one has no parent, and an alias is given once.    *)
ASSUME SeedAssumption ==
  /\ Customer \cap Demo = {} /\ IsFiniteSet(Customer)
  /\ SeedSkills \in Seq([name : STRING, parent : STRING])
  /\ \A i, k \in DOMAIN SeedSkills : SeedSkills[i].name = SeedSkills[k].name => i = k
  /\ \A i \in DOMAIN SeedSkills : SeedSkills[i].parent # "" =>
       \E k \in DOMAIN SeedSkills :
         /\ SeedSkills[k].name = SeedSkills[i].parent
         /\ SeedSkills[k].parent = "" \/ k < i
  /\ Aliases \in Seq(STRING \X SkillNames)
  /\ \A i, k \in DOMAIN Aliases : Aliases[i][1] = Aliases[k][1] => i = k
  /\ SeedTransfers \in Seq(SkillNames \X SkillNames)
  /\ PlanRows \in Seq(STRING \X STRING) /\ CatalogRows \in Seq(STRING \X STRING)

VARIABLES
  roleOf,            \* User: the role, Missing if there is no such row
  subscriptions,     \* Subscription rows; since orders them by startedAt
  paid,              \* Payment of a demo account: the row it is linked to
  skills,            \* Skill rows; an id is a position
  aliasOf,           \* SkillAlias: alias -> id
  transfers,         \* SkillTransferability: pairs of ids
  competencies,      \* Competency: name -> legacySkillId and parent
  rows,              \* the other rows: "seed" as seeded, "other", or Missing
  script,            \* the run: its phase, what is left of it, what it remembers
  seedDay,
  seedBudget,
  undisturbed        \* history: nobody but the last run has written

seedVars == <<roleOf, subscriptions, paid, skills, aliasOf, transfers, competencies,
              rows, script, seedDay, seedBudget, undisturbed>>
seedData == <<roleOf, subscriptions, paid, skills, aliasOf, transfers, competencies, rows>>

NotRunning == [phase |-> "none"]

SeedInit ==
  /\ roleOf = [a \in Account |-> Missing]
  /\ subscriptions = <<>> /\ skills = <<>>
  /\ paid = [a \in {"free", "premium"} |-> 0]
  /\ aliasOf = [a \in {p[1] : p \in ToSet(Aliases)} |-> 0]
  /\ transfers = {}
  /\ competencies = [n \in SkillNames |-> [legacy |-> 0, parent |-> ""]]
  /\ rows = [r \in SeededRows |-> Missing]
  /\ script = NotRunning
  /\ seedDay = 0
  /\ seedBudget \in SeedBounds
  /\ undisturbed = TRUE

InForce(s) == s.active /\ (s.expires = Forever \/ s.expires > seedDay)
HasPlan(a) == \E i \in DOMAIN subscriptions :
  subscriptions[i].user = a /\ InForce(subscriptions[i])
(* The newest subscription in force.                                       *)
PlanOf(a) ==
  LET mine == {i \in DOMAIN subscriptions :
                 subscriptions[i].user = a /\ InForce(subscriptions[i])}
  IN subscriptions[CHOOSE i \in mine :
       \A k \in mine : subscriptions[k].since <= subscriptions[i].since].plan

ClosedFor(a) ==
  [i \in DOMAIN subscriptions |->
     IF subscriptions[i].user = a THEN [subscriptions[i] EXCEPT !.active = FALSE]
     ELSE subscriptions[i]]
Plan(a, plan, expires, since) ==
  [user |-> a, plan |-> plan, active |-> TRUE, expires |-> expires, since |-> since]
(* startedAt of a row that is inserted now, and of one that is inserted    *)
(* later with the time it is now.                                          *)
Now == 2 * (Len(subscriptions) + 1)
Hence == 2 * Len(subscriptions) + 1

-----------------------------------------------------------------------------
(* The phases of main, with the statements of each.                        *)
Phases == <<"accounts", "plans", "payments", "users", "skills", "aliases", "transfers",
            "competencies", "parents", "rows", "done">>
PhaseAfter(phase) == Phases[1 + CHOOSE i \in DOMAIN Phases : Phases[i] = phase]

Roots == Picked(SeedSkills, {i \in DOMAIN SeedSkills : SeedSkills[i].parent = ""})
Children == Picked(SeedSkills, {i \in DOMAIN SeedSkills : SeedSkills[i].parent # ""})

Statements(phase) ==
  CASE phase = "accounts" -> <<"admin", "free", "premium", "specialist">>
    [] phase = "plans" -> PlanRows
    [] phase = "payments" -> <<"close free", "open free", "close premium", "open premium",
                               "pay premium", "pay free">>
    [] phase = "users" -> <<[todo |-> "list"]>>
    [] phase = "skills" -> Roots \o Children
    [] phase = "aliases" -> Aliases
    [] phase = "transfers" -> SeedTransfers
    [] phase = "competencies" -> SeedSkills
    [] phase = "parents" -> Children
    [] phase = "rows" -> CatalogRows
    [] phase = "done" -> <<>>

InPhase(phase) == script.phase = phase /\ script.left # <<>>
Statement == Head(script.left)

(* The run goes on with what is left of its phase, then with the next.     *)
Onward(remembered) ==
  LET left == Tail(remembered.left)
      next == PhaseAfter(script.phase)
  IN script' = IF left # <<>> THEN [remembered EXCEPT !.left = left]
               ELSE [remembered EXCEPT !.phase = next, !.left = Statements(next)]

Using(what) ==
  /\ seedBudget[what] > 0
  /\ seedBudget' = [seedBudget EXCEPT ![what] = @ - 1]

BeginSeed ==
  /\ script.phase \in {"none", "done"}
  /\ Using("runs")
  /\ script' = [phase |-> "accounts", left |-> Statements("accounts"),
                ids |-> [n \in SkillNames |-> 0], began |-> seedDay, since |-> Hence,
                opened |-> [a \in {"free", "premium"} |-> 0]]
  /\ undisturbed' = TRUE
  /\ UNCHANGED <<seedData, seedDay>>

(* A statement fails, or the process is stopped: what it knew is gone.     *)
SeedDies ==
  /\ script.phase \notin {"none", "done"}
  /\ script' = NotRunning
  /\ UNCHANGED <<seedData, seedDay, seedBudget, undisturbed>>

(* The accounts of the demonstration get their roles.                      *)
UpsertAccount ==
  /\ InPhase("accounts")
  /\ roleOf' = [roleOf EXCEPT ![Statement] = DemoRole[Statement]]
  /\ Onward(script)
  /\ UNCHANGED <<subscriptions, paid, skills, aliasOf, transfers, competencies, rows,
                 seedDay, seedBudget, undisturbed>>

(* Rows that are written whatever they were: plans and their entitlements, *)
(* and later languages, rules, requirements, hours, vacancies, prices and  *)
(* articles.                                                               *)
WriteRow ==
  /\ rows' = [rows EXCEPT ![Statement] = "seed"]
  /\ Onward(script)
  /\ UNCHANGED <<roleOf, subscriptions, paid, skills, aliasOf, transfers, competencies,
                 seedDay, seedBudget, undisturbed>>
UpsertPlan == InPhase("plans") /\ WriteRow
UpsertRow == InPhase("rows") /\ Statement[1] \notin KeptTables /\ WriteRow

(* The snapshot and the demands are created if there are none.             *)
CreateMissing ==
  /\ InPhase("rows") /\ Statement[1] \in KeptTables
  /\ rows' = [rows EXCEPT ![Statement] = IF @ = Missing THEN "seed" ELSE @]
  /\ Onward(script)
  /\ UNCHANGED <<roleOf, subscriptions, paid, skills, aliasOf, transfers, competencies,
                 seedDay, seedBudget, undisturbed>>

(* The demo accounts' subscriptions are replaced, in two statements each,  *)
(* and their payments linked to the new ones.                              *)
CloseSubscriptions ==
  /\ InPhase("payments")
  /\ \E a \in {"free", "premium"} :
       /\ Statement = IF a = "free" THEN "close free" ELSE "close premium"
       /\ subscriptions' = ClosedFor(a)
       /\ Onward(IF a = "free" THEN [script EXCEPT !.began = seedDay, !.since = Hence] ELSE script)
  /\ UNCHANGED <<roleOf, paid, skills, aliasOf, transfers, competencies, rows,
                 seedDay, seedBudget, undisturbed>>

OpenSubscription ==
  /\ InPhase("payments")
  /\ \E a \in {"free", "premium"} :
       /\ Statement = IF a = "free" THEN "open free" ELSE "open premium"
       /\ subscriptions' = Append(subscriptions,
            IF a = "free" THEN Plan(a, "FREE", Forever, Now)
            ELSE Plan(a, "PREMIUM", script.began + Period, script.since))
       /\ Onward([script EXCEPT !.opened[a] = Len(subscriptions')])
  /\ UNCHANGED <<roleOf, paid, skills, aliasOf, transfers, competencies, rows,
                 seedDay, seedBudget, undisturbed>>

UpsertPayment ==
  /\ InPhase("payments")
  /\ \E a \in {"free", "premium"} :
       /\ Statement = IF a = "free" THEN "pay free" ELSE "pay premium"
       /\ paid' = [paid EXCEPT ![a] = script.opened[a]]
  /\ Onward(script)
  /\ UNCHANGED <<roleOf, subscriptions, skills, aliasOf, transfers, competencies, rows,
                 seedDay, seedBudget, undisturbed>>

(* Every account gets a plan if it has none in force, and a role: PREMIUM  *)
(* is the demo account's alone.  The roles are those of the list.          *)
Visit(a, todo) == [user |-> a, role |-> roleOf[a], todo |-> todo]
ListUsers ==
  /\ InPhase("users") /\ Statement.todo = "list"
  /\ LET users == {a \in Account : roleOf[a] # Missing}
     IN Onward([script EXCEPT !.left =
          @ \o FlattenSeq([i \in 1 .. Cardinality(users) |->
                 LET a == SetToSeq(users)[i] IN <<Visit(a, "find"), Visit(a, "role")>>])])
  /\ UNCHANGED <<seedData, seedDay, seedBudget, undisturbed>>

(* The subscription is looked for in one statement, created in the next.   *)
FindPlan ==
  /\ InPhase("users") /\ Statement.todo = "find"
  /\ Onward(IF HasPlan(Statement.user) THEN script
            ELSE [script EXCEPT !.left = InsertAt(@, 2, [Statement EXCEPT !.todo = "give"])])
  /\ UNCHANGED <<seedData, seedDay, seedBudget, undisturbed>>

GivePlan ==
  /\ InPhase("users") /\ Statement.todo = "give"
  /\ subscriptions' = Append(subscriptions, Plan(Statement.user, "FREE", Forever, Now))
  /\ Onward(script)
  /\ UNCHANGED <<roleOf, paid, skills, aliasOf, transfers, competencies, rows,
                 seedDay, seedBudget, undisturbed>>

SetRole ==
  /\ InPhase("users") /\ Statement.todo = "role"
  /\ roleOf' = IF Statement.role \in {"ADMIN", "SPECIALIST"} THEN roleOf
               ELSE [roleOf EXCEPT ![Statement.user] =
                       IF Statement.user = "premium" THEN "PREMIUM" ELSE "USER"]
  /\ Onward(script)
  /\ UNCHANGED <<subscriptions, paid, skills, aliasOf, transfers, competencies, rows,
                 seedDay, seedBudget, undisturbed>>

(* Skills are found by name, with their parents' ids from skillMap; the    *)
(* parent of a skill that has none in the list is left as it is.           *)
Ids(name) == {i \in DOMAIN skills : skills[i].name = name}
UpsertSkill ==
  /\ InPhase("skills")
  /\ LET name == Statement.name
         parent == IF Statement.parent = "" THEN 0 ELSE script.ids[Statement.parent]
         id == IF Ids(name) = {} THEN Len(skills) + 1 ELSE CHOOSE i \in Ids(name) : TRUE
     IN /\ skills' = IF Ids(name) = {} THEN Append(skills, [name |-> name, parent |-> parent])
                     ELSE IF parent = 0 THEN skills
                     ELSE [skills EXCEPT ![id].parent = parent]
        /\ Onward([script EXCEPT !.ids[name] = id])
  /\ UNCHANGED <<roleOf, subscriptions, paid, aliasOf, transfers, competencies, rows,
                 seedDay, seedBudget, undisturbed>>

UpsertAlias ==
  /\ InPhase("aliases")
  /\ aliasOf' = [aliasOf EXCEPT ![Statement[1]] = script.ids[Statement[2]]]
  /\ Onward(script)
  /\ UNCHANGED <<roleOf, subscriptions, paid, skills, transfers, competencies, rows,
                 seedDay, seedBudget, undisturbed>>

UpsertTransferability ==
  /\ InPhase("transfers")
  /\ transfers' = transfers \cup {<<script.ids[Statement[1]], script.ids[Statement[2]]>>}
  /\ Onward(script)
  /\ UNCHANGED <<roleOf, subscriptions, paid, skills, aliasOf, competencies, rows,
                 seedDay, seedBudget, undisturbed>>

(* Seeded fault: the skill of a competency that exists is left as it is.    *)
CompetencyLinkedOnce ==
  /\ InPhase("competencies")
  /\ competencies' = [competencies EXCEPT ![Statement.name].legacy =
       IF @ = 0 THEN script.ids[Statement.name] ELSE @]
  /\ Onward(script)
  /\ UNCHANGED <<roleOf, subscriptions, paid, skills, aliasOf, transfers, rows,
                 seedDay, seedBudget, undisturbed>>

(* A competency is found by name and refers to the skill of that name by a *)
(* unique column: the run dies if another competency holds the skill.      *)
Holder(id) == {n \in SkillNames : competencies[n].legacy = id}
UpsertCompetency ==
  /\ InPhase("competencies")
  /\ LET name == Statement.name
         id == script.ids[name]
     IN IF Holder(id) \subseteq {name}
        THEN /\ competencies' = [competencies EXCEPT ![name].legacy = id]
             /\ Onward(script)
        ELSE script' = NotRunning /\ UNCHANGED competencies
  /\ UNCHANGED <<roleOf, subscriptions, paid, skills, aliasOf, transfers, rows,
                 seedDay, seedBudget, undisturbed>>

SetParent ==
  /\ InPhase("parents")
  /\ competencies' = [competencies EXCEPT ![Statement.name].parent = Statement.parent]
  /\ Onward(script)
  /\ UNCHANGED <<roleOf, subscriptions, paid, skills, aliasOf, transfers, rows,
                 seedDay, seedBudget, undisturbed>>

-----------------------------------------------------------------------------
(* What happens beside the script.                                         *)
Beside == undisturbed' = FALSE /\ UNCHANGED script

Join(a) ==
  /\ roleOf[a] = Missing
  /\ roleOf' = [roleOf EXCEPT ![a] = "USER"]
  /\ Beside
  /\ UNCHANGED <<subscriptions, paid, skills, aliasOf, transfers, competencies, rows,
                 seedDay, seedBudget>>

(* A checkout is charged and activated (BillingService).                   *)
Pay(a) ==
  /\ Using("payments")
  /\ roleOf[a] # Missing
  /\ subscriptions' = Append(ClosedFor(a), Plan(a, "PREMIUM", seedDay + Period, Now))
  /\ roleOf' = [roleOf EXCEPT ![a] = IF @ \in {"ADMIN", "SPECIALIST"} THEN @ ELSE "PREMIUM"]
  /\ Beside
  /\ UNCHANGED <<paid, skills, aliasOf, transfers, competencies, rows, seedDay>>

(* getCurrentSubscriptionForUser, of whoever opens a page.                 *)
AskPlan(a) ==
  /\ Using("visits")
  /\ roleOf[a] # Missing
  /\ LET kept == [i \in DOMAIN subscriptions |->
               IF subscriptions[i].user = a /\ subscriptions[i].expires \in 0 .. seedDay
               THEN [subscriptions[i] EXCEPT !.active = FALSE] ELSE subscriptions[i]]
         plan == IF HasPlan(a) THEN PlanOf(a) ELSE "FREE"
     IN /\ subscriptions' = IF HasPlan(a) THEN kept ELSE Append(kept, Plan(a, "FREE", Forever, Now))
        /\ roleOf' = [roleOf EXCEPT ![a] =
             IF @ \in {"ADMIN", "SPECIALIST"} THEN @
             ELSE IF plan = "PREMIUM" THEN "PREMIUM" ELSE "USER"]
  /\ Beside
  /\ UNCHANGED <<paid, skills, aliasOf, transfers, competencies, rows, seedDay>>

(* TaxonomyService.update gives a skill another name.                      *)
RenameSkill(i, name) ==
  /\ Using("renames")
  /\ Ids(name) = {}
  /\ skills' = [skills EXCEPT ![i].name = name]
  /\ Beside
  /\ UNCHANGED <<roleOf, subscriptions, paid, aliasOf, transfers, competencies, rows, seedDay>>

(* A row is edited by hand or by an import; the prices of a city are       *)
(* deleted by a sync, which gives its own another country (ColSyncService).*)
ChangeRow(r) ==
  /\ Using("changes")
  /\ rows[r] = "seed"
  /\ rows' = [rows EXCEPT ![r] = IF r[1] = "cost" THEN Missing ELSE "other"]
  /\ Beside
  /\ UNCHANGED <<roleOf, subscriptions, paid, skills, aliasOf, transfers, competencies, seedDay>>

NextDay ==
  /\ Using("days")
  /\ seedDay' = seedDay + 1
  /\ Beside
  /\ UNCHANGED seedData

SeedNext ==
  \/ BeginSeed \/ SeedDies \/ UpsertAccount \/ UpsertPlan \/ UpsertRow \/ CreateMissing
  \/ CloseSubscriptions \/ OpenSubscription \/ UpsertPayment
  \/ ListUsers \/ FindPlan \/ GivePlan \/ SetRole
  \/ UpsertSkill \/ UpsertAlias \/ UpsertTransferability \/ UpsertCompetency \/ SetParent
  \/ \E a \in Customer : Join(a) \/ Pay(a)
  \/ \E a \in Account : AskPlan(a)
  \/ \E i \in DOMAIN skills, n \in SkillNames \cup {NewName} : RenameSkill(i, n)
  \/ \E r \in SeededRows : ChangeRow(r)
  \/ NextDay

SeedSpec == SeedInit /\ [][SeedNext]_seedVars

-----------------------------------------------------------------------------
SeedTypeOK ==
  /\ roleOf \in [Account -> {"USER", "PREMIUM", "ADMIN", "SPECIALIST", Missing}]
  /\ \A i \in DOMAIN subscriptions :
       subscriptions[i] \in [user : Account, plan : {"FREE", "PREMIUM"}, active : BOOLEAN,
                            expires : Nat \cup {Forever}, since : Nat]
  /\ \A a \in DOMAIN paid : paid[a] \in 0 .. Len(subscriptions)
  /\ \A i \in DOMAIN skills : skills[i].parent \in 0 .. Len(skills)
  /\ \A i, k \in DOMAIN skills : skills[i].name = skills[k].name => i = k
  /\ \A n \in SkillNames : competencies[n].legacy \in 0 .. Len(skills)

(* The row that the seed makes of a skill, and what refers to it.          *)
Seeded(name) == Ids(name) # {} /\ Ids(name) = {competencies[name].legacy}

(* Once a run has come to its end, everything is as the seed says, however *)
(* many runs died before it, wherever they did, and whatever was done with *)
(* the database between the runs: plans and rows are restored, each demo   *)
(* account has one subscription, of its plan and linked to its payment,    *)
(* each account has a plan, and aliases, transfers and competencies lead   *)
(* to the skills of the seeded names with their parents (main).            *)
SeedIsWhole ==
  script.phase = "done" /\ undisturbed =>
    /\ \A r \in SeededRows : rows[r] \in IF r[1] \in KeptTables THEN {"seed", "other"} ELSE {"seed"}
    /\ \A a \in Demo : roleOf[a] = DemoRole[a]
    /\ \A a \in Account : roleOf[a] # Missing => HasPlan(a)
    /\ \A a \in DOMAIN paid :
         {i \in DOMAIN subscriptions : subscriptions[i].user = a /\ subscriptions[i].active} = {paid[a]}
    /\ PlanOf("premium") = "PREMIUM" /\ PlanOf("free") = "FREE"
    /\ \A n \in SkillNames : Seeded(n)
    /\ \A p \in ToSet(Aliases) : aliasOf[p[1]] = competencies[p[2]].legacy
    /\ \A p \in ToSet(SeedTransfers) :
         <<competencies[p[1]].legacy, competencies[p[2]].legacy>> \in transfers
    /\ \A s \in ToSet(Children) :
         /\ competencies[s.name].parent = s.parent
         /\ skills[competencies[s.name].legacy].parent = competencies[s.parent].legacy

=============================================================================
