----------------------------- MODULE JobMatches -----------------------------
(***************************************************************************)
(* The vacancies that suit a profile best (getTopMatches in                *)
(* apps/api/src/scoring/job-matching.service.ts), while syncs import       *)
(* vacancies one statement at a time (importJobPostings in market.service) *)
(* and the user saves the profile: every vacancy is scored with reads of   *)
(* its own.                                                                *)
(***************************************************************************)
EXTENDS Scoring, Lists

CONSTANTS
  MatchProfile,     \* the profiles a user may save: [country, role, levels]
  Import,           \* import -> the vacancies it writes, in order: [key, country, role, needs]
  Allowed,          \* values of a plan's limitValue for JOB_MATCH_LIMIT; 0 for none
  Requested,        \* limits a page may ask for
  MaxRequested,     \* 20 in the code
  Take,             \* 60 in the code: the newest vacancies that are scored
  MaxSaves          \* bound on how often the profile is saved

PostingKey == UNION {{i.key : i \in ToSet(Import[n])} : n \in DOMAIN Import}
Sought == UNION {UNION {i.needs : i \in ToSet(Import[n])} : n \in DOMAIN Import}
ImportItem == [key : PostingKey, country : STRING, role : STRING, needs : SUBSET Sought]

(* A profile has a level of every competency that a vacancy names: NONE    *)
(* without a row.                                                          *)
ASSUME MatchAssumption ==
  /\ \A n \in DOMAIN Import : Import[n] \in Seq(ImportItem)
  /\ IsFiniteSet(Sought)
  /\ \A p \in MatchProfile : \A c \in Sought :
       c \in DOMAIN p.levels /\ p.levels[c] \in DOMAIN LevelScore
  /\ Requested \subseteq Int /\ Allowed \subseteq Nat
  /\ MaxRequested \in Nat \ {0} /\ Take \in Nat \ {0}

NoQuery == [at |-> "idle"]

VARIABLES
  profile,          \* the RelocationProfile and its competencies
  posting,          \* dedupKey -> JobPosting row, for the keys that have one
  newest,           \* those keys, the newest row first
  importing,        \* import -> what it has still to write, and whether it found a row
  query,            \* the request for the best matches
  answer,           \* what it answered last
  saves             \* counter for the bound

matchVars == <<profile, posting, newest, importing, query, answer, saves>>

-----------------------------------------------------------------------------
(* loadRequirements: every competency a vacancy names is IMPORTANT, CORE   *)
(* and wanted at a middle level; languages are irrelevant to the score,    *)
(* because no country is given.                                            *)
PostingRequirement(c) ==
  [type |-> TypeOf(c), level |-> IF TypeOf(c) = "LANGUAGE" THEN "B1" ELSE "PRACTICAL",
   score |-> 7500]

PostingItem(c, levels_) ==
  [match |-> Match(LevelScore[levels_[c]], RequiredScore(PostingRequirement(c))), weight |-> 1,
   kind |-> IF TypeOf(c) = "LANGUAGE" THEN "EXCLUDED_AS_IRRELEVANT" ELSE "ACTIONABLE_GAP"]

MatchScore(needs, levels_) ==
  LET s == SetToSeq(needs) IN FitScore([i \in DOMAIN s |-> PostingItem(s[i], levels_)])

(* The limit: what the page asks for, clamped, and no more than the plan   *)
(* allows; a plan that has no limit, or a limit of 0, does not clamp.      *)
Limit(requested, allowed) ==
  LET wanted == Max({1, Min({MaxRequested, requested})})
  IN IF allowed = 0 THEN wanted ELSE Max({1, Min({wanted, allowed})})

MatchInit ==
  /\ profile \in MatchProfile
  /\ posting = <<>>
  /\ newest = <<>>
  /\ importing = [n \in DOMAIN Import |-> [left |-> Import[n], step |-> "find"]]
  /\ query = NoQuery
  /\ answer = <<>>
  /\ saves = 0

(* History: the levels that were saved, and the needs had by each vacancy  *)
(* that fits, since the candidates were fetched.                           *)
Noted(q, rows, levels_) ==
  IF q.at # "match" THEN q
  ELSE [q EXCEPT !.levels = @ \cup {levels_},
                 !.needs = [k \in DOMAIN @ |-> @[k] \cup {rows[k].needs}]]

-----------------------------------------------------------------------------
(* ProfileService.update, one transaction.                                 *)
SaveProfile ==
  /\ saves < MaxSaves
  /\ profile' \in MatchProfile \ {profile}
  /\ query' = Noted(query, posting, profile'.levels)
  /\ saves' = saves + 1
  /\ UNCHANGED <<posting, newest, importing, answer>>

(* importJobPostings, for each vacancy: the row with its key is looked up, *)
(* then updated or created.                                                *)
FindPosting(n) ==
  LET i == importing[n] IN
    /\ i.left # <<>> /\ i.step = "find"
    /\ importing' = [importing EXCEPT ![n].step =
                       IF Head(i.left).key \in DOMAIN posting THEN "update" ELSE "create"]
    /\ UNCHANGED <<profile, posting, newest, query, answer, saves>>

Written(item) == [country |-> item.country, role |-> item.role, needs |-> item.needs]

(* A vacancy that was found under another role is that role's no more.     *)
UpdatePosting(n) ==
  LET i == importing[n] IN
    /\ i.left # <<>> /\ i.step = "update"
    /\ posting' = [posting EXCEPT ![Head(i.left).key] = Written(Head(i.left))]
    /\ query' = Noted(query, posting', profile.levels)
    /\ importing' = [importing EXCEPT ![n] = [left |-> Tail(i.left), step |-> "find"]]
    /\ UNCHANGED <<profile, newest, answer, saves>>

(* The key is unique: a row created meanwhile by another import makes the  *)
(* statement fail, and the import is given up with the rest of its items.  *)
CreatePosting(n) ==
  LET i == importing[n] IN
    /\ i.left # <<>> /\ i.step = "create"
    /\ IF Head(i.left).key \in DOMAIN posting
         THEN /\ importing' = [importing EXCEPT ![n].left = <<>>]
              /\ UNCHANGED <<posting, newest>>
         ELSE /\ posting' = Put(posting, Head(i.left).key, Written(Head(i.left)))
              /\ newest' = <<Head(i.left).key>> \o newest
              /\ importing' = [importing EXCEPT ![n] = [left |-> Tail(i.left), step |-> "find"]]
    /\ UNCHANGED <<profile, query, answer, saves>>

-----------------------------------------------------------------------------
(* The request.  The limit comes from the plan in force (getLimit).        *)
AskTopMatches ==
  /\ query = NoQuery
  /\ \E r \in Requested : \E a \in Allowed :
       query' = [at |-> "profile", limit |-> Limit(r, a)]
  /\ UNCHANGED <<profile, posting, newest, importing, answer, saves>>

RequireProfile ==
  /\ query.at = "profile"
  /\ query' = [at |-> "exact", limit |-> query.limit,
               country |-> profile.country, role |-> profile.role]
  /\ UNCHANGED <<profile, posting, newest, importing, answer, saves>>

Fits(k) ==
  CASE query.at = "exact"   -> posting[k].country = query.country /\ posting[k].role = query.role
    [] query.at = "country" -> posting[k].country = query.country
    [] query.at = "role"    -> posting[k].role = query.role

(* Seeded fault: no more vacancies are fetched than will be shown.         *)
NewestToShow == LET fit == Picked(newest, {i \in DOMAIN newest : Fits(newest[i])})
                IN SubSeq(fit, 1, Min({query.limit, Len(fit)}))

Fetched == LET fit == Picked(newest, {i \in DOMAIN newest : Fits(newest[i])})
           IN SubSeq(fit, 1, Min({Take, Len(fit)}))

After == [exact |-> "country", country |-> "role"]

(* fetchCandidatePostings: the country and the role, else the country,     *)
(* else the role.                                                          *)
FetchCandidates ==
  /\ query.at \in {"exact", "country", "role"}
  /\ LET found == Fetched IN
       query' = IF found = <<>> /\ query.at # "role"
                  THEN [query EXCEPT !.at = After[query.at]]
                  ELSE [at |-> "match", limit |-> query.limit, fetched |-> found,
                        own |-> <<>>, score |-> <<>>,
                        levels |-> {profile.levels},
                        needs |-> [k \in {k \in DOMAIN posting : Fits(k)} |-> {posting[k].needs}]]
  /\ UNCHANGED <<profile, posting, newest, importing, answer, saves>>

(* matchPosting, for all candidates at once: the profile is read again,    *)
(* then the vacancy.                                                       *)
ReadProfile(k) ==
  /\ query.at = "match"
  /\ k \in ToSet(query.fetched) \ DOMAIN query.own
  /\ query' = [query EXCEPT !.own = Put(@, k, profile.levels)]
  /\ UNCHANGED <<profile, posting, newest, importing, answer, saves>>

MatchPosting(k) ==
  /\ query.at = "match"
  /\ k \in DOMAIN query.own \ DOMAIN query.score
  /\ query' = [query EXCEPT !.score = Put(@, k, MatchScore(posting[k].needs, query.own[k]))]
  /\ UNCHANGED <<profile, posting, newest, importing, answer, saves>>

(* JavaScript's sort keeps the order of equal scores.                      *)
AnswerTopMatches ==
  /\ query.at = "match" /\ DOMAIN query.score = ToSet(query.fetched)
  /\ LET scores == [i \in DOMAIN query.fetched |-> query.score[query.fetched[i]]]
         sorted == Descending(query.fetched, scores)
     IN answer' = SubSeq(sorted, 1, Min({query.limit, Len(sorted)}))
  /\ query' = NoQuery
  /\ UNCHANGED <<profile, posting, newest, importing, saves>>

MatchNext ==
  \/ SaveProfile
  \/ \E n \in DOMAIN Import : FindPosting(n) \/ UpdatePosting(n) \/ CreatePosting(n)
  \/ AskTopMatches \/ RequireProfile \/ FetchCandidates \/ AnswerTopMatches
  \/ \E k \in PostingKey : ReadProfile(k) \/ MatchPosting(k)

MatchSpec == MatchInit /\ [][MatchNext]_matchVars

-----------------------------------------------------------------------------
(* Rows and their order agree, and imports write what they were given.     *)
MatchTypeOK ==
  /\ profile \in MatchProfile
  /\ ToSet(newest) = DOMAIN posting /\ Len(newest) = Cardinality(DOMAIN posting)
  /\ \A n \in DOMAIN Import : IsSuffix(importing[n].left, Import[n])
  /\ ToSet(answer) \subseteq DOMAIN posting /\ Len(answer) <= MaxRequested

(* The scores a vacancy may be given: by levels and a row that were        *)
(* current after the candidates were fetched.                              *)
Possible(k) == {MatchScore(n, l) : n \in query.needs[k], l \in query.levels}

(* Whatever the user saves and syncs import while the candidates are       *)
(* scored one by one, the answer is as long as the limit and the vacancies *)
(* that fit allow, names none twice, and none comes before, or instead of, *)
(* one that was better all the time (getTopMatches), as long as no more    *)
(* than Take fit.                                                          *)
TopMatchesAreBest ==
  [][(query.at = "match" /\ query' = NoQuery /\ Cardinality(DOMAIN query.needs) <= Take) =>
       LET fit == DOMAIN query.needs
           Beaten(k, by) == \A s \in Possible(k) : \A t \in Possible(by) : s < t
       IN /\ Cardinality(ToSet(answer')) = Min({query.limit, Cardinality(fit)})
          /\ \A i \in DOMAIN answer' : \A k \in fit \ {answer'[j] : j \in 1 .. i} :
               ~Beaten(answer'[i], k)]_matchVars

=============================================================================
