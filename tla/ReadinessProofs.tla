--------------------------- MODULE ReadinessProofs --------------------------
(***************************************************************************)
(* Proofs about what leads to a report: the two readiness engines, for any *)
(* answers that the API accepts (LegalReadiness, for any lists of          *)
(* countries and roles; FinancialReadiness, for any prices, cities and     *)
(* source of prices), the questionnaire with its resume (ResumeDraft,      *)
(* ProfileWizard), for any competencies, texts and answers of an AI, the   *)
(* vacancies that suit a profile (JobMatches), for any imports, and the    *)
(* analysis of a profile (Scoring), for any pack of a role, levels to      *)
(* choose from, transfers and orders of the rows.                          *)
(***************************************************************************)
EXTENDS LegalReadiness, FinancialReadiness, ProfileWizard, JobMatches,
        FiniteSetTheorems, SequenceTheorems, WellFoundedInduction, TLAPS

-----------------------------------------------------------------------------
(* Greatest and least elements, and counts of what fires                   *)

LEMMA MaxIs ==
  ASSUME NEW S, S \subseteq Int, NEW m \in S, \A y \in S : m >= y
  PROVE  Max(S) = m
  <1>1. m \in S /\ \A y \in S : m >= y
    OBVIOUS
  <1>2. Max(S) \in S /\ \A y \in S : Max(S) >= y
    BY <1>1, Zenon DEF Max
  <1>3. PICK n : n = Max(S)
    OBVIOUS
  <1>4. m \in Int /\ n \in Int /\ m >= n /\ n >= m
    BY <1>1, <1>2, <1>3
  <1>. QED  BY <1>3, <1>4

LEMMA MinIs ==
  ASSUME NEW S, S \subseteq Int, NEW m \in S, \A y \in S : m <= y
  PROVE  Min(S) = m
  <1>1. m \in S /\ \A y \in S : m <= y
    OBVIOUS
  <1>2. Min(S) \in S /\ \A y \in S : Min(S) <= y
    BY <1>1, Zenon DEF Min
  <1>3. PICK n : n = Min(S)
    OBVIOUS
  <1>4. m \in Int /\ n \in Int /\ m <= n /\ n <= m
    BY <1>1, <1>2, <1>3
  <1>. QED  BY <1>3, <1>4

LEMMA Greater ==
  ASSUME NEW x \in Int, NEW y \in Int
  PROVE  Max({x, y}) = IF x >= y THEN x ELSE y
  <1>. DEFINE m == IF x >= y THEN x ELSE y
  <1>1. m \in {x, y} /\ {x, y} \subseteq Int /\ \A z \in {x, y} : m >= z
    OBVIOUS
  <1>. QED  BY <1>1, MaxIs

LEMMA Lesser ==
  ASSUME NEW x \in Int, NEW y \in Int
  PROVE  Min({x, y}) = IF x <= y THEN x ELSE y
  <1>. DEFINE m == IF x <= y THEN x ELSE y
  <1>1. m \in {x, y} /\ {x, y} \subseteq Int /\ \A z \in {x, y} : m <= z
    OBVIOUS
  <1>. QED  BY <1>1, MinIs

(* A score that is kept between the lowest level and the highest.          *)
Clamp(n) == IF n < 1 THEN 1 ELSE IF n > 3 THEN 3 ELSE n

LEMMA Clamped ==
  ASSUME NEW n \in Int
  PROVE  Max({1, Min({3, n})}) = Clamp(n) /\ Clamp(n) \in 1 .. 3
  <1>1. Min({3, n}) = IF 3 <= n THEN 3 ELSE n
    BY Lesser
  <1>2. Max({1, Min({3, n})}) = IF 1 >= Min({3, n}) THEN 1 ELSE Min({3, n})
    BY <1>1, Greater
  <1>. QED  BY <1>1, <1>2 DEF Clamp

Count(r, rules) == IF r \in rules THEN 1 ELSE 0

LEMMA One ==
  ASSUME NEW r, NEW rules
  PROVE  Cardinality(rules \cap {r}) = Count(r, rules)
  <1>1. CASE r \in rules
    <2>1. rules \cap {r} = {r}
      BY <1>1
    <2>. QED  BY <1>1, <2>1, FS_Singleton DEF Count
  <1>2. CASE r \notin rules
    <2>1. rules \cap {r} = {}
      BY <1>2
    <2>. QED  BY <1>2, <2>1, FS_EmptySet DEF Count
  <1>. QED  BY <1>1, <1>2

LEMMA Two ==
  ASSUME NEW r, NEW s, r # s, NEW rules
  PROVE  Cardinality(rules \cap {r, s}) = Count(r, rules) + Count(s, rules)
  <1>. DEFINE A == rules \cap {r}
  <1>1. Cardinality(A) = Count(r, rules) /\ Count(r, rules) \in Nat
    BY One DEF Count
  <1>2. IsFiniteSet(A)
    BY FS_Subset, FS_Singleton
  <1>3. CASE s \in rules
    <2>1. rules \cap {r, s} = A \cup {s} /\ s \notin A
      BY <1>3
    <2>2. Cardinality(A \cup {s}) = Cardinality(A) + 1
      BY <1>2, <2>1, FS_AddElement
    <2>. HIDE DEF A
    <2>. QED  BY <1>1, <1>3, <2>1, <2>2 DEF Count
  <1>4. CASE s \notin rules
    <2>1. rules \cap {r, s} = A
      BY <1>4
    <2>. HIDE DEF A
    <2>. QED  BY <1>1, <1>4, <2>1 DEF Count
  <1>. QED  BY <1>3, <1>4

-----------------------------------------------------------------------------
(* The legal engine                                                        *)

(* The levels that the rules start from, by what fires.                    *)
LEMMA HighestIs ==
  ASSUME NEW f
  PROVE  Highest(LegalRules(f)) = IF "NON_EU_TO_EU" \in LegalRules(f) THEN 3
                                  ELSE IF "FAMILY" \in LegalRules(f) THEN 2 ELSE 1
  <1>. DEFINE rules == LegalRules(f)
              S == {1} \cup {Base(r) : r \in rules}
              m == IF "NON_EU_TO_EU" \in rules THEN 3 ELSE IF "FAMILY" \in rules THEN 2 ELSE 1
  <1>1. \A r : Base(r) \in 1 .. 3
    BY DEF Base
  <1>2. S \subseteq Int
    BY <1>1
  <1>. HIDE DEF rules
  <1>3. m \in S
    <2>1. Base("NON_EU_TO_EU") = 3 /\ Base("FAMILY") = 2
      BY DEF Base
    <2>. QED  BY <2>1
  <1>4. \A y \in S : m >= y
    <2>1. \A r \in rules : m >= Base(r)
      BY DEF Base
    <2>. QED  BY <2>1
  <1>5. Max(S) = m
    <2>. HIDE DEF S, m
    <2>. QED  BY <1>2, <1>3, <1>4, MaxIs
  <1>. QED  BY <1>5 DEF Highest, rules

(* Which rules fire.                                                       *)
LEMMA Fired ==
  ASSUME NEW f
  PROVE  /\ "EU_INTERNAL" \in LegalRules(f) <=> ToEuFrom(f, "EU")
         /\ "NON_EU_TO_EU" \in LegalRules(f) <=> ToEuFrom(f, "NON_EU")
         /\ "AUTHORIZATION" \in LegalRules(f) <=> f.hasExistingWorkAuthorization = "yes"
         /\ "NO_JOB_OFFER" \in LegalRules(f) <=>
              Region(f.targetCountry) = "EU" /\ f.hasJobOffer = "no"
         /\ "FAMILY" \in LegalRules(f) <=> f.relocationWithFamily = "yes"
         /\ "UNKNOWN_COUNTRY" \in LegalRules(f) <=> Unknown(f)
  BY DEF LegalRules

Floor(f, n) == IF f.relocationWithFamily = "yes" /\ n < 2 THEN 2 ELSE n

(* The score, from the counts of the rules that matter to it.              *)
LEMMA ScoreIs ==
  ASSUME NEW f, NEW rules, rules = LegalRules(f)
  PROVE  /\ Highest(rules) \in 1 .. 3
         /\ Score(f, rules) = Floor(f, Clamp(Highest(rules) + Count("NO_JOB_OFFER", rules)
                                               - Count("AUTHORIZATION", rules)))
         /\ Score(f, rules) \in 1 .. 3
  <1>1. Highest(rules) \in 1 .. 3
    BY HighestIs
  <1>2. Shift(rules) = Count("NO_JOB_OFFER", rules) - Count("AUTHORIZATION", rules)
    BY One DEF Shift
  <1>. DEFINE n == Highest(rules) + Count("NO_JOB_OFFER", rules) - Count("AUTHORIZATION", rules)
  <1>3. n \in Int /\ n = Highest(rules) + Shift(rules)
    BY <1>1, <1>2 DEF Count
  <1>. HIDE DEF n
  <1>4. Max({1, Min({3, Highest(rules) + Shift(rules)})}) = Clamp(n) /\ Clamp(n) \in 1 .. 3
    BY <1>3, Clamped
  <1>5. Max({Clamp(n), 2}) = IF Clamp(n) >= 2 THEN Clamp(n) ELSE 2
    BY <1>4, Greater
  <1>6. Score(f, rules) = Floor(f, Clamp(n)) /\ Floor(f, Clamp(n)) \in 1 .. 3
    BY <1>4, <1>5 DEF Score, Floor
  <1>. QED  BY <1>1, <1>6 DEF n

(* A simpler move fires no rule that raises the level and was silent, and  *)
(* every one that lowers it.                                               *)
LEMMA SimplerScores ==
  ASSUME NEW f, NEW g, Simpler(f, g)
  PROVE  /\ Unknown(g) <=> Unknown(f)
         /\ Score(g, LegalRules(g)) <= Score(f, LegalRules(f))
         /\ VisaCheckLikelyRequired(g, LegalRules(g)) => VisaCheckLikelyRequired(f, LegalRules(f))
  <1>. DEFINE F == LegalRules(f)
              G == LegalRules(g)
  <1>1. /\ Unknown(g) <=> Unknown(f)
        /\ \A region : ToEuFrom(g, region) <=> ToEuFrom(f, region)
        /\ Region(g.targetCountry) = Region(f.targetCountry)
    BY DEF Simpler, Unknown, ToEuFrom, Region
  <1>2. /\ "NON_EU_TO_EU" \in G <=> "NON_EU_TO_EU" \in F
        /\ "EU_INTERNAL" \in G <=> "EU_INTERNAL" \in F
        /\ "UNKNOWN_COUNTRY" \in G <=> "UNKNOWN_COUNTRY" \in F
    BY <1>1, Fired
  <1>3. /\ "FAMILY" \in G => "FAMILY" \in F
        /\ "NO_JOB_OFFER" \in G => "NO_JOB_OFFER" \in F
        /\ "AUTHORIZATION" \in F => "AUTHORIZATION" \in G
    BY <1>1, Fired DEF Simpler
  <1>4. Highest(G) <= Highest(F) /\ Highest(G) \in 1 .. 3 /\ Highest(F) \in 1 .. 3
    BY <1>2, <1>3, HighestIs
  <1>. HIDE DEF F, G
  <1>5. /\ Count("NO_JOB_OFFER", G) <= Count("NO_JOB_OFFER", F)
        /\ Count("AUTHORIZATION", F) <= Count("AUTHORIZATION", G)
        /\ \A r, rules : Count(r, rules) \in 0 .. 1
    BY <1>3 DEF Count
  <1>6. Score(g, G) <= Score(f, F)
    <2>. DEFINE n == Highest(F) + Count("NO_JOB_OFFER", F) - Count("AUTHORIZATION", F)
                m == Highest(G) + Count("NO_JOB_OFFER", G) - Count("AUTHORIZATION", G)
    <2>1. m \in Int /\ n \in Int /\ m <= n
      BY <1>4, <1>5
    <2>2. Score(f, F) = Floor(f, Clamp(n)) /\ Score(g, G) = Floor(g, Clamp(m))
      BY ScoreIs DEF F, G
    <2>. HIDE DEF m, n
    <2>3. g.relocationWithFamily = "yes" => f.relocationWithFamily = "yes"
      BY DEF Simpler
    <2>. QED  BY <2>1, <2>2, <2>3 DEF Floor, Clamp
  <1>7. VisaCheckLikelyRequired(g, G) => VisaCheckLikelyRequired(f, F)
    BY <1>1, <1>2 DEF VisaCheckLikelyRequired
  <1>. QED  BY <1>1, <1>6, <1>7 DEF F, G

Facts ==
  /\ \A q \in Question : facts[q] \in Answer
  /\ facts.currentCountry \in Country /\ facts.targetCountry \in Country
  /\ DOMAIN facts = Question \cup {"currentCountry", "targetCountry", "desiredRole"}

LegalInv ==
  Facts /\ (legalReport # NoLegalReport => legalReport = LegalEvaluation(legalReport.of))

LEMMA Risks ==
  ASSUME NEW f
  PROVE  LegalEvaluation(f).risk = (IF Unknown(f) THEN "UNKNOWN"
                                    ELSE <<"LOW", "MODERATE", "HIGH">>[Score(f, LegalRules(f))])
         /\ LegalEvaluation(f).risk \in {"LOW", "MODERATE", "HIGH", "UNKNOWN"}
  <1>1. LegalEvaluation(f).risk = IF Unknown(f) THEN "UNKNOWN"
                                  ELSE <<"LOW", "MODERATE", "HIGH">>[Score(f, LegalRules(f))]
    BY Fired DEF LegalEvaluation, OverallRisk
  <1>2. Score(f, LegalRules(f)) \in {1, 2, 3}
    BY ScoreIs
  <1>. QED  BY <1>1, <1>2

LEMMA LegalKeeps ==
  ASSUME LegalInv, [LegalNext]_legalVars
  PROVE  LegalInv'
  <1>1. CASE SaveFacts
    <2>1. legalReport' = legalReport
      BY <1>1 DEF SaveFacts
    <2>2. CASE \E q \in Question, v \in {"yes", "no"} : facts' = [facts EXCEPT ![q] = v]
      <3>1. PICK q \in Question, v \in {"yes", "no"} : facts' = [facts EXCEPT ![q] = v]
        BY <2>2
      <3>2. DOMAIN facts' = DOMAIN facts /\ \A r \in DOMAIN facts : facts'[r] = IF r = q THEN v ELSE facts[r]
        BY <3>1
      <3>3. Facts'
        BY <3>1, <3>2 DEF LegalInv, Facts, Question, Answer
      <3>. QED  BY <2>1, <3>3 DEF LegalInv
    <2>3. CASE \E c \in Country : \E q \in {"currentCountry", "targetCountry"} :
                 facts' = [facts EXCEPT ![q] = c]
      <3>1. PICK c \in Country, q \in {"currentCountry", "targetCountry"} :
              facts' = [facts EXCEPT ![q] = c]
        BY <2>3
      <3>2. DOMAIN facts' = DOMAIN facts /\ \A r \in DOMAIN facts : facts'[r] = IF r = q THEN c ELSE facts[r]
        BY <3>1
      <3>3. Facts'
        BY <3>1, <3>2 DEF LegalInv, Facts, Question
      <3>. QED  BY <2>1, <3>3 DEF LegalInv
    <2>. QED  BY <1>1, <2>2, <2>3 DEF SaveFacts
  <1>2. CASE EvaluateLegal
    <2>1. LegalEvaluation(facts).of = facts
      BY DEF LegalEvaluation
    <2>. QED  BY <1>2, <2>1 DEF EvaluateLegal, LegalInv, Facts
  <1>3. CASE UNCHANGED legalVars
    BY <1>3 DEF legalVars, LegalInv, Facts
  <1>. QED  BY <1>1, <1>2, <1>3 DEF LegalNext

(* Answers are answers and countries are of the lists, and a report is     *)
(* what the engine makes of the facts it is of.                            *)
THEOREM LegalInvariant == LegalSpec => []LegalInv
  <1>1. LegalInit => LegalInv
    BY DEF LegalInit, LegalInv, Facts, Question, Answer
  <1>2. LegalInv /\ [LegalNext]_legalVars => LegalInv'
    BY LegalKeeps
  <1>. QED  BY <1>1, <1>2, PTL DEF LegalSpec

(* LegalTypeOK: the profile holds answers that can be given, and a report  *)
(* has one of the levels (LegalReadiness).                                 *)
THEOREM LegalTypes == LegalSpec => []LegalTypeOK
  <1>1. LegalInv => LegalTypeOK
    BY Risks DEF LegalInv, Facts, LegalTypeOK
  <1>. QED  BY <1>1, LegalInvariant, PTL

(* For any lists of countries and roles: whatever rules fire together, a   *)
(* move that is simpler is neither judged riskier nor asked for a visa     *)
(* check that was not needed before (resolveOverallRisk).                  *)
THEOREM SimplerIsNoRiskier == LegalSpec => [][SimplerMoveIsNoRiskier]_legalReport
  <1>1. LegalInv /\ [LegalNext]_legalVars => [SimplerMoveIsNoRiskier]_legalReport
    <2>. SUFFICES ASSUME LegalInv, [LegalNext]_legalVars, legalReport # NoLegalReport,
                         legalReport' # legalReport, Simpler(legalReport.of, legalReport'.of)
                  PROVE  /\ RiskRank(legalReport'.risk) <= RiskRank(legalReport.risk)
                         /\ legalReport'.visa => legalReport.visa
      BY DEF SimplerMoveIsNoRiskier
    <2>1. legalReport' = LegalEvaluation(facts)
      BY DEF LegalNext, SaveFacts, EvaluateLegal, legalVars
    <2>2. PICK f, g : legalReport = LegalEvaluation(f) /\ legalReport' = LegalEvaluation(g) /\
                      Simpler(f, g)
      <3>1. LegalEvaluation(facts).of = facts
        BY DEF LegalEvaluation
      <3>2. legalReport = LegalEvaluation(legalReport.of)
        BY DEF LegalInv
      <3>. QED  BY <2>1, <3>1, <3>2
    <2>3. /\ Unknown(g) <=> Unknown(f)
          /\ Score(g, LegalRules(g)) <= Score(f, LegalRules(f))
          /\ VisaCheckLikelyRequired(g, LegalRules(g)) => VisaCheckLikelyRequired(f, LegalRules(f))
      BY <2>2, SimplerScores
    <2>4. legalReport'.visa => legalReport.visa
      BY <2>2, <2>3 DEF LegalEvaluation
    <2>5. PICK m \in 1 .. 3, n \in 1 .. 3 :
            m = Score(g, LegalRules(g)) /\ n = Score(f, LegalRules(f))
      BY ScoreIs
    <2>6. RiskRank(legalReport'.risk) <= RiskRank(legalReport.risk)
      <3>1. legalReport'.risk = (IF Unknown(g) THEN "UNKNOWN" ELSE <<"LOW", "MODERATE", "HIGH">>[m])
            /\ legalReport.risk = (IF Unknown(f) THEN "UNKNOWN" ELSE <<"LOW", "MODERATE", "HIGH">>[n])
        BY <2>2, <2>5, Risks
      <3>2. CASE Unknown(f)
        BY <2>3, <3>1, <3>2 DEF RiskRank
      <3>3. CASE ~ Unknown(f)
        <4>1. m <= n
          BY <2>3, <2>5
        <4>2. \A k \in 1 .. 3 : RiskRank(<<"LOW", "MODERATE", "HIGH">>[k]) = k
          BY DEF RiskRank
        <4>. QED  BY <2>3, <3>1, <3>3, <4>1, <4>2
      <3>. QED  BY <3>2, <3>3
    <2>. QED  BY <2>4, <2>6
  <1>. QED  BY <1>1, LegalInvariant, PTL DEF LegalSpec

-----------------------------------------------------------------------------
(* The arithmetic of the financial engine                                  *)

(* A quotient, by the multiples of the divisor around the dividend.        *)
LEMMA Quotient ==
  ASSUME NEW n \in Int, NEW d \in Nat \ {0}
  PROVE  /\ n \div d \in Int
         /\ d * (n \div d) <= n /\ n < d * (n \div d) + d
  OBVIOUS

LEMMA Product ==
  ASSUME NEW x \in Int, NEW y \in Int, NEW n \in Nat, x <= y
  PROVE  n * x \in Int /\ n * y \in Int /\ n * x <= n * y
  OBVIOUS

LEMMA Products ==
  ASSUME NEW x \in Nat, NEW y \in Nat PROVE x * y \in Nat
  OBVIOUS

(* Rounding: a whole number around which the fraction lies.                *)
LEMMA Round ==
  ASSUME NEW n \in Int, NEW d \in Nat \ {0}
  PROVE  /\ Rounded(n, d) \in Int
         /\ 2 * (d * Rounded(n, d)) <= 2 * n + d
         /\ 2 * n + d < 2 * (d * Rounded(n, d)) + 2 * d
  <1>. DEFINE h == d \div 2
              q == Rounded(n, d)
  <1>1. h \in Int /\ 2 * h <= d /\ d < 2 * h + 2
    OBVIOUS
  <1>2. q \in Int /\ d * q <= n + h /\ n + h < d * q + d
    <2>. HIDE DEF h
    <2>1. n + h \in Int
      BY <1>1
    <2>. QED  BY <2>1, Quotient DEF Rounded, h
  <1>3. PICK p \in Int : p = d * q
    BY <1>2
  <1>. HIDE DEF h, q
  <1>4. p <= n + h /\ n + h < p + d
    BY <1>2, <1>3
  <1>5. 2 * p <= 2 * n + d /\ 2 * n + d < 2 * p + 2 * d
    BY <1>1, <1>4
  <1>. QED  BY <1>2, <1>3, <1>5 DEF q

(* Rounding keeps the order of two amounts, ...                            *)
LEMMA RoundUp ==
  ASSUME NEW m \in Int, NEW n \in Int, NEW d \in Nat \ {0}, m <= n
  PROVE  Rounded(m, d) <= Rounded(n, d)
  <1>. DEFINE p == Rounded(m, d)
              q == Rounded(n, d)
  <1>1. /\ p \in Int /\ 2 * (d * p) <= 2 * m + d
        /\ q \in Int /\ 2 * n + d < 2 * (d * q) + 2 * d
    BY Round
  <1>. HIDE DEF p, q
  <1>2. SUFFICES ASSUME q + 1 <= p PROVE FALSE
    BY <1>1 DEF p, q
  <1>3. d * (q + 1) <= d * p
    BY <1>1, <1>2, Product
  <1>4. PICK x \in Int : x = d * q
    BY <1>1
  <1>5. d * (q + 1) = x + d
    BY <1>1, <1>4
  <1>6. PICK y \in Int : y = d * p
    BY <1>1
  <1>. QED  BY <1>1, <1>3, <1>4, <1>5, <1>6

(* ... also when it is divided by less.                                    *)
LEMMA RoundLess ==
  ASSUME NEW m \in Nat, NEW n \in Nat, NEW d \in Nat \ {0}, NEW e \in Nat \ {0}, m <= n, e <= d
  PROVE  Rounded(m, d) <= Rounded(n, e)
  <1>. DEFINE p == Rounded(m, d)
              q == Rounded(n, e)
  <1>1. /\ p \in Int /\ 2 * (d * p) <= 2 * m + d
        /\ q \in Int /\ 2 * n + e < 2 * (e * q) + 2 * e
    BY Round
  <1>. HIDE DEF p, q
  <1>2. SUFFICES ASSUME q + 1 <= p PROVE FALSE
    BY <1>1 DEF p, q
  <1>3. PICK x \in Int, y \in Int, z \in Int : x = e * q /\ y = d * p /\ z = e * p
    BY <1>1
  <1>4. x + e <= z
    <2>1. e * (q + 1) <= e * p
      BY <1>1, <1>2, Product
    <2>2. e * (q + 1) = x + e
      BY <1>1, <1>3
    <2>. QED  BY <1>3, <2>1, <2>2
  <1>5. 2 * y <= 2 * m + d /\ 2 * n + e < 2 * x + 2 * e
    BY <1>1, <1>3
  <1>6. p >= 1
    <2>1. SUFFICES ASSUME q < 0 PROVE FALSE
      BY <1>1, <1>2
    <2>2. e * q <= e * (0 - 1)
      BY <1>1, <2>1, Product
    <2>3. x <= 0 - e
      BY <1>3, <2>2
    <2>. QED  BY <1>5, <2>3
  <1>7. 2 * z - e <= 2 * y - d
    <2>1. PICK k \in Nat : k = d - e
      OBVIOUS
    <2>2. k * 1 <= k * p
      BY <1>1, <1>6, <2>1, Product
    <2>3. k * p = y - z
      BY <1>1, <1>3, <2>1
    <2>. QED  BY <1>3, <2>1, <2>2, <2>3
  <1>. QED  BY <1>3, <1>4, <1>5, <1>7

(* A fraction of at least k rounds to at least k.                          *)
LEMMA RoundAtLeast ==
  ASSUME NEW n \in Int, NEW d \in Nat \ {0}, NEW k \in Int, d * k <= n
  PROVE  Rounded(n, d) >= k
  <1>. DEFINE q == Rounded(n, d)
  <1>1. q \in Int /\ 2 * n + d < 2 * (d * q) + 2 * d
    BY Round
  <1>. HIDE DEF q
  <1>2. SUFFICES ASSUME q + 1 <= k PROVE FALSE
    BY <1>1 DEF q
  <1>3. PICK x \in Int, y \in Int : x = d * q /\ y = d * k
    BY <1>1
  <1>4. x + d <= y
    <2>1. d * (q + 1) <= d * k
      BY <1>1, <1>2, Product
    <2>2. d * (q + 1) = x + d
      BY <1>1, <1>3
    <2>. QED  BY <1>3, <2>1, <2>2
  <1>. QED  BY <1>1, <1>3, <1>4

LEMMA RoundIsNat ==
  ASSUME NEW n \in Nat, NEW d \in Nat \ {0}
  PROVE  Rounded(n, d) \in Nat
  BY Round, RoundAtLeast

-----------------------------------------------------------------------------
(* The financial engine                                                    *)

Typed(a) ==
  /\ DOMAIN a = {"savings", "salary", "budget", "currency", "dependents", "lifestyle",
                 "months", "place"}
  /\ a.savings \in Nat \cup {Blank} /\ a.salary \in Nat \cup {Blank}
  /\ a.budget \in Nat \cup {Blank} /\ a.currency \in DOMAIN RateToUsd
  /\ a.dependents \in 0 .. 10 /\ a.lifestyle \in DOMAIN LifestyleTwentieths
  /\ a.months \in 1 .. 24

(* An amount stays an amount, and what was left open stays open.           *)
LEMMA InDollars ==
  ASSUME NEW x \in Nat \cup {Blank}, NEW c \in DOMAIN RateToUsd
  PROVE  /\ ToUsd(x, c) \in Nat \cup {Blank}
         /\ ToUsd(x, c) = Blank <=> x = Blank
         /\ OrZero(ToUsd(x, c)) \in Nat
         /\ ToUsd(x, c) # Blank => OrZero(ToUsd(x, c)) = ToUsd(x, c)
         /\ x = Blank => OrZero(ToUsd(x, c)) = 0
  <1>1. RateToUsd[c] \in Nat
    BY DEF RateToUsd
  <1>2. CASE x = Blank
    BY <1>2 DEF ToUsd, OrZero, Blank
  <1>3. CASE x \in Nat
    <2>1. x * RateToUsd[c] \in Nat
      BY <1>1, <1>3, Products
    <2>2. Rounded(x * RateToUsd[c], 1000) \in Nat
      BY <2>1, RoundIsNat
    <2>. QED  BY <1>3, <2>2 DEF ToUsd, OrZero, Blank
  <1>. QED  BY <1>2, <1>3

(* What a month costs.                                                     *)
LEMMA NeedIs ==
  ASSUME NEW a, Typed(a), NEW base \in Nat
  PROVE  /\ MonthlyEstimate(a, base) \in Nat /\ Need(a, base) \in Nat
         /\ LET budget == OrZero(ToUsd(a.budget, a.currency))
            IN Need(a, base) = IF MonthlyEstimate(a, base) >= budget
                               THEN MonthlyEstimate(a, base) ELSE budget
  <1>1. LifestyleTwentieths[a.lifestyle] \in Nat /\ 4 + a.dependents \in Nat
    BY DEF Typed, LifestyleTwentieths
  <1>2. base * LifestyleTwentieths[a.lifestyle] \in Nat
    BY <1>1, Products
  <1>3. base * LifestyleTwentieths[a.lifestyle] * (4 + a.dependents) \in Nat
    BY <1>1, <1>2, Products
  <1>4. MonthlyEstimate(a, base) \in Nat
    BY <1>3, RoundIsNat DEF MonthlyEstimate
  <1>5. OrZero(ToUsd(a.budget, a.currency)) \in Nat
    BY InDollars DEF Typed
  <1>. QED  BY <1>4, <1>5, Greater DEF Need

(* A safer move costs no more at the same prices.                          *)
LEMMA NeedsLess ==
  ASSUME NEW a, NEW b, Typed(a), Typed(b), Safer(a, b), NEW base \in Nat
  PROVE  Need(b, base) <= Need(a, base)
  <1>. DEFINE l(x) == LifestyleTwentieths[x.lifestyle]
  <1>1. PICK k \in Nat, m \in Nat, i \in Nat, j \in Nat :
          k = l(b) /\ m = l(a) /\ i = 4 + b.dependents /\ j = 4 + a.dependents
    <2>1. l(b) \in Nat /\ l(a) \in Nat
      BY DEF Typed, LifestyleTwentieths
    <2>2. 4 + b.dependents \in Nat /\ 4 + a.dependents \in Nat
      BY DEF Typed
    <2>. HIDE DEF l
    <2>. QED  BY <2>1, <2>2
  <1>2. k <= m /\ i <= j
    BY <1>1 DEF Safer, Cheaper, Typed
  <1>3. base * k \in Nat /\ base * m \in Nat /\ base * k <= base * m
    BY <1>2, Product, Products
  <1>4. PICK x \in Nat, y \in Nat : x = base * k /\ y = base * m
    BY <1>3
  <1>5. x * i \in Nat /\ x * j \in Nat /\ y * j \in Nat
    BY Products
  <1>6. x * i <= y * j
    <2>1. x * i <= x * j
      BY <1>2, Product
    <2>2. j * x <= j * y
      BY <1>3, <1>4, Product
    <2>. QED  BY <1>5, <2>1, <2>2
  <1>7. MonthlyEstimate(b, base) <= MonthlyEstimate(a, base)
    <2>1. Rounded(x * i, 80) <= Rounded(y * j, 80)
      BY <1>5, <1>6, RoundUp
    <2>. QED  BY <1>1, <1>4, <2>1 DEF MonthlyEstimate
  <1>8. OrZero(ToUsd(b.budget, b.currency)) <= OrZero(ToUsd(a.budget, a.currency))
    BY DEF Safer
  <1>9. /\ OrZero(ToUsd(a.budget, a.currency)) \in Nat
        /\ OrZero(ToUsd(b.budget, b.currency)) \in Nat
    BY InDollars DEF Typed
  <1>. HIDE DEF l
  <1>. QED  BY <1>7, <1>8, <1>9, NeedIs

(* Which rules fire.                                                       *)
LEMMA Triggered ==
  ASSUME NEW a, NEW base, NEW rules, rules = TriggeredRules(a, base)
  PROVE  LET runway == Runway(a, base)
             salary == ToUsd(a.salary, a.currency)
         IN /\ "NO_SAVINGS" \in rules <=> OrZero(ToUsd(a.savings, a.currency)) = 0
            /\ "BELOW_THREE" \in rules <=> runway # Blank /\ runway < 30
            /\ "THREE_TO_SIX" \in rules <=> runway # Blank /\ runway >= 30 /\ runway < 60
            /\ "SALARY_COVERS" \in rules <=> SalaryCovers(salary, Need(a, base))
            /\ "NO_SALARY" \in rules <=> salary = Blank
            /\ "DEPENDENTS" \in rules <=> a.dependents > 0
  BY DEF TriggeredRules

(* The runway of savings: none where nothing is needed.                    *)
LEMMA RunwayIs ==
  ASSUME NEW a, Typed(a), NEW base \in Nat
  PROVE  /\ Runway(a, base) \in Nat \cup {Blank}
         /\ Runway(a, base) # Blank <=> a.savings # Blank /\ Need(a, base) # 0
  <1>1. CASE a.savings = Blank \/ Need(a, base) = 0
    BY <1>1 DEF Runway
  <1>2. CASE a.savings # Blank /\ Need(a, base) # 0
    <2>1. Need(a, base) \in Nat \ {0}
      BY <1>2, NeedIs
    <2>2. ToUsd(a.savings, a.currency) \in Nat
      BY <1>2, InDollars DEF Typed
    <2>3. Rounded(10 * ToUsd(a.savings, a.currency), Need(a, base)) \in Nat
      BY <2>1, <2>2, RoundIsNat
    <2>. QED  BY <1>2, <2>3 DEF Runway, Blank
  <1>. QED  BY <1>1, <1>2

(* Savings that are recommended last for six months.                       *)
LEMMA RecommendedLasts ==
  ASSUME NEW a, Typed(a), NEW base \in Nat,
         OrZero(ToUsd(a.savings, a.currency)) > 0,
         ToUsd(a.savings, a.currency) >= Recommended(a, base)
  PROVE  TriggeredRules(a, base) \cap {"NO_SAVINGS", "BELOW_THREE", "THREE_TO_SIX"} = {}
  <1>1. "NO_SAVINGS" \notin TriggeredRules(a, base)
    BY Triggered, InDollars DEF Typed
  <1>2. CASE Runway(a, base) = Blank
    BY <1>1, <1>2, Triggered
  <1>3. CASE Runway(a, base) # Blank
    <2>1. a.savings # Blank /\ Need(a, base) \in Nat \ {0}
      BY <1>3, RunwayIs, NeedIs
    <2>2. PICK n \in Nat \ {0}, x \in Nat, k \in Nat :
            /\ n = Need(a, base) /\ x = ToUsd(a.savings, a.currency)
            /\ k = Max({a.months, MinimumRunwayMonths}) /\ k >= 6
      <3>1. ToUsd(a.savings, a.currency) \in Nat
        BY <2>1, InDollars DEF Typed
      <3>2. Max({a.months, 6}) = IF a.months >= 6 THEN a.months ELSE 6
        BY Greater DEF Typed
      <3>. QED  BY <2>1, <3>1, <3>2 DEF Typed, MinimumRunwayMonths
    <2>3. n * k <= x
      BY <2>2 DEF Recommended
    <2>4. n * 6 <= n * k
      BY <2>2, Product
    <2>5. n * 60 <= 10 * x
      <3>1. PICK y \in Int : y = n * k
        OBVIOUS
      <3>. QED  BY <2>3, <2>4, <3>1
    <2>6. Rounded(10 * x, n) >= 60
      BY <2>5, RoundAtLeast
    <2>7. Runway(a, base) >= 60
      BY <2>1, <2>2, <2>6 DEF Runway
    <2>8. Runway(a, base) \in Nat
      BY <1>3, RunwayIs
    <2>. QED  BY <1>1, <2>7, <2>8, Triggered
  <1>. QED  BY <1>2, <1>3

(* From a safer move to a level: what the rules start from, ...            *)
LEMMA StartsNoHigher ==
  ASSUME NEW a, NEW b, Typed(a), Typed(b), Safer(a, b), NEW base \in Nat
  PROVE  StartScore(TriggeredRules(b, base)) <= StartScore(TriggeredRules(a, base))
  <1>. DEFINE A == TriggeredRules(a, base)
              B == TriggeredRules(b, base)
              x == OrZero(ToUsd(a.savings, a.currency))
              y == OrZero(ToUsd(b.savings, b.currency))
  <1>1. x \in Nat /\ y \in Nat /\ x <= y
    BY InDollars DEF Typed, Safer
  <1>2. "NO_SAVINGS" \in A <=> x = 0
    BY Triggered
  <1>3. "NO_SAVINGS" \in B <=> y = 0
    BY Triggered
  <1>4. CASE x = 0
    <2>. HIDE DEF A, B
    <2>. QED  BY <1>2, <1>4 DEF StartScore, A, B
  <1>5. CASE x # 0 /\ Runway(b, base) = Blank
    <2>1. "NO_SAVINGS" \notin B /\ "BELOW_THREE" \notin B /\ "THREE_TO_SIX" \notin B
      BY <1>1, <1>3, <1>5, Triggered
    <2>. HIDE DEF A, B
    <2>. QED  BY <2>1 DEF StartScore, A, B
  <1>6. CASE x # 0 /\ Runway(b, base) # Blank
    <2>1. /\ a.savings # Blank /\ b.savings # Blank
          /\ Need(b, base) \in Nat \ {0} /\ Need(a, base) \in Nat \ {0}
          /\ Need(b, base) <= Need(a, base)
      <3>1. a.savings # Blank
        BY <1>6, InDollars DEF Typed
      <3>2. b.savings # Blank /\ Need(b, base) # 0
        BY <1>6, RunwayIs
      <3>3. Need(b, base) \in Nat /\ Need(a, base) \in Nat
        BY NeedIs
      <3>4. Need(b, base) <= Need(a, base)
        BY NeedsLess
      <3>. QED  BY <3>1, <3>2, <3>3, <3>4
    <2>2. x = ToUsd(a.savings, a.currency) /\ y = ToUsd(b.savings, b.currency)
      BY <2>1, InDollars DEF Typed
    <2>3. Runway(a, base) = Rounded(10 * x, Need(a, base))
      BY <2>1, <2>2 DEF Runway
    <2>4. Runway(b, base) = Rounded(10 * y, Need(b, base))
      BY <2>1, <2>2 DEF Runway
    <2>. HIDE DEF x, y
    <2>5. Runway(a, base) <= Runway(b, base)
      <3>1. 10 * x \in Nat /\ 10 * y \in Nat /\ 10 * x <= 10 * y
        BY <1>1
      <3>. QED  BY <2>1, <2>3, <2>4, <3>1, RoundLess
    <2>6. PICK m \in Nat, n \in Nat : m = Runway(a, base) /\ n = Runway(b, base)
      <3>1. 10 * x \in Nat /\ 10 * y \in Nat
        BY <1>1
      <3>. QED  BY <2>1, <2>3, <2>4, <3>1, RoundIsNat
    <2>7. /\ "BELOW_THREE" \in A <=> m < 30
          /\ "THREE_TO_SIX" \in A <=> m >= 30 /\ m < 60
          /\ "BELOW_THREE" \in B <=> n < 30
          /\ "THREE_TO_SIX" \in B <=> n >= 30 /\ n < 60
      BY <2>6, Triggered DEF Blank
    <2>8. "NO_SAVINGS" \notin B /\ m <= n
      BY <1>1, <1>3, <1>6, <2>5, <2>6
    <2>. HIDE DEF A, B
    <2>. QED  BY <2>7, <2>8 DEF StartScore, A, B
  <1>. QED  BY <1>4, <1>5, <1>6

(* ... and what they add.                                                  *)
LEMMA ShiftsNoHigher ==
  ASSUME NEW a, NEW b, Typed(a), Typed(b), Safer(a, b), NEW base \in Nat
  PROVE  /\ ScoreShift(TriggeredRules(b, base)) <= ScoreShift(TriggeredRules(a, base))
         /\ ScoreShift(TriggeredRules(a, base)) \in Int /\ ScoreShift(TriggeredRules(b, base)) \in Int
  <1>. DEFINE A == TriggeredRules(a, base)
              B == TriggeredRules(b, base)
  <1>1. "NO_SALARY" \in B => "NO_SALARY" \in A
    BY Triggered, InDollars DEF Safer, Typed
  <1>2. "DEPENDENTS" \in B => "DEPENDENTS" \in A
    BY Triggered DEF Safer, Typed
  <1>3. "SALARY_COVERS" \in A => "SALARY_COVERS" \in B
    <2>. DEFINE x == ToUsd(a.salary, a.currency)
                y == ToUsd(b.salary, b.currency)
    <2>1. SUFFICES ASSUME SalaryCovers(x, Need(a, base)) PROVE SalaryCovers(y, Need(b, base))
      BY Triggered
    <2>2. x # Blank /\ y # Blank
      BY <2>1, InDollars DEF SalaryCovers, Safer, Typed
    <2>3. x \in Nat /\ y \in Nat /\ x <= y
      BY <2>2, InDollars DEF Safer, Typed
    <2>4. Need(b, base) <= Need(a, base) /\ Need(b, base) \in Nat /\ Need(a, base) \in Nat
      BY NeedsLess, NeedIs
    <2>. HIDE DEF x, y
    <2>. QED  BY <2>1, <2>2, <2>3, <2>4 DEF SalaryCovers
  <1>. HIDE DEF A, B
  <1>4. \A rules : ScoreShift(rules) = (Count("NO_SALARY", rules) + Count("DEPENDENTS", rules))
                                         - Count("SALARY_COVERS", rules)
    <2>. SUFFICES ASSUME NEW rules
                  PROVE  ScoreShift(rules) = (Count("NO_SALARY", rules) + Count("DEPENDENTS", rules))
                                               - Count("SALARY_COVERS", rules)
      OBVIOUS
    <2>1. Cardinality(rules \cap {"SALARY_COVERS"}) = Count("SALARY_COVERS", rules)
      BY One
    <2>2. Cardinality(rules \cap {"NO_SALARY", "DEPENDENTS"}) =
            Count("NO_SALARY", rules) + Count("DEPENDENTS", rules)
      BY Two
    <2>3. /\ ScoreShift(rules) = Cardinality(rules \cap {"NO_SALARY", "DEPENDENTS"})
                                 - Cardinality(rules \cap {"SALARY_COVERS"})
      BY DEF ScoreShift
    <2>. QED  BY <2>1, <2>2, <2>3, Zenon
  <1>5. \A r, rules : Count(r, rules) \in 0 .. 1
    BY DEF Count
  <1>6. /\ Count("NO_SALARY", B) <= Count("NO_SALARY", A)
        /\ Count("DEPENDENTS", B) <= Count("DEPENDENTS", A)
        /\ Count("SALARY_COVERS", A) <= Count("SALARY_COVERS", B)
    BY <1>1, <1>2, <1>3 DEF Count
  <1>. QED  BY <1>4, <1>5, <1>6 DEF A, B

LEMMA LevelOf ==
  ASSUME NEW rules
  PROVE  RiskScore(rules) = Clamp(StartScore(rules) + ScoreShift(rules)) /\ RiskScore(rules) \in 1 .. 3
  <1>1. StartScore(rules) \in Int
    BY DEF StartScore
  <1>2. ScoreShift(rules) \in Int
    BY One, Two DEF ScoreShift, Count
  <1>3. PICK n \in Int : n = StartScore(rules) + ScoreShift(rules)
    BY <1>1, <1>2
  <1>. QED  BY <1>3, Clamped DEF RiskScore

LEMMA SaferRisks ==
  ASSUME NEW a, NEW b, Typed(a), Typed(b), Safer(a, b), NEW base \in Nat
  PROVE  RiskScore(TriggeredRules(b, base)) <= RiskScore(TriggeredRules(a, base))
  <1>. DEFINE n(x) == StartScore(TriggeredRules(x, base)) + ScoreShift(TriggeredRules(x, base))
  <1>1. \A rules : StartScore(rules) \in Int
    BY DEF StartScore
  <1>2. n(b) <= n(a) /\ n(a) \in Int /\ n(b) \in Int
    BY <1>1, StartsNoHigher, ShiftsNoHigher
  <1>3. /\ RiskScore(TriggeredRules(b, base)) = Clamp(n(b))
        /\ RiskScore(TriggeredRules(a, base)) = Clamp(n(a))
    BY LevelOf
  <1>. HIDE DEF n
  <1>. QED  BY <1>2, <1>3 DEF Clamp

-----------------------------------------------------------------------------
(* The sums of prices                                                      *)

(* A set of numbers has a least one.                                       *)
LEMMA LeastIs ==
  ASSUME NEW T, T \subseteq Nat, T # {}
  PROVE  \E n \in T : \A m \in T : n <= m
  <1>. DEFINE R == OpToRel(<, Nat)
  <1>1. IsWellFoundedOn(R, Nat)
    BY NatLessThanWellFounded
  <1>2. R = {p \in Nat \X Nat : p[1] < p[2]}
    BY DEF OpToRel
  <1>. HIDE DEF R
  <1>3. PICK n \in T : \A m \in T : ~ (<<m, n>> \in R)
    BY <1>1, WFMin
  <1>4. \A m \in T : <<m, n>> \in Nat \X Nat /\ <<m, n>>[1] = m /\ <<m, n>>[2] = n
    OBVIOUS
  <1>5. \A m \in T : ~ (m < n)
    BY <1>2, <1>3, <1>4
  <1>. QED  BY <1>5

(* The sum over a set, as its recursive function computes it: an element,  *)
(* and the sum over the others.                                            *)
Element(s) == CHOOSE x \in s : TRUE
Term(s, v, g) == IF s = {} THEN 0 ELSE v[Element(s)] + g[s \ {Element(s)}]
Terms(S, v, g) == [s \in SUBSET S |-> Term(s, v, g)]

LEMMA ElementIs ==
  ASSUME NEW S, IsFiniteSet(S), NEW s \in SUBSET S, s # {}
  PROVE  /\ Element(s) \in s /\ s \ {Element(s)} \in SUBSET S
         /\ Cardinality(s) \in Nat \ {0} /\ Cardinality(s \ {Element(s)}) = Cardinality(s) - 1
  <1>1. Element(s) \in s
    BY DEF Element
  <1>2. IsFiniteSet(s)
    BY FS_Subset
  <1>3. Cardinality(s) \in Nat /\ Cardinality(s) # 0
    BY <1>2, FS_CardinalityType, FS_EmptySet
  <1>4. Cardinality(s \ {Element(s)}) = Cardinality(s) - 1
    BY <1>1, <1>2, FS_RemoveElement
  <1>. QED  BY <1>1, <1>3, <1>4

(* There is such a function: a first size at which there were none would   *)
(* have one, made from that of the size before.                            *)
LEMMA TermsExist ==
  ASSUME NEW S, IsFiniteSet(S), NEW v
  PROVE  \E g : g = Terms(S, v, g)
  <1>. DEFINE D(n) == {s \in SUBSET S : Cardinality(s) <= n}
              Fixed(n, g) == g = [s \in D(n) |-> Term(s, v, g)]
              Bad == {n \in Nat : ~ \E g : Fixed(n, g)}
  <1>1. \A s \in SUBSET S : Cardinality(s) \in Nat /\ Cardinality(s) <= Cardinality(S)
    BY FS_Subset, FS_CardinalityType
  <1>2. Cardinality(S) \in Nat /\ D(Cardinality(S)) = SUBSET S
    BY <1>1, FS_CardinalityType
  <1>3. Bad = {}
    <2>. SUFFICES ASSUME Bad # {} PROVE FALSE
      OBVIOUS
    <2>1. PICK n \in Bad : \A m \in Bad : n <= m
      <3>. HIDE DEF Bad
      <3>1. Bad \subseteq Nat
        BY DEF Bad
      <3>. QED  BY <3>1, LeastIs
    <2>2. n \in Nat /\ ~ \E g : Fixed(n, g)
      OBVIOUS
    <2>3. CASE n = 0
      <3>1. \A s \in D(0) : s = {}
        BY <1>1, FS_EmptySet, FS_Subset
      <3>. DEFINE g == [s \in D(0) |-> 0]
      <3>2. \A s \in D(0) : Term(s, v, g) = 0
        BY <3>1 DEF Term
      <3>. HIDE DEF D
      <3>3. Fixed(0, g)
        BY <3>2
      <3>. QED  BY <2>2, <2>3, <3>3
    <2>4. CASE n # 0
      <3>1. n - 1 \in Nat /\ ~ (n <= n - 1)
        BY <2>2, <2>4
      <3>2. n - 1 \notin Bad
        BY <2>1, <3>1
      <3>3. PICK g : Fixed(n - 1, g)
        BY <3>1, <3>2
      <3>. DEFINE h == [s \in D(n) |-> Term(s, v, g)]
      <3>4. \A s \in D(n - 1) : s \in D(n) /\ g[s] = Term(s, v, g)
        <4>1. \A s \in D(n - 1) : g[s] = Term(s, v, g)
          <5>. HIDE DEF D
          <5>. QED  BY <3>3
        <4>. QED  BY <1>1, <2>2, <4>1
      <3>5. \A s \in D(n) : s # {} => s \ {Element(s)} \in D(n - 1)
        BY <1>1, <2>2, ElementIs
      <3>. HIDE DEF D
      <3>6. \A s \in D(n - 1) : h[s] = g[s]
        BY <3>4
      <3>. HIDE DEF h
      <3>7. \A s \in D(n) : Term(s, v, g) = Term(s, v, h)
        BY <3>5, <3>6 DEF Term
      <3>8. Fixed(n, h)
        BY <3>7 DEF h
      <3>. QED  BY <2>2, <3>8
    <2>. QED  BY <2>3, <2>4
  <1>4. PICK g : Fixed(Cardinality(S), g)
    BY <1>2, <1>3
  <1>5. g = Terms(S, v, g)
    BY <1>2, <1>4 DEF Terms
  <1>. QED  BY <1>5

(* A sum of amounts is one, and not less than any of them.                 *)
LEMMA TermsAre ==
  ASSUME NEW S, IsFiniteSet(S), NEW v, \A x \in S : v[x] \in Nat, NEW g, g = Terms(S, v, g)
  PROVE  g[S] \in Nat /\ \A x \in S : v[x] <= g[S]
  <1>. DEFINE Good(s) == g[s] \in Nat /\ \A x \in s : v[x] <= g[s]
              Bad == {Cardinality(s) : s \in {t \in SUBSET S : ~ Good(t)}}
  <1>1. \A s \in SUBSET S : Cardinality(s) \in Nat
    BY FS_Subset, FS_CardinalityType
  <1>2. \A s \in SUBSET S : g[s] = Term(s, v, g)
    BY DEF Terms
  <1>3. Bad = {}
    <2>. SUFFICES ASSUME Bad # {} PROVE FALSE
      OBVIOUS
    <2>1. PICK n \in Bad : \A m \in Bad : n <= m
      <3>1. Bad \subseteq Nat
        BY <1>1
      <3>. HIDE DEF Bad
      <3>. QED  BY <3>1, LeastIs
    <2>2. PICK s \in SUBSET S : ~ Good(s) /\ n = Cardinality(s)
      BY <2>1
    <2>3. s # {}
      <3>1. s = {} => g[s] = 0
        BY <1>2 DEF Term
      <3>. QED  BY <2>2, <3>1
    <2>. DEFINE t == s \ {Element(s)}
    <2>4. Element(s) \in s /\ t \in SUBSET S /\ n \in Nat /\ Cardinality(t) = n - 1
      BY <2>2, <2>3, ElementIs
    <2>5. Good(t)
      <3>1. Good(t) \/ Cardinality(t) \in Bad
        <4>. HIDE DEF Good, t
        <4>. QED  BY <2>4
      <3>. HIDE DEF Good, Bad, t
      <3>2. Cardinality(t) \notin Bad
        BY <2>1, <2>4
      <3>. QED  BY <3>1, <3>2
    <2>6. g[s] = v[Element(s)] + g[t]
      BY <1>2, <2>3 DEF Term
    <2>7. v[Element(s)] \in Nat
      BY <2>4
    <2>8. PICK a \in Nat, b \in Nat : a = v[Element(s)] /\ b = g[t]
      BY <2>5, <2>7
    <2>9. g[s] \in Nat /\ v[Element(s)] <= g[s] /\ g[t] <= g[s]
      BY <2>6, <2>8
    <2>10. ASSUME NEW x \in s, x # Element(s) PROVE v[x] <= g[s]
      <3>1. x \in t /\ v[x] \in Nat
        BY <2>10
      <3>. HIDE DEF t
      <3>2. v[x] <= g[t]
        BY <2>5, <3>1
      <3>. QED  BY <2>8, <2>9, <3>1, <3>2
    <2>. QED  BY <2>2, <2>9, <2>10
  <1>4. Good(S)
    <2>1. S \in SUBSET S
      OBVIOUS
    <2>. HIDE DEF Good
    <2>. QED  BY <1>3, <2>1
  <1>. QED  BY <1>4

(* The sums of the model are such sums.                                    *)
LEMMA PricesSum ==
  ASSUME NEW S, IsFiniteSet(S), \A r \in S : r.usd \in Nat
  PROVE  MapThenSumSet(LAMBDA r : r.usd, S) \in Nat
  <1>. DEFINE v == [r \in S |-> r.usd]
              F(g) == [s \in SUBSET S |-> IF s = {} THEN 0 ELSE Element(s).usd + g[s \ {Element(s)}]]
  <1>1. MapThenSumSet(LAMBDA r : r.usd, S) = (CHOOSE g : g = F(g))[S]
    BY DEF MapThenSumSet, MapThenFoldSet, Element
  <1>2. ASSUME NEW g PROVE F(g) = Terms(S, v, g)
    <2>1. \A s \in SUBSET S : s # {} => v[Element(s)] = Element(s).usd
      BY ElementIs
    <2>. HIDE DEF v
    <2>. QED  BY <2>1 DEF Terms, Term
  <1>. HIDE DEF F
  <1>3. \E g : g = F(g)
    BY <1>2, TermsExist
  <1>4. PICK g : g = (CHOOSE h : h = F(h)) /\ g = F(g)
    BY <1>3
  <1>5. g = Terms(S, v, g) /\ \A x \in S : v[x] \in Nat
    BY <1>2, <1>4
  <1>. HIDE DEF v
  <1>6. g[S] \in Nat
    BY <1>5, TermsAre
  <1>. QED  BY <1>1, <1>4, <1>6

LEMMA FourAreFinite ==
  ASSUME NEW a, NEW b, NEW c, NEW d
  PROVE  IsFiniteSet({a, b, c, d})
  <1>1. PICK S, T : S = {a} \cup {b} /\ T = {c} \cup {d}
    OBVIOUS
  <1>2. IsFiniteSet(S) /\ IsFiniteSet(T)
    BY <1>1, FS_Singleton, FS_Union
  <1>3. IsFiniteSet(S \cup T)
    BY <1>2, FS_Union
  <1>4. S \cup T = {a, b, c, d}
    BY <1>1
  <1>. QED  BY <1>3, <1>4, Zenon

LEMMA Categories == IsFiniteSet(Category)
  BY FourAreFinite DEF Category

IndexTotal(d) == MapThenSumSet(LAMBDA k : d.index[k], Category)

LEMMA IndexSum ==
  ASSUME NEW d, d.index \in [Category -> Nat], \E c \in Category : d.index[c] # 0
  PROVE  IndexTotal(d) \in Nat \ {0}
  <1>. DEFINE v == d.index
              F(g) == [s \in SUBSET Category |->
                         IF s = {} THEN 0 ELSE d.index[Element(s)] + g[s \ {Element(s)}]]
  <1>1. IndexTotal(d) = (CHOOSE g : g = F(g))[Category]
    BY DEF IndexTotal, MapThenSumSet, MapThenFoldSet, Element
  <1>2. \A g : F(g) = Terms(Category, v, g)
    BY DEF Terms, Term
  <1>. HIDE DEF F
  <1>3. IsFiniteSet(Category)
    BY Categories
  <1>4. \E g : g = F(g)
    BY <1>2, <1>3, TermsExist
  <1>5. PICK g : g = (CHOOSE h : h = F(h)) /\ g = F(g)
    BY <1>4
  <1>6. g = Terms(Category, v, g) /\ \A x \in Category : v[x] \in Nat
    BY <1>2, <1>5
  <1>. HIDE DEF v
  <1>7. g[Category] \in Nat /\ \A x \in Category : v[x] <= g[Category]
    BY <1>3, <1>6, TermsAre
  <1>8. \E c \in Category : v[c] \in Nat /\ v[c] # 0
    BY <1>6 DEF v
  <1>9. g[Category] # 0
    BY <1>7, <1>8
  <1>. QED  BY <1>1, <1>5, <1>7, <1>9

(* Prices come to an amount.                                               *)
LEMMA AverageIs ==
  ASSUME NEW rows, IsFiniteSet(rows), \A r \in rows : r.usd \in Nat, NEW c
  PROVE  Average(rows, c) \in Nat
  <1>. DEFINE of == {r \in rows : r.category = c}
  <1>1. IsFiniteSet(of) /\ \A r \in of : r.usd \in Nat
    <2>1. of \subseteq rows
      OBVIOUS
    <2>. QED  BY <2>1, FS_Subset
  <1>2. Average(rows, c) = IF of = {} THEN 0
                           ELSE Rounded(MapThenSumSet(LAMBDA r : r.usd, of), Cardinality(of))
    BY DEF Average
  <1>. HIDE DEF of
  <1>3. Cardinality(of) \in Nat /\ (of # {} => Cardinality(of) # 0)
    BY <1>1, FS_CardinalityType, FS_EmptySet
  <1>4. PICK n \in Nat : n = MapThenSumSet(LAMBDA r : r.usd, of)
    BY <1>1, PricesSum
  <1>. QED  BY <1>2, <1>3, <1>4, RoundIsNat

LEMMA TotalIs ==
  ASSUME NEW rows, IsFiniteSet(rows), \A r \in rows : r.usd \in Nat
  PROVE  Total(rows) \in Nat
  <1>. DEFINE v == [c \in Category |-> Average(rows, c)]
              F(g) == [s \in SUBSET Category |->
                         IF s = {} THEN 0 ELSE Average(rows, Element(s)) + g[s \ {Element(s)}]]
  <1>1. Total(rows) = (CHOOSE g : g = F(g))[Category]
    BY DEF Total, MapThenSumSet, MapThenFoldSet, Element
  <1>2. IsFiniteSet(Category)
    BY Categories
  <1>3. ASSUME NEW g PROVE F(g) = Terms(Category, v, g)
    <2>1. \A s \in SUBSET Category : s # {} => v[Element(s)] = Average(rows, Element(s))
      BY <1>2, ElementIs
    <2>. HIDE DEF v
    <2>. QED  BY <2>1 DEF Terms, Term
  <1>. HIDE DEF F
  <1>4. \E g : g = F(g)
    BY <1>2, <1>3, TermsExist
  <1>5. PICK g : g = (CHOOSE h : h = F(h)) /\ g = F(g)
    BY <1>4
  <1>6. g = Terms(Category, v, g) /\ \A x \in Category : v[x] \in Nat
    BY <1>3, <1>5, AverageIs
  <1>. HIDE DEF v
  <1>7. g[Category] \in Nat
    BY <1>2, <1>6, TermsAre
  <1>. QED  BY <1>1, <1>5, <1>7

LEMMA SharesAre ==
  ASSUME NEW i, Known(i), NEW c \in Category
  PROVE  100 * Share(Data(i), c) \in Nat
  <1>1. PICK d : d = Data(i)
    OBVIOUS
  <1>2. /\ d.monthly \in Nat /\ d.index \in [Category -> Nat]
        /\ \E k \in Category : d.index[k] # 0
    BY <1>1, FinancialAssumption DEF Data, Known
  <1>3. PICK sum \in Nat \ {0} : sum = IndexTotal(d)
    BY <1>2, IndexSum
  <1>4. d.index[c] * d.monthly \in Nat
    BY <1>2, Products
  <1>5. Share(d, c) = Rounded(d.index[c] * d.monthly, sum)
    BY <1>3 DEF Share, IndexTotal
  <1>6. Share(d, c) \in Nat
    BY <1>3, <1>4, <1>5, RoundIsNat
  <1>. QED  BY <1>1, <1>6, Products

LEMMA NewRowsAre ==
  ASSUME NEW i, Known(i)
  PROVE  IsFiniteSet(NewRows(i)) /\ \A r \in NewRows(i) : r.category \in Category /\ r.usd \in Nat
  <1>. DEFINE row(c) == [country |-> Data(i).name, city |-> City(i), category |-> c,
                         usd |-> 100 * Share(Data(i), c)]
  <1>1. NewRows(i) = {row(c) : c \in Category}
    BY DEF NewRows
  <1>2. \A c \in Category : row(c).category = c /\ row(c).usd \in Nat
    BY SharesAre
  <1>3. NewRows(i) = {row("RENT"), row("FOOD"), row("UTILITIES"), row("TRANSPORT")}
    BY <1>1 DEF Category
  <1>. HIDE DEF row
  <1>4. IsFiniteSet({row("RENT"), row("FOOD"), row("UTILITIES"), row("TRANSPORT")})
    BY FourAreFinite
  <1>5. IsFiniteSet(NewRows(i))
    BY <1>3, <1>4, Zenon
  <1>. QED  BY <1>1, <1>2, <1>5

-----------------------------------------------------------------------------
(* The evaluations, beside the synchronisation of prices                   *)

FinancialInv ==
  /\ finScenario \in FinScenarios
  /\ Typed(answers)
  /\ asking.at # "idle" => Typed(asking.answers) /\ DOMAIN asking = {"at", "answers"}
  /\ report # NoReport => /\ Typed(report.answers)
                          /\ report = Evaluation(report.answers, report.source, report.base)
  /\ report # NoReport => report.base \in Nat
  /\ IsFiniteSet(costs)
  /\ \A r \in costs : r.category \in Category /\ r.usd \in Nat

(* Only what may be sent for a field is ever there.                        *)
EnteredInv ==
  /\ finScenario \in FinScenarios
  /\ \A f \in finScenario.fields : answers[f] \in Values[f] \cup {FirstAnswers[f]}

(* A synchronisation counts every city once, and says how it ended.        *)
ColSyncInv ==
  /\ colSync \in {NoSync} \cup [at : Nat, attempt : 1 .. MaxAttempts, updated : Nat,
                                skipped : Nat, errors : Nat]
  /\ colSync # NoSync => /\ colSync.updated + colSync.skipped = colSync.at - 1
                         /\ colSync.errors <= colSync.skipped
  /\ lastRun \in {None, "failed", "partial", "success"}

(* Answers that are sent are of the kind that is accepted.                 *)
LEMMA SentIsTyped ==
  ASSUME NEW a, Typed(a), NEW s \in FinScenarios, NEW f \in s.fields, NEW v \in Values[f]
  PROVE  Typed([a EXCEPT ![f] = v])
  <1>1. f \in DOMAIN AcceptedAnswers => v \in AcceptedAnswers[f]
    <2>1. f \in DOMAIN Values
      BY FinancialAssumption
    <2>2. f = "place" => f \notin DOMAIN AcceptedAnswers
      BY DEF AcceptedAnswers
    <2>. QED  BY <2>1, <2>2, FinancialAssumption
  <1>2. DOMAIN AcceptedAnswers = {"savings", "salary", "budget", "currency", "dependents",
                                  "lifestyle", "months"}
    BY DEF AcceptedAnswers
  <1>. DEFINE b == [a EXCEPT ![f] = v]
  <1>3. DOMAIN b = DOMAIN a /\ \A g \in DOMAIN a : b[g] = IF g = f THEN v ELSE a[g]
    OBVIOUS
  <1>. HIDE DEF b
  <1>4. /\ f = "savings" => v \in Nat \cup {Blank}
        /\ f = "salary" => v \in Nat \cup {Blank}
        /\ f = "budget" => v \in Nat \cup {Blank}
        /\ f = "currency" => v \in DOMAIN RateToUsd
        /\ f = "dependents" => v \in 0 .. 10
        /\ f = "lifestyle" => v \in DOMAIN LifestyleTwentieths
        /\ f = "months" => v \in 1 .. 24
    BY <1>1, <1>2 DEF AcceptedAnswers
  <1>. QED  BY <1>3, <1>4 DEF Typed, b

LEMMA FirstIsTyped == Typed(FirstAnswers)
  BY DEF Typed, FirstAnswers, RateToUsd, LifestyleTwentieths, Blank

(* An evaluation is of what it was asked for, at the prices it found.      *)
LEMMA ReadPricesKeeps ==
  ASSUME FinancialInv, NEW at, at # "idle", NEW found \in SUBSET costs,
         NEW next, next # "idle", ReadPrices(at, found, next)
  PROVE  FinancialInv'
  <1>1. Typed(asking.answers) /\ DOMAIN asking = {"at", "answers"}
    BY DEF FinancialInv, ReadPrices
  <1>2. finScenario' = finScenario /\ answers' = answers /\ costs' = costs
    BY DEF ReadPrices
  <1>3. CASE report' = Evaluation(asking.answers, at, Total(found)) /\ asking' = NoAsk
    <2>1. PICK base \in Nat : base = Total(found)
      <3>1. IsFiniteSet(found) /\ \A r \in found : r.usd \in Nat
        BY FS_Subset DEF FinancialInv
      <3>. QED  BY <3>1, TotalIs
    <2>2. report'.answers = asking.answers /\ report'.source = at /\ report'.base = base
      BY <1>3, <2>1 DEF Evaluation
    <2>3. report' = Evaluation(report'.answers, report'.source, report'.base)
      BY <1>3, <2>1, <2>2
    <2>4. asking'.at = "idle"
      BY <1>3 DEF NoAsk
    <2>. QED  BY <1>1, <1>2, <2>1, <2>2, <2>3, <2>4 DEF FinancialInv, NoReport
  <1>4. CASE asking' = [asking EXCEPT !.at = next] /\ report' = report
    <2>1. asking'.answers = asking.answers /\ DOMAIN asking' = {"at", "answers"}
      BY <1>1, <1>4
    <2>. QED  BY <1>1, <1>2, <1>4, <2>1 DEF FinancialInv, NoReport
  <1>. QED  BY <1>3, <1>4 DEF ReadPrices

(* What the synchronisation writes are amounts of the categories there are. *)
LEMMA ReplacedIsWhole ==
  ASSUME NEW i, Known(i), NEW c \in Replaced(i), FinancialInv
  PROVE  /\ IsFiniteSet(c) /\ \A r \in c : r.category \in Category /\ r.usd \in Nat
         /\ \A r \in costs : \E q \in c : q.city = r.city /\ q.category = r.category
  <1>1. c = {r \in costs : r.city # City(i)} \cup NewRows(i)
    BY DEF Replaced
  <1>2. IsFiniteSet(costs) /\ \A r \in costs : r.category \in Category /\ r.usd \in Nat
    BY DEF FinancialInv
  <1>3. \A q \in NewRows(i) : q.city = City(i)
    BY DEF NewRows
  <1>4. \A k \in Category : \E q \in NewRows(i) : q.category = k /\ q.city = City(i)
    <2>. SUFFICES ASSUME NEW k \in Category
                  PROVE  \E q \in NewRows(i) : q.category = k /\ q.city = City(i)
      OBVIOUS
    <2>. DEFINE q == [country |-> Data(i).name, city |-> City(i), category |-> k,
                      usd |-> 100 * Share(Data(i), k)]
    <2>1. q \in NewRows(i)
      BY DEF NewRows
    <2>2. q.category = k /\ q.city = City(i)
      OBVIOUS
    <2>. HIDE DEF q
    <2>. QED  BY <2>1, <2>2
  <1>5. IsFiniteSet(NewRows(i)) /\ \A q \in NewRows(i) : q.category \in Category /\ q.usd \in Nat
    BY NewRowsAre
  <1>6. IsFiniteSet(c)
    <2>1. {r \in costs : r.city # City(i)} \in SUBSET costs
      OBVIOUS
    <2>2. IsFiniteSet({r \in costs : r.city # City(i)})
      BY <1>2, <2>1, FS_Subset
    <2>. QED  BY <1>1, <1>5, <2>2, FS_Union
  <1>7. \A r \in c : r.category \in Category /\ r.usd \in Nat
    BY <1>1, <1>2, <1>5
  <1>8. \A r \in costs : \E q \in c : q.city = r.city /\ q.category = r.category
    BY <1>1, <1>2, <1>4
  <1>. QED  BY <1>6, <1>7, <1>8

LEMMA FinancialKeeps ==
  ASSUME FinancialInv, [FinancialNext]_financialVars
  PROVE  /\ FinancialInv'
         /\ \A r \in costs : \E q \in costs' : q.city = r.city /\ q.category = r.category
  <1>1. CASE SaveAnswers
    <2>1. PICK f \in finScenario.fields : \E v \in Values[f] : answers' = [answers EXCEPT ![f] = v]
      BY <1>1 DEF SaveAnswers
    <2>2. PICK v \in Values[f] : answers' = [answers EXCEPT ![f] = v]
      BY <2>1
    <2>3. Typed(answers')
      BY <2>2, SentIsTyped DEF FinancialInv
    <2>. QED  BY <1>1, <2>3 DEF SaveAnswers, FinancialInv, NoReport, Typed
  <1>2. CASE Evaluate
    <2>1. asking'.answers = answers /\ DOMAIN asking' = {"at", "answers"}
      BY <1>2 DEF Evaluate
    <2>. QED  BY <1>2, <2>1 DEF Evaluate, FinancialInv, NoReport
  <1>3. CASE ReadCity
    BY <1>3, ReadPricesKeeps DEF ReadCity, ReadPrices
  <1>4. CASE ReadCountry
    BY <1>4, ReadPricesKeeps DEF ReadCountry, ReadPrices
  <1>5. CASE ReadGlobal
    BY <1>5, ReadPricesKeeps DEF ReadGlobal, ReadPrices, None
  <1>6. CASE UNCHANGED <<finScenario, answers, costs, asking, report>>
    BY <1>6 DEF FinancialInv, NoReport
  <1>7. CASE SyncCity \/ FailCity
    <2>1. UNCHANGED <<finScenario, answers, asking, report>>
      BY <1>7 DEF SyncCity, FailCity
    <2>2. Known(colSync.at) /\ (costs' = costs \/ costs' \in Replaced(colSync.at))
      BY <1>7 DEF SyncCity, FailCity
    <2>3. /\ IsFiniteSet(costs') /\ \A r \in costs' : r.category \in Category /\ r.usd \in Nat
          /\ \A r \in costs : \E q \in costs' : q.city = r.city /\ q.category = r.category
      BY <2>2, ReplacedIsWhole DEF FinancialInv
    <2>. QED  BY <2>1, <2>3 DEF FinancialInv, NoReport
  <1>8. RefreshAll \/ StartColSync \/ SkipCity \/ FinishColSync \/ UNCHANGED financialVars =>
          UNCHANGED <<finScenario, answers, costs, asking, report>>
    BY DEF RefreshAll, StartColSync, SkipCity, FinishColSync, financialVars
  <1>. QED
    BY <1>1, <1>2, <1>3, <1>4, <1>5, <1>6, <1>7, <1>8 DEF FinancialNext

LEMMA EnteredKeeps ==
  ASSUME FinancialInv, EnteredInv, [FinancialNext]_financialVars
  PROVE  EnteredInv'
  <1>1. CASE SaveAnswers
    <2>1. PICK f \in finScenario.fields : \E v \in Values[f] : answers' = [answers EXCEPT ![f] = v]
      BY <1>1 DEF SaveAnswers
    <2>2. PICK v \in Values[f] : answers' = [answers EXCEPT ![f] = v]
      BY <2>1
    <2>3. f \in DOMAIN answers
      <3>1. f \in DOMAIN AcceptedAnswers \cup {"place"}
        BY FinancialAssumption DEF EnteredInv
      <3>. QED  BY <3>1 DEF AcceptedAnswers, FinancialInv, Typed
    <2>4. \A g : answers'[g] = (IF g = f THEN v ELSE answers[g]) \/ g \notin DOMAIN answers
      BY <2>2, <2>3
    <2>5. \A g \in finScenario.fields : g \in DOMAIN answers
      <3>1. \A g \in finScenario.fields : g \in DOMAIN AcceptedAnswers \cup {"place"}
        BY FinancialAssumption DEF EnteredInv
      <3>. QED  BY <3>1 DEF AcceptedAnswers, FinancialInv, Typed
    <2>. QED  BY <1>1, <2>4, <2>5 DEF SaveAnswers, EnteredInv
  <1>2. [FinancialNext]_financialVars => SaveAnswers \/ UNCHANGED <<finScenario, answers>>
    BY DEF FinancialNext, financialVars, Evaluate, ReadCity, ReadCountry, ReadGlobal, ReadPrices,
           RefreshAll, StartColSync, SkipCity, SyncCity, FailCity, FinishColSync
  <1>. QED  BY <1>1, <1>2 DEF EnteredInv

LEMMA ColSyncKeeps ==
  ASSUME ColSyncInv, [FinancialNext]_financialVars
  PROVE  ColSyncInv'
  <1>. DEFINE Sync == [at : Nat, attempt : 1 .. MaxAttempts, updated : Nat, skipped : Nat, errors : Nat]
              Counted(c) == c.updated + c.skipped = c.at - 1 /\ c.errors <= c.skipped
  <1>1. CASE StartColSync
    <2>. DEFINE c == [at |-> 1, attempt |-> 1, updated |-> 0, skipped |-> 0, errors |-> 0]
    <2>1. c \in Sync /\ Counted(c)
      BY DEF MaxAttempts
    <2>2. (colSync' = c /\ lastRun' = lastRun) \/ (colSync' = colSync /\ lastRun' = "failed")
      BY <1>1 DEF StartColSync
    <2>. HIDE DEF c
    <2>. QED  BY <2>1, <2>2 DEF ColSyncInv
  <1>2. CASE SkipCity \/ SyncCity \/ FailCity
    <2>1. PICK c \in Sync : c = colSync /\ Counted(c)
      BY <1>2 DEF ColSyncInv, SkipCity, SyncCity, FailCity, Running
    <2>2. lastRun' = lastRun
      BY <1>2 DEF SkipCity, SyncCity, FailCity
    <2>3. \/ colSync' = [c EXCEPT !.skipped = @ + 1, !.at = @ + 1, !.attempt = 1]
          \/ colSync' = [c EXCEPT !.updated = @ + 1, !.at = @ + 1, !.attempt = 1]
          \/ colSync' = [c EXCEPT !.skipped = @ + 1, !.errors = @ + 1, !.at = @ + 1, !.attempt = 1]
          \/ c.attempt < MaxAttempts /\ colSync' = [c EXCEPT !.attempt = @ + 1]
      BY <1>2, <2>1 DEF SkipCity, SyncCity, FailCity, Onwards
    <2>4. PICK n \in Nat, k \in 1 .. MaxAttempts, u \in Nat, d \in Nat, e \in Nat :
            /\ c = [at |-> n, attempt |-> k, updated |-> u, skipped |-> d, errors |-> e]
            /\ u + d = n - 1 /\ e <= d
      BY <2>1
    <2>. DEFINE r(x, y, z, v, w) == [at |-> x, attempt |-> y, updated |-> z, skipped |-> v, errors |-> w]
    <2>5. \/ colSync' = r(n + 1, 1, u, d + 1, e) \/ colSync' = r(n + 1, 1, u + 1, d, e)
          \/ colSync' = r(n + 1, 1, u, d + 1, e + 1)
          \/ k < MaxAttempts /\ colSync' = r(n, k + 1, u, d, e)
      BY <2>3, <2>4
    <2>6. 1 \in 1 .. MaxAttempts /\ (k < MaxAttempts => k + 1 \in 1 .. MaxAttempts)
      BY DEF MaxAttempts
    <2>7. \A x \in Nat, y \in 1 .. MaxAttempts, z \in Nat, v \in Nat, w \in Nat :
            z + v = x - 1 /\ w <= v => r(x, y, z, v, w) \in Sync /\ Counted(r(x, y, z, v, w))
      OBVIOUS
    <2>. HIDE DEF r, Sync, Counted
    <2>8. colSync' \in Sync /\ Counted(colSync')
      BY <2>4, <2>5, <2>6, <2>7
    <2>. USE DEF Sync, Counted
    <2>. QED  BY <2>2, <2>8 DEF ColSyncInv
  <1>3. CASE FinishColSync
    BY <1>3 DEF FinishColSync, ColSyncInv
  <1>4. [FinancialNext]_financialVars =>
          StartColSync \/ SkipCity \/ SyncCity \/ FailCity \/ FinishColSync
            \/ UNCHANGED <<colSync, lastRun>>
    BY DEF FinancialNext, financialVars, SaveAnswers, Evaluate, ReadCity, ReadCountry, ReadGlobal,
           ReadPrices, RefreshAll
  <1>. QED  BY <1>1, <1>2, <1>3, <1>4 DEF ColSyncInv

(* Answers stay of the kind the API accepts, prices stay amounts of the    *)
(* categories there are, and a report is what the engine makes of its      *)
(* answers and of a sum of prices, which is an amount.                     *)
THEOREM FinancialInvariant == FinancialSpec => []FinancialInv
  <1>1. FinancialInit => FinancialInv
    BY FirstIsTyped, FinancialAssumption DEF FinancialInit, FinancialInv, NoAsk
  <1>2. FinancialInv /\ [FinancialNext]_financialVars => FinancialInv'
    BY FinancialKeeps
  <1>. QED  BY <1>1, <1>2, PTL DEF FinancialSpec

(* The type invariant of the financial engine and of the synchronisation   *)
(* of prices, with its sums: the counters of a run, the risk's range, and  *)
(* that the prices of a month come to an amount.                           *)
THEOREM FinancialTypes == FinancialSpec => []FinancialTypeOK
  <1>1. FinancialInit => FinancialInv /\ EnteredInv /\ ColSyncInv
    <2>1. FinancialInit => FinancialInv
      BY FirstIsTyped, FinancialAssumption DEF FinancialInit, FinancialInv, NoAsk
    <2>. QED  BY <2>1 DEF FinancialInit, EnteredInv, ColSyncInv
  <1>2. FinancialInv /\ EnteredInv /\ ColSyncInv /\ [FinancialNext]_financialVars =>
          FinancialInv' /\ EnteredInv' /\ ColSyncInv'
    BY FinancialKeeps, EnteredKeeps, ColSyncKeeps
  <1>3. FinancialInv /\ EnteredInv /\ ColSyncInv => FinancialTypeOK
    <2>. SUFFICES ASSUME FinancialInv, EnteredInv, ColSyncInv PROVE FinancialTypeOK
      OBVIOUS
    <2>1. report # NoReport => report.risk \in 1 .. 3
      <3>1. report # NoReport =>
              report.risk = RiskScore(TriggeredRules(report.answers, report.base))
        BY DEF FinancialInv, Evaluation
      <3>. QED  BY <3>1, LevelOf
    <2>2. BaseIsAmount
      BY DEF BaseIsAmount, FinancialInv
    <2>3. colSync # NoSync => colSync.attempt \in 1 .. MaxAttempts
      BY DEF ColSyncInv
    <2>. QED  BY <2>1, <2>2, <2>3 DEF FinancialTypeOK, FinancialInv, EnteredInv, ColSyncInv
  <1>. QED  BY <1>1, <1>2, <1>3, PTL DEF FinancialSpec

(* For any seed, cities and source: neither a step of the synchronisation, *)
(* nor one that fails or is tried again, takes a price away from a city    *)
(* that has one (ColSyncService.sync).                                     *)
THEOREM PricesStay == FinancialSpec => CityKeepsItsPrices
  <1>1. FinancialInv /\ [FinancialNext]_financialVars =>
          [\A r \in costs : \E q \in costs' : q.city = r.city /\ q.category = r.category]_costs
    BY FinancialKeeps
  <1>. QED  BY <1>1, FinancialInvariant, PTL DEF FinancialSpec, CityKeepsItsPrices

(* Savings that reach what a report recommends are never warned of, for    *)
(* any answers and any prices (FinancialReadiness).                        *)
THEOREM SavingsSuffice == FinancialSpec => []RecommendedSavingsSuffice
  <1>1. FinancialInv => RecommendedSavingsSuffice
    <2>. SUFFICES ASSUME FinancialInv, report # NoReport,
                         OrZero(ToUsd(report.answers.savings, report.answers.currency)) > 0,
                         ToUsd(report.answers.savings, report.answers.currency) >= report.recommended
                  PROVE  report.rules \cap {"NO_SAVINGS", "BELOW_THREE", "THREE_TO_SIX"} = {}
      BY DEF RecommendedSavingsSuffice
    <2>1. PICK base \in Nat : base = report.base
      BY DEF FinancialInv
    <2>2. PICK a : a = report.answers /\ Typed(a)
      BY DEF FinancialInv
    <2>3. report.recommended = Recommended(a, base) /\ report.rules = TriggeredRules(a, base)
      BY <2>1, <2>2 DEF FinancialInv, Evaluation
    <2>. QED  BY <2>1, <2>2, <2>3, RecommendedLasts
  <1>. QED  BY <1>1, FinancialInvariant, PTL

(* ... and safer finances are never judged riskier at the same prices,     *)
(* whatever rules fire together (resolveRiskLevel).                        *)
THEOREM SaferIsNoRiskier == FinancialSpec => [][SaferFinancesAreNoRiskier]_report
  <1>1. ASSUME FinancialInv, FinancialInv', [FinancialNext]_financialVars
        PROVE  [SaferFinancesAreNoRiskier]_report
    <2>. SUFFICES ASSUME report # NoReport, report' # report, report'.base = report.base,
                         Safer(report.answers, report'.answers)
                  PROVE  report'.risk <= report.risk
      BY DEF SaferFinancesAreNoRiskier
    <2>1. report' # NoReport
      <3>1. PICK at, base : report' = Evaluation(asking.answers, at, base)
        <4>1. ReadCity \/ ReadCountry \/ ReadGlobal
          BY <1>1 DEF FinancialNext, SaveAnswers, Evaluate, RefreshAll, StartColSync, SkipCity,
                      SyncCity, FailCity, FinishColSync, financialVars
        <4>. QED  BY <4>1 DEF ReadCity, ReadCountry, ReadGlobal, ReadPrices
      <3>2. "base" \in DOMAIN report' /\ "base" \notin DOMAIN NoReport
        BY <3>1 DEF Evaluation, NoReport
      <3>. QED  BY <3>2
    <2>2. PICK base \in Nat : base = report.base /\ base = report'.base
      BY <1>1 DEF FinancialInv
    <2>3. PICK a : a = report.answers /\ Typed(a)
      BY <1>1 DEF FinancialInv
    <2>4. PICK b : b = report'.answers /\ Typed(b)
      BY <1>1, <2>1 DEF FinancialInv, NoReport
    <2>5. report.risk = RiskScore(TriggeredRules(a, base))
      BY <1>1, <2>2, <2>3 DEF FinancialInv, Evaluation
    <2>6. report'.risk = RiskScore(TriggeredRules(b, base))
      <3>1. report' = Evaluation(b, report'.source, base)
        BY <1>1, <2>1, <2>2, <2>4 DEF FinancialInv, NoReport
      <3>. QED  BY <3>1 DEF Evaluation
    <2>. QED  BY <2>2, <2>3, <2>4, <2>5, <2>6, SaferRisks
  <1>. QED  BY <1>1, FinancialInvariant, PTL DEF FinancialSpec

-----------------------------------------------------------------------------
(* Lists: what a filter, a flattening and a search leave of one            *)

(* A value that is made of the one before it, step by step.                *)
Steps(N, a, step, h) == [n \in 0 .. N |-> IF n = 0 THEN a ELSE step[n][h[n - 1]]]

LEMMA StepsExist ==
  ASSUME NEW N \in Nat, NEW X, NEW a \in X, NEW step \in [1 .. N -> [X -> X]]
  PROVE  \E h \in [0 .. N -> X] : h = Steps(N, a, step, h)
  <1>. DEFINE Fixed(n, h) == h \in [0 .. n -> X] /\ h = Steps(n, a, step, h)
              Bad == {n \in 0 .. N : ~ \E h : Fixed(n, h)}
  <1>1. Bad = {}
    <2>. SUFFICES ASSUME Bad # {} PROVE FALSE
      OBVIOUS
    <2>1. PICK n \in Bad : \A m \in Bad : n <= m
      <3>. HIDE DEF Bad
      <3>1. Bad \subseteq Nat
        BY DEF Bad
      <3>. QED  BY <3>1, LeastIs
    <2>2. n \in 0 .. N /\ ~ \E h : Fixed(n, h)
      OBVIOUS
    <2>3. CASE n = 0
      <3>. DEFINE h == [k \in 0 .. 0 |-> a]
      <3>1. Fixed(0, h)
        BY DEF Steps
      <3>. QED  BY <2>2, <2>3, <3>1
    <2>4. CASE n # 0
      <3>1. n - 1 \in 0 .. N /\ ~ (n <= n - 1)
        BY <2>2, <2>4
      <3>2. PICK g : Fixed(n - 1, g)
        BY <2>1, <3>1
      <3>. DEFINE h == [k \in 0 .. n |-> IF k = n THEN step[n][g[n - 1]] ELSE g[k]]
      <3>3. step[n][g[n - 1]] \in X
        BY <2>2, <2>4, <3>1, <3>2
      <3>4. h \in [0 .. n -> X]
        BY <2>2, <3>2, <3>3
      <3>5. \A k \in 0 .. n - 1 : g[k] = IF k = 0 THEN a ELSE step[k][g[k - 1]]
        BY <3>2 DEF Steps
      <3>6. \A k \in 0 .. n : h[k] = IF k = 0 THEN a ELSE step[k][h[k - 1]]
        BY <2>2, <2>4, <3>5
      <3>7. Fixed(n, h)
        <4>. HIDE DEF h
        <4>. QED  BY <2>2, <3>4, <3>6 DEF Steps
      <3>. QED  BY <2>2, <3>7
    <2>. QED  BY <2>3, <2>4
  <1>2. N \in 0 .. N
    OBVIOUS
  <1>3. \E h : Fixed(N, h)
    BY <1>1, <1>2
  <1>. QED  BY <1>3

(* What is picked of a list comes from the positions, each once, in order. *)
From(p, s, S, f) ==
  /\ f \in [1 .. Len(p) -> S]
  /\ \A k \in 1 .. Len(p) : p[k] = s[f[k]]
  /\ \A k, l \in 1 .. Len(p) : k < l => f[k] < f[l]
  /\ \A i \in S : \E k \in 1 .. Len(p) : f[k] = i

LEMMA FromMore ==
  ASSUME NEW T, NEW p \in Seq(T), NEW s \in Seq(T), NEW n \in 1 .. Len(s), NEW S,
         NEW f, From(p, s, S \cap (1 .. n - 1), f), n \in S
  PROVE  \E g : From(Append(p, s[n]), s, S \cap (1 .. n), g)
  <1>. DEFINE q == Append(p, s[n])
              g == [k \in 1 .. Len(q) |-> IF k = Len(q) THEN n ELSE f[k]]
              A == S \cap (1 .. n - 1)
              B == S \cap (1 .. n)
  <1>1. n \in Nat /\ s[n] \in T /\ Len(p) \in Nat
    BY LenProperties
  <1>2. Len(q) = Len(p) + 1 /\ q[Len(q)] = s[n] /\ \A k \in 1 .. Len(p) : q[k] = p[k]
    BY <1>1
  <1>3. \A i : i \in B <=> i \in A \/ i = n
    BY <1>1
  <1>4. \A i \in A : i \in Nat /\ i < n
    BY <1>1
  <1>5. /\ \A k \in 1 .. Len(p) : f[k] \in A /\ p[k] = s[f[k]]
        /\ \A k, l \in 1 .. Len(p) : k < l => f[k] < f[l]
        /\ \A i \in A : \E k \in 1 .. Len(p) : f[k] = i
    BY DEF From
  <1>. HIDE DEF A, B, q
  <1>6. \A k \in 1 .. Len(q) : k = Len(q) \/ k \in 1 .. Len(p)
    BY <1>1, <1>2
  <1>7. \A k \in 1 .. Len(p) : k \in 1 .. Len(q) /\ k # Len(q) /\ g[k] = f[k]
    BY <1>1, <1>2
  <1>8. Len(q) \in 1 .. Len(q) /\ g[Len(q)] = n
    BY <1>1, <1>2
  <1>9. DOMAIN g = 1 .. Len(q)
    OBVIOUS
  <1>. HIDE DEF g
  <1>10. \A k \in 1 .. Len(q) : g[k] \in B /\ q[k] = s[g[k]]
    BY <1>2, <1>3, <1>5, <1>6, <1>7, <1>8
  <1>11. g \in [1 .. Len(q) -> B]
    <2>1. g = [k \in 1 .. Len(q) |-> g[k]]
      BY <1>9 DEF g
    <2>. QED  BY <1>10, <2>1
  <1>12. ASSUME NEW k \in 1 .. Len(q), NEW l \in 1 .. Len(q), k < l PROVE g[k] < g[l]
    <2>1. k \in 1 .. Len(p)
      BY <1>1, <1>2, <1>12
    <2>2. CASE l = Len(q)
      BY <1>4, <1>5, <1>7, <1>8, <2>1, <2>2
    <2>3. CASE l \in 1 .. Len(p)
      BY <1>5, <1>7, <1>12, <2>1, <2>3
    <2>. QED  BY <1>6, <2>2, <2>3
  <1>13. \A i \in B : \E k \in 1 .. Len(q) : g[k] = i
    BY <1>3, <1>5, <1>7, <1>8
  <1>14. From(q, s, B, g)
    BY <1>10, <1>11, <1>12, <1>13 DEF From
  <1>. QED  BY <1>14 DEF q, B

LEMMA PickedIs ==
  ASSUME NEW T, NEW s \in Seq(T), NEW S
  PROVE  Picked(s, S) \in Seq(T) /\ \E f : From(Picked(s, S), s, S \cap DOMAIN s, f)
  <1>. DEFINE F(g) == [n \in 0 .. Len(s) |->
                         IF n = 0 THEN <<>>
                         ELSE IF n \in S THEN Append(g[n - 1], s[n]) ELSE g[n - 1]]
              step == [n \in 1 .. Len(s) |->
                         [p \in Seq(T) |-> IF n \in S THEN Append(p, s[n]) ELSE p]]
  <1>1. Len(s) \in Nat /\ DOMAIN s = 1 .. Len(s) /\ \A n \in 1 .. Len(s) : s[n] \in T
    BY LenProperties
  <1>2. step \in [1 .. Len(s) -> [Seq(T) -> Seq(T)]]
    BY <1>1
  <1>3. <<>> \in Seq(T)
    OBVIOUS
  <1>4. PICK h \in [0 .. Len(s) -> Seq(T)] : h = Steps(Len(s), <<>>, step, h)
    <2>1. PICK N, X, a, p : N = Len(s) /\ X = Seq(T) /\ a = <<>> /\ p = step
      OBVIOUS
    <2>. HIDE DEF step
    <2>2. N \in Nat /\ a \in X /\ p \in [1 .. N -> [X -> X]]
      BY <1>1, <1>2, <1>3, <2>1, Zenon
    <2>3. \E h \in [0 .. N -> X] : h = Steps(N, a, p, h)
      BY <2>2, StepsExist
    <2>. QED  BY <2>1, <2>3, Zenon
  <1>5. h = F(h)
    <2>1. \A n \in 1 .. Len(s) : h[n - 1] \in Seq(T)
      BY <1>1
    <2>2. \A n \in 1 .. Len(s) : step[n][h[n - 1]] = IF n \in S THEN Append(h[n - 1], s[n]) ELSE h[n - 1]
      BY <2>1
    <2>. HIDE DEF step
    <2>. QED  BY <1>1, <1>4, <2>2, SMTT(60) DEF Steps
  <1>6. Picked(s, S) = (CHOOSE g : g = F(g))[Len(s)]
    BY DEF Picked
  <1>7. PICK u : u = (CHOOSE g : g = F(g)) /\ u = F(u)
    <2>. HIDE DEF F
    <2>. QED  BY <1>5
  <1>8. u[0] = <<>> /\ \A n \in 1 .. Len(s) : u[n] = IF n \in S THEN Append(u[n - 1], s[n]) ELSE u[n - 1]
    <2>1. \A n \in 0 .. Len(s) :
            u[n] = IF n = 0 THEN <<>> ELSE IF n \in S THEN Append(u[n - 1], s[n]) ELSE u[n - 1]
      BY <1>7, Zenon
    <2>2. 0 \in 0 .. Len(s) /\ \A n \in 1 .. Len(s) : n \in 0 .. Len(s) /\ n # 0
      BY <1>1
    <2>. QED  BY <2>1, <2>2, Zenon
  <1>. HIDE DEF F, step
  <1>. DEFINE Good(n) == u[n] \in Seq(T) /\ \E f : From(u[n], s, S \cap (1 .. n), f)
              Bad == {n \in 0 .. Len(s) : ~ Good(n)}
  <1>9. Bad = {}
    <2>. SUFFICES ASSUME Bad # {} PROVE FALSE
      OBVIOUS
    <2>1. PICK n \in Bad : \A m \in Bad : n <= m
      <3>. HIDE DEF Bad
      <3>1. Bad \subseteq Nat
        BY DEF Bad
      <3>. QED  BY <3>1, LeastIs
    <2>2. n \in 0 .. Len(s) /\ ~ Good(n)
      OBVIOUS
    <2>3. n # 0
      <3>. DEFINE f == [k \in 1 .. 0 |-> 0]
      <3>1. From(<<>>, s, S \cap (1 .. 0), f)
        <4>1. S \cap (1 .. 0) = {} /\ Len(<<>>) = 0 /\ 1 .. 0 = {}
          OBVIOUS
        <4>. QED  BY <4>1 DEF From
      <3>2. u[0] \in Seq(T) /\ \E g : From(u[0], s, S \cap (1 .. 0), g)
        <4>. HIDE DEF f
        <4>. QED  BY <1>3, <1>8, <3>1, Zenon
      <3>. QED  BY <2>2, <3>2, Zenon
    <2>4. n \in 1 .. Len(s) /\ n - 1 \in 0 .. Len(s) /\ ~ (n <= n - 1)
      BY <1>1, <2>2, <2>3
    <2>5. Good(n - 1)
      <3>. HIDE DEF Good
      <3>. QED  BY <2>1, <2>4
    <2>6. PICK f : From(u[n - 1], s, S \cap (1 .. n - 1), f)
      BY <2>5
    <2>7. CASE n \in S
      <3>1. u[n] = Append(u[n - 1], s[n]) /\ u[n - 1] \in Seq(T) /\ s[n] \in T
        BY <1>1, <1>8, <2>4, <2>5, <2>7
      <3>2. \E g : From(u[n], s, S \cap (1 .. n), g)
        BY <2>4, <2>6, <2>7, <3>1, FromMore
      <3>3. u[n] \in Seq(T)
        BY <3>1
      <3>. QED  BY <2>2, <3>2, <3>3
    <2>8. CASE n \notin S
      <3>1. u[n] = u[n - 1]
        BY <1>8, <2>4, <2>8
      <3>2. S \cap (1 .. n) = S \cap (1 .. n - 1)
        BY <1>1, <2>4, <2>8
      <3>. QED  BY <2>2, <2>5, <3>1, <3>2
    <2>. QED  BY <2>7, <2>8
  <1>10. Good(Len(s))
    <2>1. Len(s) \in 0 .. Len(s)
      BY <1>1
    <2>. HIDE DEF Good
    <2>. QED  BY <1>9, <2>1
  <1>. QED  BY <1>1, <1>6, <1>7, <1>10

(* What filter keeps is what stands at the positions kept.                 *)
LEMMA PickedRange ==
  ASSUME NEW T, NEW s \in Seq(T), NEW S, S \subseteq DOMAIN s, NEW p, NEW f, From(p, s, S, f), DOMAIN p = 1 .. Len(p)
  PROVE  ToSet(p) = {s[i] : i \in S}
  <1>1. ASSUME NEW k \in DOMAIN p PROVE p[k] \in {s[i] : i \in S}
    <2>1. p[k] = s[f[k]] /\ f[k] \in S
      BY DEF From
    <2>. QED  BY <2>1
  <1>2. ASSUME NEW i \in S PROVE s[i] \in ToSet(p)
    <2>1. PICK k \in 1 .. Len(p) : f[k] = i
      BY DEF From
    <2>2. p[k] = s[f[k]]
      BY DEF From
    <2>. QED  BY <2>1, <2>2 DEF ToSet
  <1>. QED  BY <1>1, <1>2 DEF ToSet

(* What is in two lists that are joined.                                   *)
LEMMA Concatenated ==
  ASSUME NEW T, NEW s \in Seq(T), NEW t \in Seq(T)
  PROVE  s \o t \in Seq(T) /\ ToSet(s \o t) = ToSet(s) \cup ToSet(t)
  <1>1. PICK u \in Nat, v \in Nat : Len(s) = u /\ DOMAIN s = 1 .. u /\ Len(t) = v /\ DOMAIN t = 1 .. v
    BY LenProperties
  <1>2. PICK c \in Seq(T) : /\ c = s \o t /\ DOMAIN c = 1 .. u + v
                            /\ \A i \in 1 .. u + v : c[i] = IF i <= u THEN s[i] ELSE t[i - u]
    <2>1. PICK c \in Seq(T) : c = s \o t
      BY ConcatProperties
    <2>2. Len(c) = Len(s) + Len(t) /\ \A i \in 1 .. Len(s) + Len(t) : c[i] = IF i <= Len(s) THEN s[i] ELSE t[i - Len(s)]
      BY <2>1, ConcatProperties, Zenon
    <2>3. DOMAIN c = 1 .. Len(c)
      BY LenProperties
    <2>. QED  BY <1>1, <2>1, <2>2, <2>3
  <1>3. ASSUME NEW i \in DOMAIN c PROVE c[i] \in ToSet(s) \cup ToSet(t)
    <2>1. CASE i <= u
      <3>1. i \in DOMAIN s /\ c[i] = s[i]
        BY <1>1, <1>2, <2>1
      <3>. QED  BY <3>1 DEF ToSet
    <2>2. CASE ~ (i <= u)
      <3>1. i - u \in DOMAIN t /\ c[i] = t[i - u]
        BY <1>1, <1>2, <2>2
      <3>. QED  BY <3>1 DEF ToSet
    <2>. QED  BY <2>1, <2>2
  <1>4. \A k \in DOMAIN s : k \in DOMAIN c /\ c[k] = s[k]
    BY <1>1, <1>2
  <1>5. \A k \in DOMAIN t : k + u \in DOMAIN c /\ c[k + u] = t[k]
    BY <1>1, <1>2
  <1>6. \A x \in ToSet(c) : x \in ToSet(s) \cup ToSet(t)
    BY <1>3 DEF ToSet
  <1>7. ToSet(s) \subseteq ToSet(c)
    BY <1>4 DEF ToSet
  <1>8. ToSet(t) \subseteq ToSet(c)
    BY <1>5 DEF ToSet
  <1>. QED  BY <1>2, <1>6, <1>7, <1>8

(* A list of lists in one holds what they hold.                            *)
LEMMA FlatIs ==
  ASSUME NEW T, NEW s \in Seq(Seq(T))
  PROVE  /\ FlattenSeq(s) \in Seq(T)
         /\ \A i \in DOMAIN s : ToSet(s[i]) \subseteq ToSet(FlattenSeq(s))
  <1>. DEFINE F(g) == [i \in 1 .. Len(s) |-> IF i = 1 THEN s[i] ELSE g[i - 1] \o s[i]]
              step == [n \in 1 .. Len(s) |-> [p \in Seq(T) |-> p \o s[n]]]
  <1>1. Len(s) \in Nat /\ \A n \in 1 .. Len(s) : s[n] \in Seq(T)
    BY LenProperties
  <1>2. step \in [1 .. Len(s) -> [Seq(T) -> Seq(T)]]
    <2>1. \A n \in 1 .. Len(s), p \in Seq(T) : p \o s[n] \in Seq(T)
      BY <1>1
    <2>. QED  BY <2>1
  <1>3. PICK h \in [0 .. Len(s) -> Seq(T)] : h = Steps(Len(s), <<>>, step, h)
    <2>1. PICK N, X, a, p : N = Len(s) /\ X = Seq(T) /\ a = <<>> /\ p = step
      OBVIOUS
    <2>. HIDE DEF step
    <2>2. N \in Nat /\ a \in X /\ p \in [1 .. N -> [X -> X]]
      <3>1. <<>> \in Seq(T)
        OBVIOUS
      <3>. QED  BY <1>1, <1>2, <2>1, <3>1, Zenon
    <2>3. \E h \in [0 .. N -> X] : h = Steps(N, a, p, h)
      BY <2>2, StepsExist
    <2>. QED  BY <2>1, <2>3, Zenon
  <1>4. /\ h[0] = <<>>
        /\ \A n \in 1 .. Len(s) : n - 1 \in 0 .. Len(s) /\ n \in 0 .. Len(s) /\ h[n] = h[n - 1] \o s[n]
    <2>1. \A n \in 0 .. Len(s) : h[n] = IF n = 0 THEN <<>> ELSE step[n][h[n - 1]]
      <3>. HIDE DEF step
      <3>. QED  BY <1>3, Zenon DEF Steps
    <2>2. \A n \in 1 .. Len(s) : n - 1 \in 0 .. Len(s) /\ n \in 0 .. Len(s) /\ n # 0
      BY <1>1
    <2>3. \A n \in 1 .. Len(s) : step[n][h[n - 1]] = h[n - 1] \o s[n]
      BY <2>2
    <2>. HIDE DEF step
    <2>4. h[0] = <<>>
      BY <1>1, <2>1
    <2>. QED  BY <2>1, <2>2, <2>3, <2>4
  <1>. DEFINE g == [i \in 1 .. Len(s) |-> h[i]]
  <1>5. g = F(g)
    <2>1. ASSUME NEW i \in 1 .. Len(s) PROVE h[i] = IF i = 1 THEN s[i] ELSE g[i - 1] \o s[i]
      <3>1. CASE i = 1
        <4>1. i - 1 = 0 /\ h[i] = h[i - 1] \o s[i] /\ s[i] \in Seq(T)
          <5>1. i \in 1 .. Len(s)
            BY <2>1
          <5>2. h[i] = h[i - 1] \o s[i] /\ s[i] \in Seq(T)
            BY <1>1, <1>4, <5>1
          <5>3. i - 1 = 0
            BY <3>1
          <5>. QED  BY <5>2, <5>3
        <4>2. h[i] = <<>> \o s[i]
          BY <1>4, <4>1
        <4>3. <<>> \o s[i] = s[i]
          BY <4>1
        <4>. QED  BY <3>1, <4>2, <4>3
      <3>2. CASE i # 1
        <4>1. i - 1 \in 1 .. Len(s)
          BY <1>1, <2>1, <3>2
        <4>. QED  BY <1>4, <2>1, <3>2, <4>1
      <3>. QED  BY <3>1, <3>2
    <2>. HIDE DEF step
    <2>. QED  BY <2>1, Zenon
  <1>6. PICK u : u = (CHOOSE g_ : g_ = F(g_)) /\ u = F(u)
    <2>. HIDE DEF F, g
    <2>. QED  BY <1>5
  <1>7. \A i \in 1 .. Len(s) : u[i] = IF i = 1 THEN s[i] ELSE u[i - 1] \o s[i]
    BY <1>6, Zenon
  <1>8. FlattenSeq(s) = IF Len(s) = 0 THEN s ELSE u[Len(s)]
    BY <1>6 DEF FlattenSeq
  <1>. HIDE DEF F, step, g
  <1>. DEFINE Bad == {n \in 1 .. Len(s) :
                        ~ (u[n] \in Seq(T) /\ \A i \in 1 .. n : ToSet(s[i]) \subseteq ToSet(u[n]))}
  <1>9. Bad = {}
    <2>. SUFFICES ASSUME Bad # {} PROVE FALSE
      OBVIOUS
    <2>1. PICK n \in Bad : \A m \in Bad : n <= m
      <3>. HIDE DEF Bad
      <3>1. Bad \subseteq Nat
        BY DEF Bad
      <3>. QED  BY <3>1, LeastIs
    <2>2. n \in 1 .. Len(s) /\ s[n] \in Seq(T)
      BY <1>1
    <2>3. n # 1
      <3>. SUFFICES ASSUME n = 1 PROVE FALSE
        OBVIOUS
      <3>1. u[1] = s[1]
        BY <1>1, <1>7, <2>2
      <3>2. \A i \in 1 .. n : i = 1
        OBVIOUS
      <3>. QED  BY <2>2, <3>1, <3>2
    <2>4. n - 1 \in 1 .. Len(s) /\ ~ (n <= n - 1)
      BY <2>2, <2>3
    <2>5. PICK v \in Seq(T) : v = u[n - 1] /\ \A i \in 1 .. n - 1 : ToSet(s[i]) \subseteq ToSet(v)
      BY <2>1, <2>4
    <2>6. u[n] = v \o s[n]
      BY <1>1, <1>7, <2>2, <2>3, <2>5
    <2>7. PICK w \in Seq(T) : w = v \o s[n] /\ ToSet(w) = ToSet(v) \cup ToSet(s[n])
      <3>1. v \o s[n] \in Seq(T) /\ ToSet(v \o s[n]) = ToSet(v) \cup ToSet(s[n])
        BY <2>2, Concatenated
      <3>. QED  BY <3>1
    <2>8. \A i \in 1 .. n : i \in 1 .. n - 1 \/ i = n
      BY <2>2
    <2>9. u[n] \in Seq(T) /\ \A i \in 1 .. n : ToSet(s[i]) \subseteq ToSet(u[n])
      BY <2>5, <2>6, <2>7, <2>8
    <2>. QED  BY <2>9
  <1>10. CASE Len(s) = 0
    BY <1>1, <1>8, <1>10
  <1>11. CASE Len(s) # 0
    <2>0. Len(s) \notin Bad
      <3>. HIDE DEF Bad
      <3>. QED  BY <1>9
    <2>1. Len(s) \in 1 .. Len(s) /\ Len(s) \notin Bad /\ DOMAIN s = 1 .. Len(s)
      BY <1>1, <1>11, <2>0
    <2>2. u[Len(s)] \in Seq(T) /\ \A i \in DOMAIN s : ToSet(s[i]) \subseteq ToSet(u[Len(s)])
      BY <2>1
    <2>. QED  BY <1>8, <1>11, <2>2
  <1>. QED  BY <1>10, <1>11

(* Of the entries there are, one has the highest confidence, the first of  *)
(* those that do.                                                          *)
Before(s, j, k) ==
  s[k].confidence < s[j].confidence \/ (s[k].confidence = s[j].confidence /\ j <= k)

LEMMA BestIs ==
  ASSUME NEW N \in Nat, NEW s, \A i \in 1 .. N : s[i].confidence \in Int,
         NEW S, S \subseteq 1 .. N, S # {}
  PROVE  \E j \in S : \A k \in S : Before(s, j, k)
  <1>. DEFINE Best(n) == (S \cap (1 .. n)) # {} =>
                           \E j \in S \cap (1 .. n) : \A k \in S \cap (1 .. n) : Before(s, j, k)
              Bad == {n \in 0 .. N : ~ Best(n)}
  <1>1. Bad = {}
    <2>. SUFFICES ASSUME Bad # {} PROVE FALSE
      OBVIOUS
    <2>1. PICK n \in Bad : \A m \in Bad : n <= m
      <3>. HIDE DEF Bad
      <3>1. Bad \subseteq Nat
        BY DEF Bad
      <3>. QED  BY <3>1, LeastIs
    <2>2. n \in 0 .. N /\ ~ Best(n)
      OBVIOUS
    <2>3. n # 0
      <3>1. S \cap (1 .. 0) = {}
        OBVIOUS
      <3>. QED  BY <2>2, <3>1
    <2>4. n \in 1 .. N /\ n - 1 \in 0 .. N /\ ~ (n <= n - 1)
      BY <2>2, <2>3
    <2>5. Best(n - 1)
      <3>. HIDE DEF Best
      <3>. QED  BY <2>1, <2>4
    <2>6. n \in S /\ \A k \in S \cap (1 .. n) : k = n \/ k \in S \cap (1 .. n - 1)
      <3>1. n \in S
        <4>1. n \notin S => S \cap (1 .. n) = S \cap (1 .. n - 1)
          <5>. HIDE DEF Best, Bad
          <5>1. n \in Int /\ 1 <= n
            BY <2>4
          <5>2. \A k : k \in 1 .. n <=> k \in 1 .. n - 1 \/ k = n
            BY <5>1
          <5>. QED  BY <5>2
        <4>. QED  BY <2>2, <2>5, <4>1
      <3>. QED  BY <2>4, <3>1
    <2>7. Before(s, n, n)
      BY <2>4 DEF Before
    <2>8. CASE S \cap (1 .. n - 1) = {}
      <3>1. \A k \in S \cap (1 .. n) : Before(s, n, k)
        BY <2>6, <2>7, <2>8
      <3>2. n \in S \cap (1 .. n)
        BY <2>4, <2>6
      <3>. QED  BY <2>2, <3>1, <3>2
    <2>9. CASE S \cap (1 .. n - 1) # {}
      <3>1. PICK j \in S \cap (1 .. n - 1) : \A k \in S \cap (1 .. n - 1) : Before(s, j, k)
        BY <2>5, <2>9
      <3>2. j \in S \cap (1 .. n) /\ n \in S \cap (1 .. n)
        BY <2>4, <2>6
      <3>3. CASE Before(s, j, n)
        <4>1. \A k \in S \cap (1 .. n) : Before(s, j, k)
          BY <2>6, <3>1, <3>3
        <4>. QED  BY <2>2, <3>2, <4>1
      <3>4. CASE ~ Before(s, j, n)
        <4>1. s[j].confidence < s[n].confidence
          <5>. HIDE DEF Best, Bad
          <5>1. j \in 1 .. N /\ n \in 1 .. N /\ j <= n
            BY <2>4, <3>1
          <5>2. s[j].confidence \in Int /\ s[n].confidence \in Int
            BY <5>1
          <5>. QED  BY <3>4, <5>1, <5>2 DEF Before
        <4>2. \A k \in S \cap (1 .. n - 1) : Before(s, n, k)
          BY <2>4, <3>1, <4>1 DEF Before
        <4>3. \A k \in S \cap (1 .. n) : Before(s, n, k)
          BY <2>6, <2>7, <4>2
        <4>. QED  BY <2>2, <3>2, <4>3
      <3>. QED  BY <3>3, <3>4
    <2>. QED  BY <2>8, <2>9
  <1>2. Best(N)
    <2>1. N \in 0 .. N
      OBVIOUS
    <2>. HIDE DEF Best
    <2>. QED  BY <1>1, <2>1
  <1>3. S \cap (1 .. N) = S
    OBVIOUS
  <1>. QED  BY <1>2, <1>3

LEMMA BestOfIs ==
  ASSUME NEW T, \A x \in T : x.confidence \in Int, NEW s \in Seq(T), NEW f
  PROVE  /\ BestOf(s, f) \in Seq(T)
         /\ \A k, l \in DOMAIN BestOf(s, f) : BestOf(s, f)[k][f] = BestOf(s, f)[l][f] => k = l
  <1>. DEFINE same(i) == {j \in DOMAIN s : s[j][f] = s[i][f]}
              best(i) == CHOOSE j \in same(i) : \A k \in same(i) :
                           s[k].confidence < s[j].confidence
                             \/ (s[k].confidence = s[j].confidence /\ j <= k)
              heads   == {i \in DOMAIN s : \A j \in same(i) : i <= j}
              b       == [i \in DOMAIN s |-> s[best(i)]]
              p       == Picked(b, heads)
  <1>1. BestOf(s, f) = p
    BY Zenon DEF BestOf
  <1>2. Len(s) \in Nat /\ DOMAIN s = 1 .. Len(s) /\ \A i \in DOMAIN s : s[i] \in T
    BY LenProperties
  <1>3. ASSUME NEW i \in DOMAIN s PROVE best(i) \in same(i)
    <2>1. i \in same(i) /\ same(i) \subseteq 1 .. Len(s)
      BY <1>2
    <2>2. \A k \in 1 .. Len(s) : s[k].confidence \in Int
      BY <1>2
    <2>. HIDE DEF same
    <2>3. \E j \in same(i) : \A k \in same(i) : Before(s, j, k)
      BY <1>2, <2>1, <2>2, BestIs
    <2>. QED  BY <2>3 DEF Before
  <1>4. \A i \in DOMAIN s : best(i) \in DOMAIN s /\ s[best(i)][f] = s[i][f]
    BY <1>3
  <1>. HIDE DEF best
  <1>5. \A i \in DOMAIN s : b[i] \in T /\ b[i][f] = s[i][f]
    BY <1>2, <1>4
  <1>6. DOMAIN b = DOMAIN s
    OBVIOUS
  <1>7. b \in Seq(T) /\ DOMAIN b = 1 .. Len(s)
    <2>1. b = [i \in 1 .. Len(s) |-> b[i]]
      BY <1>2
    <2>. HIDE DEF b
    <2>2. b \in [1 .. Len(s) -> T]
      BY <1>2, <1>5, <2>1
    <2>. QED  BY <1>2, <1>6, <2>2
  <1>8. \A i, j \in heads : b[i][f] = b[j][f] => i = j
    <2>. SUFFICES ASSUME NEW i \in heads, NEW j \in heads, b[i][f] = b[j][f] PROVE i = j
      OBVIOUS
    <2>1. s[i][f] = s[j][f] /\ i \in DOMAIN s /\ j \in DOMAIN s
      BY <1>5
    <2>2. i <= j /\ j <= i
      BY <2>1
    <2>. QED  BY <1>2, <2>1, <2>2
  <1>9. heads \cap DOMAIN b = heads
    BY <1>6
  <1>. HIDE DEF b, heads, same
  <1>10. p \in Seq(T) /\ \E g : From(p, b, heads, g)
    BY <1>7, <1>9, PickedIs
  <1>. HIDE DEF p
  <1>11. PICK g : From(p, b, heads, g)
    BY <1>10
  <1>12. ASSUME NEW k \in DOMAIN p, NEW l \in DOMAIN p, p[k][f] = p[l][f] PROVE k = l
    <2>1. /\ k \in 1 .. Len(p) /\ l \in 1 .. Len(p) /\ Len(p) \in Nat
      BY <1>10
    <2>2. g[k] \in heads /\ g[l] \in heads /\ b[g[k]][f] = b[g[l]][f]
      BY <1>11, <1>12, <2>1 DEF From
    <2>3. g[k] = g[l]
      BY <1>8, <2>2
    <2>4. g[k] \in Int
      BY <1>2, <2>2 DEF heads
    <2>5. ~ (k < l) /\ ~ (l < k)
      BY <1>11, <2>1, <2>3, <2>4 DEF From
    <2>. QED  BY <2>1, <2>5
  <1>. QED  BY <1>1, <1>10, <1>12

-----------------------------------------------------------------------------
(* The questionnaire: its lists name a competency once, with a level of    *)
(* its own type                                                            *)

(* What a resume, a form, a review and a request are lists of.             *)
Mapped == UNION {[id : {c}, type : {SkillType[c]}, confidence : Int,
                  level : LevelsOf(SkillType[c])] : c \in Competencies}
Found == UNION {[id : {c}, type : {SkillType[c]}, level : LevelsOf(SkillType[c]),
                 enabled : BOOLEAN] : c \in Competencies}
Picks == UNION {[id : {c}, type : {SkillType[c]}, level : LevelsOf(SkillType[c])] :
                  c \in Competencies}
Sent == UNION {[id : {c}, field : {FieldOf(SkillType[c])}, value : LevelsOf(SkillType[c])] :
                 c \in Competencies}

Once(s) == \A i, j \in DOMAIN s : s[i].id = s[j].id => i = j

LEMMA MappedIs ==
  ASSUME NEW x \in Mapped
  PROVE  /\ x.id \in Competencies /\ x.type = SkillType[x.id] /\ x.level \in LevelsOf(x.type)
         /\ x.confidence \in Int
  BY DEF Mapped

LEMMA FoundIs ==
  ASSUME NEW x \in Found
  PROVE  /\ x.id \in Competencies /\ x.type = SkillType[x.id] /\ x.level \in LevelsOf(x.type)
         /\ x.enabled \in BOOLEAN /\ DOMAIN x = {"id", "type", "level", "enabled"}
  BY DEF Found

LEMMA PickIs ==
  ASSUME NEW x \in Picks
  PROVE  /\ x.id \in Competencies /\ x.type = SkillType[x.id] /\ x.level \in LevelsOf(x.type)
         /\ DOMAIN x = {"id", "type", "level"}
  BY DEF Picks

LEMMA IsPick ==
  ASSUME NEW c \in Competencies, NEW v \in LevelsOf(SkillType[c])
  PROVE  /\ [id |-> c, type |-> SkillType[c], level |-> v] \in Picks
         /\ \A b \in BOOLEAN : [id |-> c, type |-> SkillType[c], level |-> v, enabled |-> b] \in Found
         /\ [id |-> c, field |-> FieldOf(SkillType[c]), value |-> v] \in Sent
         /\ \A n \in Int : [id |-> c, type |-> SkillType[c], confidence |-> n, level |-> v] \in Mapped
  BY DEF Picks, Found, Sent, Mapped

LEMMA Levels ==
  ASSUME NEW type
  PROVE  /\ DefaultLevel(type) \in LevelsOf(type)
         /\ \A h \in Hint : LevelOfHint(type, h) \in LevelsOf(type)
  <1>1. CASE type = "LANGUAGE"
    BY <1>1 DEF DefaultLevel, LevelsOf, LevelOfHint, Hint
  <1>2. CASE type = "CERTIFICATION"
    BY <1>2 DEF DefaultLevel, LevelsOf, LevelOfHint, Hint
  <1>3. CASE type \notin {"LANGUAGE", "CERTIFICATION"}
    <2>1. LevelsOf(type) = Hint /\ DefaultLevel(type) = "BASIC" /\ \A h \in Hint : LevelOfHint(type, h) = h
      BY <1>3 DEF DefaultLevel, LevelsOf, LevelOfHint
    <2>. QED  BY <2>1 DEF Hint
  <1>. QED  BY <1>1, <1>2, <1>3

(* A list made of another, element by element.                             *)
LEMMA ListOf ==
  ASSUME NEW T, NEW U, NEW s \in Seq(T), NEW g, DOMAIN g = DOMAIN s, \A i \in DOMAIN s : g[i] \in U,
         g = [i \in DOMAIN s |-> g[i]]
  PROVE  g \in Seq(U) /\ DOMAIN g = 1 .. Len(s) /\ Len(g) = Len(s)
  <1>1. Len(s) \in Nat /\ DOMAIN s = 1 .. Len(s)
    BY LenProperties
  <1>2. g \in [1 .. Len(s) -> U]
    BY <1>1
  <1>. QED  BY <1>1, <1>2

LEMMA ResolvedIs ==
  ASSUME NEW skill \in Skill, NEW o \in CatalogOrders
  PROVE  Resolved(skill, o) \in Seq(Mapped)
  <1>1. o \in Seq(Competencies)
    <2>1. o \in Seq(DOMAIN SkillType) /\ DOMAIN SkillName = DOMAIN SkillType
      BY DraftAssumption
    <2>. QED  BY <2>1 DEF Competencies
  <1>. DEFINE map(c, percent) ==
        <<[id |-> c, type |-> SkillType[c], confidence |-> skill.confidence * percent,
           level |-> LevelOfHint(SkillType[c], skill.hint)]>>
  <1>2. ASSUME NEW c \in Competencies, NEW n \in Int PROVE map(c, n) \in Seq(Mapped)
    <2>1. skill.confidence \in Int /\ skill.hint \in Hint
      BY DEF Skill
    <2>2. PICK k \in Int : k = skill.confidence * n
      BY <2>1
    <2>3. LevelOfHint(SkillType[c], skill.hint) \in LevelsOf(SkillType[c])
      BY <2>1, Levels
    <2>4. [id |-> c, type |-> SkillType[c], confidence |-> skill.confidence * n,
           level |-> LevelOfHint(SkillType[c], skill.hint)] \in Mapped
      BY <2>2, <2>3, IsPick
    <2>. QED  BY <2>4
  <1>3. PICK p \in Seq(Competencies), q \in Seq(Competencies) :
          p = Named(o, skill.name) /\ q = Similar(o, skill.name)
    <2>1. Named(o, skill.name) \in Seq(Competencies)
      BY <1>1, PickedIs DEF Named
    <2>2. Similar(o, skill.name) \in Seq(Competencies)
      BY <1>1, PickedIs DEF Similar
    <2>. QED  BY <2>1, <2>2
  <1>4. Resolved(skill, o) = IF p # <<>> THEN map(p[1], 100) ELSE IF q # <<>> THEN map(q[1], 78) ELSE <<>>
    BY <1>3 DEF Resolved
  <1>. HIDE DEF map
  <1>5. (p # <<>> => p[1] \in Competencies) /\ (q # <<>> => q[1] \in Competencies)
    BY <1>3
  <1>6. 100 \in Int /\ 78 \in Int /\ <<>> \in Seq(Mapped)
    OBVIOUS
  <1>. QED  BY <1>2, <1>4, <1>5, <1>6

LEMMA DraftIs ==
  ASSUME NEW t, ReadText(t), NEW o \in CatalogOrders
  PROVE  /\ DraftOf(t, o).years \in {NoYears} \cup 0 .. MaxYears
         /\ DraftOf(t, o).competencies \in Seq(Mapped) /\ Once(DraftOf(t, o).competencies)
  <1>. DEFINE found  == SkillsInText(t, o)
              said   == IF t.ai = <<>> THEN [role |-> Empty, years |-> NoKey, home |-> Empty, skills |-> <<>>]
                        ELSE t.ai[1]
              years  == YearsOfAnswer(said.years)
              best   == BestOf(said.skills \o found, "name")
  <1>1. DraftOf(t, o).years = (IF years # NoYears THEN years ELSE t.years)
        /\ DraftOf(t, o).competencies = MapSkills(best, o)
    BY DEF DraftOf
  <1>2. said.skills \in Seq(Skill) /\ said.years \in Int
    <2>1. CASE t.ai = <<>>
      BY <2>1 DEF NoKey
    <2>2. CASE t.ai # <<>>
      <3>1. t.ai[1] \in AiAnswer
        BY <2>2 DEF ReadText
      <3>. QED  BY <2>2, <3>1 DEF AiAnswer
    <2>. QED  BY <2>1, <2>2
  <1>. HIDE DEF said
  <1>3. years \in {NoYears} \cup 0 .. MaxYears
    BY <1>2, DraftAssumption DEF YearsOfAnswer, ClampedYears, NoYears, NoKey
  <1>4. found \in Seq(Skill)
    <2>1. o \in Seq(Competencies) /\ SkillName \in [Competencies -> STRING]
      <3>1. o \in Seq(DOMAIN SkillType) /\ DOMAIN SkillName = DOMAIN SkillType
        BY DraftAssumption
      <3>. QED  BY <3>1, DraftAssumption DEF Competencies
    <2>2. PICK p \in Seq(Competencies) :
            p = Picked(o, {i \in DOMAIN o : SkillName[o[i]] \in t.mentions})
      BY <2>1, PickedIs
    <2>. DEFINE g == [i \in DOMAIN p |-> [name |-> SkillName[p[i]], confidence |-> 74, hint |-> "PRACTICAL"]]
    <2>3. found = g
      BY <2>2 DEF SkillsInText
    <2>4. \A i \in DOMAIN p : g[i] \in Skill
      BY <2>1, <2>2 DEF Skill, Hint
    <2>5. DOMAIN g = DOMAIN p /\ g = [i \in DOMAIN p |-> g[i]]
      OBVIOUS
    <2>. HIDE DEF g, found
    <2>6. g \in Seq(Skill)
      BY <2>4, <2>5, ListOf
    <2>. QED  BY <2>3, <2>6
  <1>. HIDE DEF found, years
  <1>5. best \in Seq(Skill)
    <2>1. said.skills \o found \in Seq(Skill)
      BY <1>2, <1>4
    <2>2. \A x \in Skill : x.confidence \in Int
      BY DEF Skill
    <2>. QED  BY <2>1, <2>2, BestOfIs
  <1>. HIDE DEF best
  <1>. DEFINE lists == [i \in DOMAIN best |-> Resolved(best[i], o)]
  <1>6. lists \in Seq(Seq(Mapped))
    <2>1. \A i \in DOMAIN best : lists[i] \in Seq(Mapped)
      BY <1>5, ResolvedIs
    <2>2. DOMAIN lists = DOMAIN best /\ lists = [i \in DOMAIN best |-> lists[i]]
      OBVIOUS
    <2>. HIDE DEF lists
    <2>. QED  BY <1>5, <2>1, <2>2, ListOf
  <1>7. MapSkills(best, o) = BestOf(FlattenSeq(lists), "id")
    BY DEF MapSkills
  <1>. HIDE DEF lists
  <1>8. PICK l \in Seq(Mapped) : l = FlattenSeq(lists)
    BY <1>6, FlatIs
  <1>9. \A x \in Mapped : x.confidence \in Int
    BY MappedIs
  <1>10. /\ BestOf(l, "id") \in Seq(Mapped)
         /\ \A i, j \in DOMAIN BestOf(l, "id") : BestOf(l, "id")[i]["id"] = BestOf(l, "id")[j]["id"] => i = j
    BY <1>9, BestOfIs
  <1>11. \A i, j \in DOMAIN BestOf(l, "id") : BestOf(l, "id")[i].id = BestOf(l, "id")[j].id => i = j
    BY <1>10
  <1>12. t.years \in {NoYears} \cup 0 .. MaxYears
    BY DEF ReadText
  <1>. QED  BY <1>1, <1>3, <1>7, <1>8, <1>10, <1>11, <1>12 DEF Once

LEMMA SetToSeqIs ==
  ASSUME NEW S, IsFiniteSet(S)
  PROVE  /\ SetToSeq(S) \in Seq(S)
         /\ \A i, j \in DOMAIN SetToSeq(S) : SetToSeq(S)[i] = SetToSeq(S)[j] => i = j
         /\ DOMAIN SetToSeq(S) = 1 .. Cardinality(S) /\ ToSet(SetToSeq(S)) = S
  <1>1. Cardinality(S) \in Nat /\ ExistsBijection(1 .. Cardinality(S), S)
    BY FS_CardinalityType
  <1>2. \E f \in [1 .. Cardinality(S) -> S] : IsInjective(f)
    BY <1>1 DEF ExistsBijection, Bijection, Injection
  <1>3. SetToSeq(S) \in [1 .. Cardinality(S) -> S] /\ IsInjective(SetToSeq(S))
    BY <1>2, Zenon DEF SetToSeq
  <1>4. PICK n \in Nat : n = Cardinality(S)
    BY <1>1
  <1>5. PICK f \in [1 .. n -> S] : f = SetToSeq(S) /\ IsInjective(f)
    BY <1>3, <1>4
  <1>6. f \in Injection(1 .. n, S) /\ Cardinality(1 .. n) = n
    BY <1>5, FS_Interval DEF Injection, IsInjective
  <1>7. f \in Surjection(1 .. n, S)
    BY <1>4, <1>6, FS_Injection
  <1>8. ToSet(f) = S
    BY <1>7 DEF Surjection, ToSet
  <1>9. f \in Seq(S) /\ \A i, j \in DOMAIN f : f[i] = f[j] => i = j
    BY <1>5 DEF IsInjective
  <1>. QED  BY <1>4, <1>5, <1>8, <1>9

(* A list of entries that are each of a competency of their own.           *)
Listed(s) == s \in Seq(Picks) /\ Once(s)
ListedFound(s) == s \in Seq(Found) /\ Once(s)

LEMMA FormOfIs ==
  ASSUME NEW row, IsRow(row)
  PROVE  Listed(FormOf(row).selected)
  <1>. DEFINE chosen(c) == [id |-> c.id, type |-> SkillType[c.id],
                            level |-> IF c.field = FieldOf(SkillType[c.id]) THEN c.value
                                      ELSE DefaultLevel(SkillType[c.id])]
              kept == SetToSeq(row.competencies)
              g == [i \in DOMAIN kept |-> chosen(kept[i])]
  <1>1. FormOf(row).selected = g
    BY DEF FormOf
  <1>2. /\ kept \in Seq(row.competencies)
        /\ \A i, j \in DOMAIN kept : kept[i] = kept[j] => i = j
    BY SetToSeqIs DEF IsRow
  <1>. HIDE DEF kept
  <1>3. ASSUME NEW i \in DOMAIN kept PROVE g[i] \in Picks /\ g[i].id = kept[i].id /\ kept[i] \in row.competencies
    <2>1. PICK c \in row.competencies : c = kept[i]
      BY <1>2
    <2>2. c.id \in Competencies
          /\ (c.field = FieldOf(SkillType[c.id]) => c.value \in LevelsOf(SkillType[c.id]))
      BY DEF IsRow
    <2>3. chosen(c) \in Picks
      BY <2>2, IsPick, Levels
    <2>. QED  BY <2>1, <2>3
  <1>4. DOMAIN g = DOMAIN kept /\ g = [i \in DOMAIN kept |-> g[i]]
    OBVIOUS
  <1>5. \A i, j \in DOMAIN kept : g[i].id = g[j].id => i = j
    <2>1. \A c, d \in row.competencies : c.id = d.id => c = d
      BY DEF IsRow
    <2>. HIDE DEF g
    <2>. QED  BY <1>2, <1>3, <2>1
  <1>. HIDE DEF g
  <1>6. g \in Seq(Picks)
    BY <1>2, <1>3, <1>4, ListOf
  <1>. QED  BY <1>1, <1>4, <1>5, <1>6 DEF Listed, Once

LEMMA PickedOnce ==
  ASSUME NEW T, NEW s \in Seq(T), Once(s), NEW S
  PROVE  Picked(s, S) \in Seq(T) /\ Once(Picked(s, S))
  <1>0. PICK p \in Seq(T) : p = Picked(s, S)
    BY PickedIs
  <1>1. PICK f : From(p, s, S \cap DOMAIN s, f)
    BY <1>0, PickedIs
  <1>2. DOMAIN p = 1 .. Len(p) /\ Len(p) \in Nat /\ DOMAIN s = 1 .. Len(s) /\ Len(s) \in Nat
    OBVIOUS
  <1>3. ASSUME NEW k \in DOMAIN p, NEW l \in DOMAIN p, p[k].id = p[l].id PROVE k = l
    <2>1. f[k] \in DOMAIN s /\ f[l] \in DOMAIN s /\ s[f[k]].id = s[f[l]].id
      BY <1>1, <1>2, <1>3 DEF From
    <2>2. f[k] = f[l] /\ f[k] \in Int
      BY <1>2, <2>1 DEF Once
    <2>3. ~ (k < l) /\ ~ (l < k)
      BY <1>1, <1>2, <2>2 DEF From
    <2>. QED  BY <1>2, <2>3
  <1>. QED  BY <1>0, <1>1, <1>3 DEF Once

(* What is sent names each competency once, with a level of its type.      *)
Sendable(d) ==
  /\ DOMAIN d = {"country", "city", "role", "home", "years", "amount", "months", "competencies"}
  /\ d.country # Empty /\ d.role # Empty /\ d.years \in 0 .. MaxYears
  /\ d.competencies \in Seq(Sent) /\ Once(d.competencies)

LEMMA PayloadIs ==
  ASSUME NEW f, Listed(f.selected), f.years \in 0 .. MaxYears, f.country # Empty, f.role # Empty
  PROVE  Sendable(Payload(f))
  <1>1. PICK s \in Seq(Picks) : s = f.selected /\ Once(s)
    BY DEF Listed
  <1>. DEFINE g == [i \in DOMAIN s |-> [id |-> s[i].id, field |-> FieldOf(s[i].type), value |-> s[i].level]]
  <1>2. Payload(f).competencies = g
    BY <1>1 DEF Payload
  <1>3. ASSUME NEW i \in DOMAIN s PROVE g[i] \in Sent /\ g[i].id = s[i].id
    <2>1. PICK x \in Picks : x = s[i]
      BY <1>1
    <2>2. x.id \in Competencies /\ x.type = SkillType[x.id] /\ x.level \in LevelsOf(SkillType[x.id])
      BY PickIs
    <2>3. [id |-> x.id, field |-> FieldOf(SkillType[x.id]), value |-> x.level] \in Sent
      BY <2>2, IsPick
    <2>. QED  BY <2>1, <2>2, <2>3
  <1>4. DOMAIN g = DOMAIN s /\ g = [i \in DOMAIN s |-> g[i]]
    OBVIOUS
  <1>. HIDE DEF g
  <1>5. \A i \in DOMAIN s : g[i] \in Sent
    BY <1>3
  <1>6. g \in Seq(Sent)
    BY <1>4, <1>5, ListOf, Zenon
  <1>7. Once(g)
    BY <1>1, <1>3, <1>4 DEF Once
  <1>8. /\ DOMAIN Payload(f) = {"country", "city", "role", "home", "years", "amount", "months", "competencies"}
        /\ Payload(f).country = f.country /\ Payload(f).role = f.role /\ Payload(f).years = f.years
    BY DEF Payload
  <1>. QED  BY <1>2, <1>6, <1>7, <1>8 DEF Sendable

(* A request that is stored makes a row that may be found again.           *)
LEMMA RowOfIs ==
  ASSUME NEW d, Sendable(d)
  PROVE  IsRow(RowOf(d))
  <1>1. d.competencies \in Seq(Sent) /\ Once(d.competencies)
    BY DEF Sendable
  <1>2. PICK s \in Seq(Sent) : s = d.competencies /\ Once(s)
    BY <1>1
  <1>3. /\ DOMAIN RowOf(d) = DOMAIN d /\ RowOf(d).country = d.country /\ RowOf(d).role = d.role
        /\ RowOf(d).years = d.years /\ RowOf(d).competencies = ToSet(s)
    BY <1>2 DEF RowOf, Sendable
  <1>4. ToSet(s) = {s[i] : i \in DOMAIN s} /\ DOMAIN s = 1 .. Len(s) /\ Len(s) \in Nat
    BY DEF ToSet
  <1>5. IsFiniteSet(ToSet(s))
    <2>. DEFINE S == ToSet(s)
    <2>1. s \in Surjection(1 .. Len(s), S)
      BY <1>4 DEF Surjection
    <2>2. IsFiniteSet(1 .. Len(s))
      BY <1>4, FS_Interval
    <2>. HIDE DEF S
    <2>. QED  BY <2>1, <2>2, FS_Surjection DEF S
  <1>6. ASSUME NEW c \in ToSet(s)
        PROVE  /\ c.id \in Competencies
               /\ c.value \in LevelsOf(SkillType[c.id])
    BY <1>4 DEF Sent
  <1>7. \A c, e \in ToSet(s) : c.id = e.id => c = e
    BY <1>2, <1>4 DEF Once
  <1>. QED  BY <1>3, <1>5, <1>6, <1>7 DEF IsRow, Sendable

-----------------------------------------------------------------------------
(* The questionnaire: its form, its review and its request stay such lists *)

IsForm(f) ==
  /\ DOMAIN f = {"country", "city", "role", "home", "years", "amount", "months", "selected"}
  /\ f.years \in 0 .. MaxYears /\ Listed(f.selected)

IsReview(r) ==
  /\ DOMAIN r = {"role", "years", "home", "competencies"}
  /\ r.years \in 0 .. MaxYears /\ ListedFound(r.competencies)

IsDialog(d) ==
  /\ DOMAIN d = {"stage", "review"} /\ d.stage \in {"closed", "upload", "processing", "review"}
  /\ IsReview(d.review)

PageInv ==
  /\ DOMAIN page = {"of", "loading", "prefill", "choices"}
  /\ page.of \in ProfileId \cup {NewProfile, NoPage} /\ page.loading \in DOMAIN stored \cup {NoId}

RequestInv ==
  /\ DOMAIN saving = {"at", "to", "data", "fails"}
  /\ saving.at = "sent" => Sendable(saving.data)

WizardInv ==
  /\ wizardScenario \in WizardScenarios
  /\ PageInv
  /\ \A p \in DOMAIN stored : IsRow(stored[p])
  /\ IsForm(form)
  /\ IsDialog(cv)
  /\ parsing # <<>> => parsing[1] \in wizardScenario.texts
  /\ RequestInv

LEMMA EmptyFormIs == IsForm(EmptyForm)
  <1>1. <<>> \in Seq(Picks) /\ 0 \in 0 .. MaxYears /\ DOMAIN <<>> = {}
    BY DraftAssumption
  <1>. QED  BY <1>1 DEF IsForm, EmptyForm, Listed, Once

LEMMA NoReviewIs == IsReview(NoReview)
  <1>1. <<>> \in Seq(Found) /\ 0 \in 0 .. MaxYears /\ DOMAIN <<>> = {}
    BY DraftAssumption
  <1>. QED  BY <1>1 DEF IsReview, NoReview, ListedFound, Once

LEMMA LoadedIs ==
  ASSUME NEW row, IsRow(row) PROVE IsForm(FormOf(row))
  <1>1. /\ DOMAIN FormOf(row) = {"country", "city", "role", "home", "years", "amount", "months", "selected"}
        /\ FormOf(row).years = row.years
    BY DEF FormOf
  <1>. QED  BY <1>1, FormOfIs DEF IsForm, IsRow

(* The choices of the user keep the form one that can be sent.             *)
LEMMA ToggleKeeps ==
  ASSUME IsForm(form), NEW c \in Competencies,
         form' = [form EXCEPT !.selected = IF IsSelected(c) THEN Picked(@, {i \in DOMAIN @ : @[i].id # c})
                                           ELSE WithDefault(c)]
  PROVE  IsForm(form')
  <1>1. PICK s \in Seq(Picks) : s = form.selected /\ Once(s)
    BY DEF IsForm, Listed
  <1>2. /\ DOMAIN form' = DOMAIN form /\ form'.years = form.years
        /\ form'.selected = IF IsSelected(c) THEN Picked(s, {i \in DOMAIN s : s[i].id # c})
                            ELSE WithDefault(c)
    BY <1>1 DEF IsForm
  <1>3. CASE IsSelected(c)
    <2>1. Listed(Picked(s, {i \in DOMAIN s : s[i].id # c}))
      BY <1>1, PickedOnce DEF Listed
    <2>. QED  BY <1>2, <1>3, <2>1 DEF IsForm
  <1>4. CASE ~ IsSelected(c)
    <2>. DEFINE x == [id |-> c, type |-> SkillType[c], level |-> DefaultLevel(SkillType[c])]
    <2>1. x \in Picks /\ x.id = c
      BY Levels, IsPick
    <2>2. WithDefault(c) = Append(s, x)
      BY <1>1 DEF WithDefault
    <2>. HIDE DEF x
    <2>3. Append(s, x) \in Seq(Picks) /\ Len(Append(s, x)) = Len(s) + 1 /\ Append(s, x)[Len(s) + 1] = x
          /\ \A i \in 1 .. Len(s) : Append(s, x)[i] = s[i]
      BY <1>1, <2>1
    <2>4. PICK t \in Seq(Picks) : t = Append(s, x)
      BY <2>3
    <2>5. DOMAIN t = 1 .. Len(s) + 1 /\ DOMAIN s = 1 .. Len(s) /\ Len(s) \in Nat
      BY <1>1, <2>3, <2>4
    <2>6. \A i \in DOMAIN t : (i \in DOMAIN s /\ t[i] = s[i]) \/ (i = Len(s) + 1 /\ t[i] = x)
      <3>1. \A i \in 1 .. Len(s) + 1 : i \in 1 .. Len(s) \/ i = Len(s) + 1
        BY <2>5
      <3>. QED  BY <2>3, <2>4, <2>5, <3>1
    <2>7. \A i \in DOMAIN s : s[i].id # c
      BY <1>1, <1>4 DEF IsSelected
    <2>8. Once(t)
      BY <1>1, <2>1, <2>6, <2>7 DEF Once
    <2>. QED  BY <1>2, <1>4, <2>2, <2>4, <2>8 DEF IsForm, Listed
  <1>. QED  BY <1>3, <1>4

LEMMA LevelKeeps ==
  ASSUME IsForm(form), NEW i \in DOMAIN form.selected, NEW v \in LevelsOf(form.selected[i].type),
         form' = [form EXCEPT !.selected[i].level = v]
  PROVE  IsForm(form')
  <1>1. PICK s \in Seq(Picks) : s = form.selected /\ Once(s)
    BY DEF IsForm, Listed
  <1>2. PICK x \in Picks : x = s[i]
    BY <1>1
  <1>3. x.id \in Competencies /\ x.type = SkillType[x.id] /\ DOMAIN x = {"id", "type", "level"}
    BY <1>2, PickIs
  <1>. DEFINE y == [id |-> x.id, type |-> SkillType[x.id], level |-> v]
              t == [s EXCEPT ![i] = y]
  <1>4. [x EXCEPT !.level = v] = y
    BY <1>3
  <1>5. y \in Picks /\ y.id = x.id
    BY <1>1, <1>2, <1>3, IsPick
  <1>6. DOMAIN form' = DOMAIN form /\ form'.years = form.years /\ form'.selected = t
    BY <1>1, <1>2, <1>4 DEF IsForm
  <1>. HIDE DEF y
  <1>7. t \in Seq(Picks) /\ DOMAIN t = DOMAIN s /\ \A j \in DOMAIN s : t[j] = IF j = i THEN y ELSE s[j]
    BY <1>1, <1>5
  <1>. HIDE DEF t
  <1>8. Once(t)
    BY <1>1, <1>2, <1>5, <1>7 DEF Once
  <1>. QED  BY <1>6, <1>7, <1>8 DEF IsForm, Listed

LEMMA EditKeeps ==
  ASSUME IsDialog(cv), NEW i \in DOMAIN cv.review.competencies,
         \/ cv' = [cv EXCEPT !.review.competencies[i].enabled = ~@]
         \/ \E v \in LevelsOf(cv.review.competencies[i].type) :
              cv' = [cv EXCEPT !.review.competencies[i].level = v]
  PROVE  IsDialog(cv')
  <1>1. PICK s \in Seq(Found) : s = cv.review.competencies /\ Once(s)
    BY DEF IsDialog, IsReview, ListedFound
  <1>2. PICK x \in Found : x = s[i]
    BY <1>1
  <1>3. /\ x.id \in Competencies /\ x.type = SkillType[x.id] /\ x.level \in LevelsOf(SkillType[x.id])
        /\ x.enabled \in BOOLEAN /\ DOMAIN x = {"id", "type", "level", "enabled"}
    BY <1>2, FoundIs
  <1>4. ASSUME NEW v \in LevelsOf(SkillType[x.id]), NEW b \in BOOLEAN
        PROVE  [id |-> x.id, type |-> SkillType[x.id], level |-> v, enabled |-> b] \in Found
    BY <1>3, IsPick
  <1>5. PICK z \in Found : z.id = x.id /\ cv'.review.competencies = [s EXCEPT ![i] = z]
    <2>1. CASE cv' = [cv EXCEPT !.review.competencies[i].enabled = ~@]
      <3>1. cv'.review.competencies = [s EXCEPT ![i] = [x EXCEPT !.enabled = ~@]]
        BY <1>1, <1>2, <2>1 DEF IsDialog, IsReview
      <3>2. PICK b \in BOOLEAN : b = ~x.enabled
        BY <1>3
      <3>3. [x EXCEPT !.enabled = ~@] = [id |-> x.id, type |-> SkillType[x.id], level |-> x.level, enabled |-> b]
        BY <1>3, <3>2
      <3>4. [x EXCEPT !.enabled = ~@] \in Found
        BY <1>3, <1>4, <3>3
      <3>5. [x EXCEPT !.enabled = ~@].id = x.id
        BY <3>3
      <3>. QED  BY <3>1, <3>4, <3>5
    <2>2. CASE \E v \in LevelsOf(cv.review.competencies[i].type) :
                 cv' = [cv EXCEPT !.review.competencies[i].level = v]
      <3>1. PICK v \in LevelsOf(SkillType[x.id]) : cv' = [cv EXCEPT !.review.competencies[i].level = v]
        BY <1>1, <1>2, <1>3, <2>2
      <3>2. cv'.review.competencies = [s EXCEPT ![i] = [x EXCEPT !.level = v]]
        BY <1>1, <1>2, <3>1 DEF IsDialog, IsReview
      <3>3. [x EXCEPT !.level = v] = [id |-> x.id, type |-> SkillType[x.id], level |-> v, enabled |-> x.enabled]
        BY <1>3
      <3>4. [x EXCEPT !.level = v] \in Found
        BY <1>3, <1>4, <3>3
      <3>5. [x EXCEPT !.level = v].id = x.id
        BY <3>3
      <3>. QED  BY <3>2, <3>4, <3>5
    <2>. QED  BY <2>1, <2>2
  <1>6. /\ DOMAIN cv' = DOMAIN cv /\ cv'.stage = cv.stage /\ DOMAIN cv'.review = DOMAIN cv.review
        /\ cv'.review.years = cv.review.years
    BY DEF IsDialog, IsReview
  <1>. DEFINE t == [s EXCEPT ![i] = z]
  <1>7. t \in Seq(Found) /\ DOMAIN t = DOMAIN s /\ \A j \in DOMAIN s : t[j] = IF j = i THEN z ELSE s[j]
    BY <1>1, <1>5
  <1>8. Once(t)
    <2>. HIDE DEF t
    <2>. QED  BY <1>1, <1>2, <1>5, <1>7 DEF Once
  <1>9. cv'.review.competencies = t
    BY <1>5
  <1>. HIDE DEF t
  <1>. QED  BY <1>6, <1>7, <1>8, <1>9 DEF IsDialog, IsReview, ListedFound

LEMMA ApplyKeeps ==
  ASSUME IsForm(form), IsDialog(cv), ApplyCvDraftToQuestionary
  PROVE  IsForm(form')
  <1>. DEFINE found   == cv.review.competencies
              enabled == Picked(found, {i \in DOMAIN found : found[i].enabled})
              g == [i \in DOMAIN enabled |-> [id |-> enabled[i].id, type |-> enabled[i].type,
                                              level |-> enabled[i].level]]
  <1>1. found \in Seq(Found) /\ Once(found) /\ cv.review.years \in 0 .. MaxYears
    BY SMTT(60) DEF IsDialog, IsReview, ListedFound
  <1>2. DOMAIN form' = DOMAIN form /\ form'.years = cv.review.years /\ form'.selected = g
    BY DEF ApplyCvDraftToQuestionary, IsForm
  <1>3. PICK s \in Seq(Found) : s = enabled /\ Once(s)
    <2>. HIDE DEF found
    <2>. QED  BY <1>1, PickedOnce
  <1>. HIDE DEF enabled
  <1>4. ASSUME NEW i \in DOMAIN s PROVE g[i] \in Picks /\ g[i].id = s[i].id
    <2>1. PICK x \in Found : x = s[i]
      BY <1>3
    <2>2. x.id \in Competencies /\ x.type = SkillType[x.id] /\ x.level \in LevelsOf(SkillType[x.id])
      BY FoundIs
    <2>3. [id |-> x.id, type |-> x.type, level |-> x.level] \in Picks
      BY <2>2, IsPick
    <2>. QED  BY <1>3, <2>1, <2>3
  <1>5. DOMAIN g = DOMAIN s /\ g = [i \in DOMAIN s |-> g[i]]
    BY <1>3
  <1>. HIDE DEF g
  <1>6. g \in Seq(Picks)
    BY <1>3, <1>4, <1>5, ListOf
  <1>7. Once(g)
    BY <1>3, <1>4, <1>5 DEF Once
  <1>. QED  BY <1>1, <1>2, <1>6, <1>7 DEF IsForm, Listed

(* What a finished job shows is what was read of its resume.               *)
LEMMA ReviewIs ==
  ASSUME IsForm(form), NEW t, ReadText(t), NEW o \in CatalogOrders
  PROVE  IsReview(Review(DraftOf(t, o)))
  <1>1. PICK d : d = DraftOf(t, o)
    OBVIOUS
  <1>2. /\ d.years \in {NoYears} \cup 0 .. MaxYears
        /\ d.competencies \in Seq(Mapped) /\ Once(d.competencies)
    BY <1>1, DraftIs
  <1>3. PICK s \in Seq(Mapped) : s = d.competencies
    BY <1>2
  <1>. DEFINE g == [i \in DOMAIN s |-> [id |-> s[i].id, type |-> s[i].type, level |-> s[i].level,
                                        enabled |-> TRUE]]
  <1>4. /\ DOMAIN Review(d) = {"role", "years", "home", "competencies"}
        /\ Review(d).years = (IF d.years # NoYears THEN d.years ELSE form.years)
        /\ Review(d).competencies = g
    BY <1>3 DEF Review
  <1>5. ASSUME NEW i \in DOMAIN s PROVE g[i] \in Found /\ g[i].id = s[i].id
    <2>1. PICK x \in Mapped : x = s[i]
      OBVIOUS
    <2>2. x.id \in Competencies /\ x.type = SkillType[x.id] /\ x.level \in LevelsOf(SkillType[x.id])
      BY MappedIs
    <2>3. [id |-> x.id, type |-> x.type, level |-> x.level, enabled |-> TRUE] \in Found
      BY <2>2, IsPick
    <2>. QED  BY <2>1, <2>3
  <1>6. DOMAIN g = DOMAIN s /\ g = [i \in DOMAIN s |-> g[i]]
    OBVIOUS
  <1>. HIDE DEF g
  <1>7. g \in Seq(Found)
    BY <1>5, <1>6, ListOf
  <1>8. Once(g)
    BY <1>2, <1>3, <1>5, <1>6 DEF Once
  <1>. QED  BY <1>1, <1>2, <1>4, <1>7, <1>8 DEF IsReview, IsForm, ListedFound

LEMMA UserKeeps ==
  ASSUME IsForm(form), \/ ChooseCountry \/ ChooseCity \/ EnterAmount \/ DescribeJob \/ Toggle \/ SetLevel
  PROVE  IsForm(form') /\ UNCHANGED <<wizardScenario, stored, cv, parsing, saving>>
         /\ page' = [page EXCEPT !.choices = @ + 1]
  <1>1. UNCHANGED <<wizardScenario, stored, cv, parsing, saving>> /\ page' = [page EXCEPT !.choices = @ + 1]
    BY DEF ChooseCountry, ChooseCity, EnterAmount, DescribeJob, Toggle, SetLevel, Fill, Chosen
  <1>2. CASE ChooseCountry \/ ChooseCity \/ EnterAmount \/ DescribeJob
    <2>1. DOMAIN form' = DOMAIN form /\ form'.years = form.years /\ form'.selected = form.selected
      BY <1>2 DEF ChooseCountry, ChooseCity, EnterAmount, DescribeJob, Fill, IsForm
    <2>. QED  BY <1>1, <2>1 DEF IsForm
  <1>3. CASE Toggle
    <2>1. PICK c \in Competencies :
            form' = [form EXCEPT !.selected = IF IsSelected(c) THEN Picked(@, {i \in DOMAIN @ : @[i].id # c})
                                              ELSE WithDefault(c)]
      BY <1>3 DEF Toggle, Fill
    <2>. QED  BY <1>1, <2>1, ToggleKeeps
  <1>4. CASE SetLevel
    <2>1. PICK i \in DOMAIN form.selected : \E v \in LevelsOf(form.selected[i].type) :
            form' = [form EXCEPT !.selected[i].level = v]
      BY <1>4 DEF SetLevel, Fill
    <2>2. PICK v \in LevelsOf(form.selected[i].type) : form' = [form EXCEPT !.selected[i].level = v]
      BY <2>1
    <2>. QED  BY <1>1, <2>2, LevelKeeps
  <1>. QED  BY <1>2, <1>3, <1>4

LEMMA StoreKeeps ==
  ASSUME WizardInv, CreateProfile \/ UpdateProfile
  PROVE  /\ \A p \in DOMAIN stored' : IsRow(stored'[p])
         /\ DOMAIN stored \subseteq DOMAIN stored'
         /\ RequestInv' /\ UNCHANGED <<wizardScenario, page, form, cv, parsing>>
  <1>1. Sendable(saving.data) /\ \A p \in DOMAIN stored : IsRow(stored[p])
    BY DEF WizardInv, RequestInv, CreateProfile, UpdateProfile
  <1>2. RequestInv' /\ UNCHANGED <<wizardScenario, page, form, cv, parsing>>
    BY DEF WizardInv, RequestInv, CreateProfile, UpdateProfile
  <1>3. PICK d : d = RowOf(saving.data) /\ IsRow(d)
    BY <1>1, RowOfIs
  <1>4. CASE CreateProfile
    <2>1. PICK p \in ProfileId \ DOMAIN stored :
            stored' = [q \in DOMAIN stored \cup {p} |-> IF q = p THEN d ELSE stored[q]]
      BY <1>3, <1>4 DEF CreateProfile
    <2>2. DOMAIN stored' = DOMAIN stored \cup {p}
          /\ \A q \in DOMAIN stored' : stored'[q] = IF q = p THEN d ELSE stored[q]
      BY <2>1
    <2>3. \A q \in DOMAIN stored' : IsRow(stored'[q])
      BY <1>1, <1>3, <2>2
    <2>. QED  BY <1>2, <2>2, <2>3
  <1>5. CASE UpdateProfile
    <2>. DEFINE to == saving.to
                row == stored[to]
                e == [d EXCEPT !.city   = IF @ = Empty THEN row.city ELSE @,
                               !.amount = IF @ = NoAmount THEN row.amount ELSE @]
    <2>1. to \in DOMAIN stored /\ stored' = [stored EXCEPT ![to] = e]
      BY <1>3, <1>5 DEF UpdateProfile
    <2>2. /\ DOMAIN e = DOMAIN d /\ e.country = d.country /\ e.role = d.role /\ e.years = d.years
          /\ e.competencies = d.competencies
      BY <1>3 DEF IsRow
    <2>. HIDE DEF e
    <2>3. IsRow(e)
      BY <1>3, <2>2 DEF IsRow
    <2>4. DOMAIN stored' = DOMAIN stored /\ \A q \in DOMAIN stored' : stored'[q] = IF q = to THEN e ELSE stored[q]
      BY <2>1
    <2>5. \A q \in DOMAIN stored' : IsRow(stored'[q])
      BY <1>1, <2>3, <2>4
    <2>. QED  BY <1>2, <2>4, <2>5
  <1>. QED  BY <1>4, <1>5

LEMMA DialogKeeps ==
  ASSUME WizardInv,
         \/ OpenCvModal \/ CloseCvModal \/ StartCvParseJob \/ CompleteParsing \/ FailParsing
         \/ UploadAnother \/ EditReview \/ ApplyCvDraftToQuestionary
  PROVE  /\ IsForm(form') /\ IsDialog(cv') /\ (parsing' # <<>> => parsing'[1] \in wizardScenario'.texts)
         /\ UNCHANGED <<wizardScenario, stored, saving>>
         /\ page' = page \/ page' = [page EXCEPT !.choices = @ + 1]
  <1>1. /\ UNCHANGED <<wizardScenario, stored, saving>>
        /\ page' = page \/ page' = [page EXCEPT !.choices = @ + 1]
    BY DEF OpenCvModal, CloseCvModal, StartCvParseJob, CompleteParsing, FailParsing, UploadAnother,
           EditReview, ApplyCvDraftToQuestionary, Chosen
  <1>2. IsForm(form) /\ IsDialog(cv) /\ (parsing # <<>> => parsing[1] \in wizardScenario.texts)
        /\ wizardScenario \in WizardScenarios
    BY DEF WizardInv
  <1>3. \A st \in {"closed", "upload", "processing", "review"} : \A r :
          IsReview(r) => IsDialog([stage |-> st, review |-> r])
    BY DEF IsDialog
  <1>4. CASE OpenCvModal \/ CloseCvModal \/ UploadAnother
    <2>1. UNCHANGED <<form, parsing>>
      BY <1>4 DEF OpenCvModal, CloseCvModal, UploadAnother
    <2>2. \E st \in {"closed", "upload", "processing", "review"} : cv' = [stage |-> st, review |-> NoReview]
      BY <1>4 DEF OpenCvModal, CloseCvModal, UploadAnother
    <2>3. IsDialog(cv')
      BY <1>3, <2>2, NoReviewIs
    <2>. QED  BY <1>1, <1>2, <2>1, <2>3
  <1>5. CASE StartCvParseJob
    <2>1. form' = form /\ cv' = [cv EXCEPT !.stage = "processing"]
          /\ \E t \in wizardScenario.texts : parsing' = <<t>>
      BY <1>5 DEF StartCvParseJob
    <2>2. IsDialog(cv')
      BY <1>2, <2>1 DEF IsDialog
    <2>3. parsing'[1] \in wizardScenario.texts
      BY <2>1
    <2>. QED  BY <1>1, <1>2, <2>1, <2>2, <2>3
  <1>6. CASE CompleteParsing
    <2>1. parsing # <<>> /\ parsing' = <<>> /\ form' = form
      BY <1>6 DEF CompleteParsing
    <2>2. PICK t : t = parsing[1] /\ ReadText(t)
      BY <1>2, <2>1, WizardAssumption
    <2>3. PICK o \in CatalogOrders : cv' = IF cv.stage = "closed" THEN cv
                                           ELSE [stage |-> "review", review |-> Review(DraftOf(t, o))]
      BY <1>6, <2>2 DEF CompleteParsing
    <2>4. IsReview(Review(DraftOf(t, o)))
      BY <1>2, <2>2, ReviewIs
    <2>5. IsDialog(cv')
      BY <1>2, <1>3, <2>3, <2>4
    <2>. QED  BY <1>1, <1>2, <2>1, <2>5
  <1>7. CASE FailParsing
    <2>1. parsing' = <<>> /\ form' = form /\ cv' = cv
      BY <1>7 DEF FailParsing
    <2>. QED  BY <1>1, <1>2, <2>1
  <1>8. CASE EditReview
    <2>1. PICK i \in DOMAIN cv.review.competencies :
            \/ cv' = [cv EXCEPT !.review.competencies[i].enabled = ~@]
            \/ \E v \in LevelsOf(cv.review.competencies[i].type) :
                 cv' = [cv EXCEPT !.review.competencies[i].level = v]
      BY <1>8 DEF EditReview
    <2>2. IsDialog(cv')
      BY <1>2, <2>1, EditKeeps
    <2>3. UNCHANGED <<form, parsing>>
      BY <1>8 DEF EditReview
    <2>. QED  BY <1>1, <1>2, <2>2, <2>3
  <1>9. CASE ApplyCvDraftToQuestionary
    <2>1. IsForm(form')
      BY <1>2, <1>9, ApplyKeeps, SMTT(60)
    <2>2. cv' = [stage |-> "closed", review |-> NoReview] /\ parsing' = parsing
      BY <1>9 DEF ApplyCvDraftToQuestionary
    <2>3. IsDialog(cv')
      BY <1>3, <2>2, NoReviewIs
    <2>. QED  BY <1>1, <1>2, <2>1, <2>2, <2>3
  <1>. QED  BY <1>4, <1>5, <1>6, <1>7, <1>8, <1>9, SMTT(60)

LEMMA WizardKeeps ==
  ASSUME WizardInv, [WizardNext]_wizardVars
  PROVE  WizardInv'
  <1>0. /\ wizardScenario \in WizardScenarios /\ PageInv /\ (\A p \in DOMAIN stored : IsRow(stored[p]))
        /\ IsForm(form) /\ IsDialog(cv) /\ (parsing # <<>> => parsing[1] \in wizardScenario.texts)
        /\ RequestInv
    BY DEF WizardInv
  <1>1. CASE \/ ChooseCountry \/ ChooseCity \/ EnterAmount \/ DescribeJob \/ Toggle \/ SetLevel
    <2>1. IsForm(form') /\ UNCHANGED <<wizardScenario, stored, cv, parsing, saving>>
          /\ page' = [page EXCEPT !.choices = @ + 1]
      BY <1>0, <1>1, UserKeeps
    <2>2. PageInv'
      BY <1>0, <2>1 DEF PageInv
    <2>3. RequestInv'
      BY <1>0, <2>1 DEF RequestInv
    <2>. QED  BY <1>0, <2>1, <2>2, <2>3 DEF WizardInv
  <1>2. CASE \/ OpenCvModal \/ CloseCvModal \/ StartCvParseJob \/ CompleteParsing \/ FailParsing
             \/ UploadAnother \/ EditReview \/ ApplyCvDraftToQuestionary
    <2>1. /\ IsForm(form') /\ IsDialog(cv') /\ (parsing' # <<>> => parsing'[1] \in wizardScenario'.texts)
          /\ UNCHANGED <<wizardScenario, stored, saving>>
          /\ page' = page \/ page' = [page EXCEPT !.choices = @ + 1]
      BY <1>2, DialogKeeps
    <2>2. PageInv'
      BY <1>0, <2>1 DEF PageInv
    <2>3. RequestInv'
      BY <1>0, <2>1 DEF RequestInv
    <2>. QED  BY <1>0, <2>1, <2>2, <2>3 DEF WizardInv
  <1>3. CASE CreateProfile \/ UpdateProfile
    <2>1. /\ \A p \in DOMAIN stored' : IsRow(stored'[p])
          /\ DOMAIN stored \subseteq DOMAIN stored'
          /\ RequestInv' /\ UNCHANGED <<wizardScenario, page, form, cv, parsing>>
      BY <1>3, StoreKeeps
    <2>2. PageInv'
      BY <1>0, <2>1 DEF PageInv
    <2>. QED  BY <1>0, <2>1, <2>2 DEF WizardInv
  <1>4. CASE ReceiveProfile
    <2>1. page.loading \in DOMAIN stored /\ form' = FormOf(stored[page.loading])
          /\ page' = [page EXCEPT !.loading = NoId] /\ UNCHANGED <<wizardScenario, stored, cv, parsing, saving>>
      BY <1>0, <1>4 DEF ReceiveProfile, PageInv
    <2>2. IsForm(form')
      BY <1>0, <2>1, LoadedIs
    <2>3. PageInv'
      BY <1>0, <2>1 DEF PageInv
    <2>4. RequestInv'
      BY <1>0, <2>1 DEF RequestInv
    <2>. QED  BY <1>0, <2>1, <2>2, <2>3, <2>4 DEF WizardInv
  <1>5. CASE OpenNewProfile \/ FailToLoad \/ ReceivePreferences
    <2>1. UNCHANGED <<wizardScenario, stored, cv, parsing>>
      BY <1>5 DEF OpenNewProfile, FailToLoad, ReceivePreferences
    <2>2. DOMAIN form' = DOMAIN form /\ form'.years = form.years /\ form'.selected = form.selected
      BY <1>0, <1>5 DEF OpenNewProfile, FailToLoad, ReceivePreferences, IsForm
    <2>3. IsForm(form')
      BY <1>0, <2>2 DEF IsForm
    <2>4. PageInv'
      BY <1>0, <1>5, <2>1 DEF PageInv, OpenNewProfile, FailToLoad, ReceivePreferences
    <2>5. RequestInv'
      BY <1>0, <1>5 DEF RequestInv, OpenNewProfile, FailToLoad, ReceivePreferences
    <2>. QED  BY <1>0, <2>1, <2>3, <2>4, <2>5 DEF WizardInv
  <1>6. CASE HandleSubmit
    <2>1. /\ saving' = [saving EXCEPT !.at = "sent", !.to = page.of, !.data = Payload(form)]
          /\ form.country # Empty /\ form.role # Empty
          /\ UNCHANGED <<wizardScenario, stored, page, form, cv, parsing>>
      BY <1>6 DEF HandleSubmit
    <2>2. Sendable(Payload(form))
      BY <1>0, <2>1, PayloadIs DEF IsForm
    <2>3. RequestInv'
      BY <1>0, <2>1, <2>2 DEF RequestInv
    <2>4. PageInv'
      BY <1>0, <2>1 DEF PageInv
    <2>. QED  BY <1>0, <2>1, <2>3, <2>4 DEF WizardInv
  <1>7. CASE AnswerSave \/ FailSave
    <2>1. UNCHANGED <<wizardScenario, stored, form, parsing>>
      BY <1>7 DEF AnswerSave, FailSave
    <2>2. IsDialog(cv')
      BY <1>0, <1>7, NoReviewIs DEF AnswerSave, FailSave, IsDialog
    <2>3. RequestInv'
      BY <1>7 DEF AnswerSave, FailSave, RequestInv, Idle
    <2>4. PageInv'
      BY <1>0, <1>7 DEF AnswerSave, FailSave, PageInv
    <2>. QED  BY <1>0, <2>1, <2>2, <2>3, <2>4 DEF WizardInv
  <1>8. CASE UNCHANGED wizardVars
    BY <1>0, <1>8 DEF wizardVars, WizardInv, PageInv, RequestInv
  <1>. QED  BY <1>1, <1>2, <1>3, <1>4, <1>5, <1>6, <1>7, <1>8 DEF WizardNext

(* What the questionnaire holds, shows, sends and stores names a           *)
(* competency once, with a level of its type.                              *)
THEOREM WizardInvariant == WizardSpec => []WizardInv
  <1>1. WizardInit => WizardInv
    <2>. SUFFICES ASSUME WizardInit PROVE WizardInv
      OBVIOUS
    <2>1. wizardScenario \in WizardScenarios /\ stored = wizardScenario.rows /\ form = EmptyForm
          /\ cv = [stage |-> "closed", review |-> NoReview] /\ parsing = <<>> /\ saving = Idle(0)
      BY DEF WizardInit
    <2>2. PageInv
      BY WizardAssumption, <2>1 DEF WizardInit, PageInv
    <2>3. \A p \in DOMAIN stored : IsRow(stored[p])
      BY <2>1, WizardAssumption
    <2>4. IsDialog(cv)
      BY <2>1, NoReviewIs DEF IsDialog
    <2>5. RequestInv
      BY <2>1 DEF RequestInv, Idle
    <2>. QED  BY <2>1, <2>2, <2>3, <2>4, <2>5, EmptyFormIs DEF WizardInv
  <1>2. WizardInv /\ [WizardNext]_wizardVars => WizardInv'
    BY WizardKeeps
  <1>. QED  BY <1>1, <1>2, PTL DEF WizardSpec

(* The questionnaire's variables keep their types.                         *)
THEOREM WizardTypes == WizardSpec => []WizardTypeOK
  <1>1. WizardInv => WizardTypeOK
    BY DEF WizardInv, WizardTypeOK, PageInv, IsForm, IsDialog, IsRow
  <1>. QED  BY <1>1, WizardInvariant, PTL

(* A request to save the questionnaire never names a competency twice, and *)
(* gives each the kind of level that its type has: the unique key of a     *)
(* profile's competencies and its level columns take it, whatever a resume *)
(* said, an AI answered and the user toggled before.                       *)
THEOREM Storable == WizardSpec => []CompetenciesAreStorable
  <1>1. WizardInv => CompetenciesAreStorable
    <2>. SUFFICES ASSUME WizardInv, saving.at = "sent" PROVE CompetenciesAreStorable
      BY DEF CompetenciesAreStorable
    <2>1. PICK s \in Seq(Sent) : s = saving.data.competencies /\ Once(s)
      BY DEF WizardInv, RequestInv, Sendable
    <2>2. \A x \in Sent : x.field = FieldOf(SkillType[x.id]) /\ x.value \in LevelsOf(SkillType[x.id])
      BY DEF Sent
    <2>3. \A i \in DOMAIN s : /\ s[i].field = FieldOf(SkillType[s[i].id])
                              /\ s[i].value \in LevelsOf(SkillType[s[i].id])
      BY <2>1, <2>2
    <2>. QED  BY <2>1, <2>3 DEF CompetenciesAreStorable, Once
  <1>. QED  BY <1>1, WizardInvariant, PTL

-----------------------------------------------------------------------------
(* Sorting and maps                                                        *)

(* How many positions come before another when a list is sorted by keys.   *)
Ahead(key, i, j) == key[i] > key[j] \/ (key[i] = key[j] /\ i < j)
Rank(n, key, j) == Cardinality({i \in 1 .. n : Ahead(key, i, j)})

(* No two positions have one rank, so that each rank is taken.             *)
LEMMA RanksAre ==
  ASSUME NEW n \in Nat, NEW key \in [1 .. n -> Int]
  PROVE  /\ \A j \in 1 .. n : Rank(n, key, j) \in 0 .. n - 1
         /\ \A i, j \in 1 .. n : Ahead(key, i, j) => Rank(n, key, i) < Rank(n, key, j)
         /\ \A m \in 0 .. n - 1 : \E j \in 1 .. n : Rank(n, key, j) = m
  <1>. DEFINE Set(j) == {i \in 1 .. n : Ahead(key, i, j)}
  <1>1. IsFiniteSet(1 .. n) /\ Cardinality(1 .. n) = n
    BY FS_Interval
  <1>2. ASSUME NEW j \in 1 .. n
        PROVE  IsFiniteSet(Set(j)) /\ Cardinality(Set(j)) \in 0 .. n - 1
    <2>1. Set(j) \in SUBSET (1 .. n) /\ j \notin Set(j)
      BY DEF Ahead
    <2>. HIDE DEF Set
    <2>2. IsFiniteSet(Set(j)) /\ Cardinality(Set(j)) <= n /\ Cardinality(Set(j)) # n
      BY <1>1, <2>1, FS_Subset
    <2>. QED  BY <2>2, FS_CardinalityType
  <1>3. ASSUME NEW i \in 1 .. n, NEW j \in 1 .. n, Ahead(key, i, j)
        PROVE  Cardinality(Set(i)) < Cardinality(Set(j))
    <2>1. i \in Set(j) /\ i \notin Set(i)
      BY <1>3 DEF Ahead
    <2>2. ASSUME NEW k \in Set(i) PROVE k \in Set(j)
      <3>1. k \in 1 .. n /\ key[k] \in Int /\ key[i] \in Int /\ key[j] \in Int
        OBVIOUS
      <3>. QED  BY <1>3, <2>2, <3>1 DEF Ahead
    <2>3. PICK A, B : A = Set(i) /\ B = Set(j)
      OBVIOUS
    <2>4. A \in SUBSET B /\ A # B /\ IsFiniteSet(B)
      <3>1. A \subseteq B
        BY <2>2, <2>3
      <3>2. i \in B /\ i \notin A
        BY <2>1, <2>3, Zenon
      <3>3. IsFiniteSet(B)
        BY <1>2, <2>3, Zenon
      <3>. QED  BY <3>1, <3>2, <3>3
    <2>5. Cardinality(A) <= Cardinality(B) /\ Cardinality(A) # Cardinality(B)
      BY <2>4, FS_Subset
    <2>6. Cardinality(A) \in Int /\ Cardinality(B) \in Int
      BY <1>2, <2>3, FS_CardinalityType, FS_Subset, <2>4
    <2>. QED  BY <2>3, <2>5, <2>6
  <1>4. \A j \in 1 .. n : Rank(n, key, j) = Cardinality(Set(j))
    BY DEF Rank
  <1>. HIDE DEF Set
  <1>. DEFINE f == [j \in 1 .. n |-> Rank(n, key, j)]
  <1>5. f \in [1 .. n -> 0 .. n - 1]
    BY <1>2, <1>4
  <1>6. \A i, j \in 1 .. n : f[i] = f[j] => i = j
    <2>. SUFFICES ASSUME NEW i \in 1 .. n, NEW j \in 1 .. n, i # j PROVE f[i] # f[j]
      OBVIOUS
    <2>1. Ahead(key, i, j) \/ Ahead(key, j, i)
      BY DEF Ahead
    <2>2. f[i] < f[j] \/ f[j] < f[i]
      BY <1>3, <1>4, <2>1
    <2>. QED  BY <1>5, <2>2
  <1>. HIDE DEF f
  <1>7. f \in Injection(1 .. n, 0 .. n - 1)
    BY <1>5, <1>6 DEF Injection, IsInjective
  <1>8. IsFiniteSet(0 .. n - 1) /\ Cardinality(0 .. n - 1) = n
    <2>1. Cardinality(0 .. n - 1) = IF 0 > n - 1 THEN 0 ELSE n - 1 - 0 + 1
      BY FS_Interval
    <2>. QED  BY <2>1, FS_Interval
  <1>9. f \in Surjection(1 .. n, 0 .. n - 1)
    BY <1>1, <1>7, <1>8, FS_Injection
  <1>10. \A m \in 0 .. n - 1 : \E j \in 1 .. n : f[j] = m
    BY <1>9 DEF Surjection
  <1>. QED  BY <1>2, <1>3, <1>4, <1>10 DEF f

(* A list that is sorted holds what it held, by the order p of positions.  *)
SortedBy(s, key, d, p) ==
  /\ p \in [1 .. Len(s) -> 1 .. Len(s)]
  /\ DOMAIN d = 1 .. Len(s)
  /\ \A m \in 1 .. Len(s) : d[m] = s[p[m]]
  /\ \A i, j \in 1 .. Len(s) : p[i] = p[j] => i = j
  /\ \A j \in 1 .. Len(s) : \E i \in 1 .. Len(s) : p[i] = j
  /\ \A i, j \in 1 .. Len(s) : i < j => Ahead(key, p[i], p[j])

(* A sorted list holds what it held, in the order of ranks.                *)
LEMMA DescendingIs ==
  ASSUME NEW T, NEW s \in Seq(T), NEW key \in [DOMAIN s -> Int]
  PROVE  /\ Descending(s, key) \in Seq(T) /\ Len(Descending(s, key)) = Len(s)
         /\ \E p : SortedBy(s, key, Descending(s, key), p)
  <1>1. PICK n \in Nat : Len(s) = n /\ DOMAIN s = 1 .. n /\ \A i \in 1 .. n : s[i] \in T
    BY LenProperties, ElementOfSeq
  <1>. DEFINE At_(m) == CHOOSE j \in 1 .. n : Rank(n, key, j) = m - 1
              p == [m \in 1 .. n |-> At_(m)]
              d == [m \in 1 .. n |-> s[At_(m)]]
  <1>2. Descending(s, key) = d
    BY <1>1 DEF Descending, Rank, Ahead
  <1>3. key \in [1 .. n -> Int]
    BY <1>1
  <1>4. ASSUME NEW m \in 1 .. n PROVE At_(m) \in 1 .. n /\ Rank(n, key, At_(m)) = m - 1
    <2>1. m - 1 \in 0 .. n - 1
      OBVIOUS
    <2>2. \E j \in 1 .. n : Rank(n, key, j) = m - 1
      BY <1>3, <2>1, RanksAre
    <2>. QED  BY <2>2
  <1>. HIDE DEF At_
  <1>5. p \in [1 .. n -> 1 .. n] /\ \A m \in 1 .. n : Rank(n, key, p[m]) = m - 1 /\ d[m] = s[p[m]]
    BY <1>4
  <1>6. d \in Seq(T) /\ Len(d) = n /\ DOMAIN d = 1 .. n
    <2>1. d \in [1 .. n -> T]
      BY <1>1, <1>4
    <2>. QED  BY <2>1
  <1>. HIDE DEF p, d
  <1>7. \A i, j \in 1 .. n : p[i] = p[j] => i = j
    <2>. SUFFICES ASSUME NEW i \in 1 .. n, NEW j \in 1 .. n, p[i] = p[j] PROVE i = j
      OBVIOUS
    <2>1. Rank(n, key, p[i]) = i - 1 /\ Rank(n, key, p[j]) = j - 1
      BY <1>5
    <2>2. i - 1 = j - 1
      BY <2>1, Zenon
    <2>. QED  BY <2>2
  <1>8. \A j \in 1 .. n : \E i \in 1 .. n : p[i] = j
    <2>. SUFFICES ASSUME NEW j \in 1 .. n PROVE \E i \in 1 .. n : p[i] = j
      OBVIOUS
    <2>1. PICK m : m = Rank(n, key, j) /\ m \in 0 .. n - 1
      BY <1>3, RanksAre
    <2>2. m + 1 \in 1 .. n
      BY <2>1
    <2>3. PICK l \in 1 .. n : l = m + 1
      BY <2>2
    <2>4. PICK k \in 1 .. n : k = p[l] /\ Rank(n, key, k) = l - 1
      BY <1>5
    <2>5. PICK r, u : r = Rank(n, key, k) /\ u = Rank(n, key, j) /\ r = u /\ r \in Int
      BY <2>1, <2>3, <2>4
    <2>6. /\ Ahead(key, k, j) => r < u
          /\ Ahead(key, j, k) => u < r
      BY <1>3, <2>5, RanksAre, ZenonT(60)
    <2>7. k = j
      BY <1>3, <2>5, <2>6 DEF Ahead
    <2>. QED  BY <2>4, <2>7
  <1>9. \A i, j \in 1 .. n : i < j => Ahead(key, p[i], p[j])
    <2>. SUFFICES ASSUME NEW i \in 1 .. n, NEW j \in 1 .. n, i < j PROVE Ahead(key, p[i], p[j])
      OBVIOUS
    <2>1. PICK a \in 1 .. n, b \in 1 .. n : a = p[i] /\ b = p[j] /\ Rank(n, key, a) = i - 1 /\ Rank(n, key, b) = j - 1
      BY <1>5
    <2>4. Ahead(key, b, a) => Rank(n, key, b) < Rank(n, key, a)
      BY <1>3, RanksAre
    <2>5. a = b => Rank(n, key, b) = Rank(n, key, a)
      OBVIOUS
    <2>2. ~ Ahead(key, b, a) /\ a # b
      BY <2>1, <2>4, <2>5
    <2>3. key[a] \in Int /\ key[b] \in Int
      BY <1>3
    <2>6. PICK x \in Int, y \in Int : x = key[a] /\ y = key[b]
      BY <2>3, Zenon
    <2>7. ~ (y > x) /\ ~ (y = x /\ b < a)
      BY <2>2, <2>6, Zenon DEF Ahead
    <2>8. x > y \/ (x = y /\ a < b)
      BY <2>2, <2>7
    <2>. QED  BY <2>1, <2>6, <2>8, Zenon DEF Ahead
  <1>. QED  BY <1>1, <1>2, <1>5, <1>6, <1>7, <1>8, <1>9 DEF SortedBy

(* A map with one more entry.                                              *)
LEMMA PutIs ==
  ASSUME NEW S, NEW X, NEW f \in [S -> X], NEW k, NEW v \in X
  PROVE  /\ Put(f, k, v) \in [S \cup {k} -> X] /\ DOMAIN Put(f, k, v) = S \cup {k}
         /\ Put(f, k, v)[k] = v /\ \A x \in S : x # k => Put(f, k, v)[x] = f[x]
  BY DEF Put

-----------------------------------------------------------------------------
(* Weighted averages                                                       *)

(* The sum of v over S.                                                    *)
SumOf(S, v) == (CHOOSE g : g = Terms(S, v, g))[S]

(* There is such a sum.                                                    *)
LEMMA SumTerms ==
  ASSUME NEW S, IsFiniteSet(S), NEW v
  PROVE  \E g : g = Terms(S, v, g) /\ SumOf(S, v) = g[S]
  <1>1. \E g : g = Terms(S, v, g)
    BY TermsExist
  <1>2. PICK g : g = (CHOOSE h : h = Terms(S, v, h)) /\ g = Terms(S, v, g)
    BY <1>1
  <1>. QED  BY <1>2 DEF SumOf

(* A sum of naturals is one, and no less than a term.                      *)
LEMMA SumIs ==
  ASSUME NEW S, IsFiniteSet(S), NEW v, \A x \in S : v[x] \in Nat
  PROVE  SumOf(S, v) \in Nat /\ \A x \in S : v[x] <= SumOf(S, v)
  <1>1. PICK g : g = Terms(S, v, g) /\ SumOf(S, v) = g[S]
    BY SumTerms
  <1>2. g[S] \in Nat /\ \A x \in S : v[x] <= g[S]
    BY <1>1, TermsAre
  <1>. QED  BY <1>1, <1>2

(* Terms that are at most c times as great come to at most c times as much.*)
LEMMA SumAtMost ==
  ASSUME NEW S, IsFiniteSet(S), NEW v, NEW w, NEW c \in Nat,
         \A x \in S : v[x] \in Nat /\ w[x] \in Nat /\ w[x] <= c * v[x]
  PROVE  SumOf(S, w) <= c * SumOf(S, v)
  <1>1. PICK g : g = Terms(S, v, g) /\ SumOf(S, v) = g[S]
    BY SumTerms
  <1>2. PICK h : h = Terms(S, w, h) /\ SumOf(S, w) = h[S]
    BY SumTerms
  <1>. DEFINE Good(s) == g[s] \in Nat /\ h[s] \in Nat /\ h[s] <= c * g[s]
              Bad == {Cardinality(s) : s \in {t \in SUBSET S : ~ Good(t)}}
  <1>3. \A s \in SUBSET S : Cardinality(s) \in Nat
    BY FS_Subset, FS_CardinalityType
  <1>4. \A s \in SUBSET S : g[s] = Term(s, v, g) /\ h[s] = Term(s, w, h)
    BY <1>1, <1>2 DEF Terms
  <1>5. Bad = {}
    <2>. SUFFICES ASSUME Bad # {} PROVE FALSE
      OBVIOUS
    <2>1. PICK n \in Bad : \A m \in Bad : n <= m
      <3>1. Bad \subseteq Nat
        BY <1>3
      <3>. HIDE DEF Bad
      <3>. QED  BY <3>1, LeastIs
    <2>2. PICK s \in SUBSET S : ~ Good(s) /\ n = Cardinality(s)
      BY <2>1
    <2>3. s # {}
      <3>1. s = {} => g[s] = 0 /\ h[s] = 0
        BY <1>4 DEF Term
      <3>. QED  BY <2>2, <3>1
    <2>4. PICK x, t : x = Element(s) /\ t = s \ {Element(s)}
      OBVIOUS
    <2>5. x \in S /\ t \in SUBSET S /\ n \in Nat /\ Cardinality(t) = n - 1
      BY <2>2, <2>3, <2>4, ElementIs
    <2>6. Good(t)
      <3>1. Good(t) \/ Cardinality(t) \in Bad
        <4>. HIDE DEF Good
        <4>. QED  BY <2>5
      <3>. HIDE DEF Good, Bad
      <3>2. Cardinality(t) \notin Bad
        BY <2>1, <2>5
      <3>. QED  BY <3>1, <3>2
    <2>7. g[s] = v[x] + g[t] /\ h[s] = w[x] + h[t]
      BY <1>4, <2>3, <2>4 DEF Term
    <2>8. PICK a \in Nat, b \in Nat, d \in Nat, e \in Nat :
            a = v[x] /\ b = g[t] /\ d = w[x] /\ e = h[t]
      BY <2>5, <2>6
    <2>9. d <= c * a /\ e <= c * b
      BY <2>5, <2>6, <2>8
    <2>10. c * (a + b) = c * a + c * b /\ c * a \in Nat /\ c * b \in Nat
      BY <2>8
    <2>11. g[s] = a + b /\ h[s] = d + e
      BY <2>7, <2>8
    <2>12. h[s] <= c * (a + b)
      BY <2>9, <2>10, <2>11, <2>8
    <2>13. Good(s)
      BY <2>8, <2>11, <2>12
    <2>. QED  BY <2>2, <2>13
  <1>6. Good(S)
    <2>1. S \in SUBSET S
      OBVIOUS
    <2>. HIDE DEF Good
    <2>. QED  BY <1>5, <2>1
  <1>. QED  BY <1>1, <1>2, <1>6

(* The sums of a fit are sums of this kind.                                *)
TotalWeight(C, items) == MapThenSumSet(LAMBDA i : items[i].weight, C)
TotalMatch(C, items) == MapThenSumSet(LAMBDA i : items[i].match * items[i].weight, C)

(* The weights.                                                            *)
LEMMA TotalIsSum ==
  ASSUME NEW C, IsFiniteSet(C), NEW items
  PROVE  TotalWeight(C, items) = SumOf(C, [i \in C |-> items[i].weight])
  <1>. DEFINE v == [i \in C |-> items[i].weight]
              F(g) == [s \in SUBSET C |-> IF s = {} THEN 0 ELSE items[Element(s)].weight + g[s \ {Element(s)}]]
  <1>1. TotalWeight(C, items) = (CHOOSE g : g = F(g))[C]
    BY DEF TotalWeight, MapThenSumSet, MapThenFoldSet, Element
  <1>2. ASSUME NEW g PROVE F(g) = Terms(C, v, g)
    <2>1. \A s \in SUBSET C : s # {} => v[Element(s)] = items[Element(s)].weight
      BY ElementIs
    <2>. HIDE DEF v
    <2>. QED  BY <2>1 DEF Terms, Term
  <1>. HIDE DEF F, v
  <1>3. (CHOOSE g : g = F(g)) = CHOOSE g : g = Terms(C, v, g)
    BY <1>2
  <1>. QED  BY <1>1, <1>3 DEF SumOf, v

(* The matches by their weights.                                           *)
LEMMA MatchedIsSum ==
  ASSUME NEW C, IsFiniteSet(C), NEW items
  PROVE  TotalMatch(C, items) = SumOf(C, [i \in C |-> items[i].match * items[i].weight])
  <1>. DEFINE v == [i \in C |-> items[i].match * items[i].weight]
              F(g) == [s \in SUBSET C |-> IF s = {} THEN 0
                         ELSE items[Element(s)].match * items[Element(s)].weight + g[s \ {Element(s)}]]
  <1>1. TotalMatch(C, items) = (CHOOSE g : g = F(g))[C]
    BY DEF TotalMatch, MapThenSumSet, MapThenFoldSet, Element
  <1>2. ASSUME NEW g PROVE F(g) = Terms(C, v, g)
    <2>1. \A s \in SUBSET C : s # {} =>
            v[Element(s)] = items[Element(s)].match * items[Element(s)].weight
      BY ElementIs
    <2>. HIDE DEF v
    <2>. QED  BY <2>1 DEF Terms, Term
  <1>. HIDE DEF F, v
  <1>3. (CHOOSE g : g = F(g)) = CHOOSE g : g = Terms(C, v, g)
    BY <1>2
  <1>. QED  BY <1>1, <1>3 DEF SumOf, v

(* A fit is an average of matches.                                         *)
LEMMA FitIs ==
  ASSUME NEW items, IsFiniteSet(DOMAIN items),
         \A i \in DOMAIN items : items[i].weight \in Nat /\ items[i].match \in 0 .. 1000
  PROVE  FitScore(items) \in 0 .. 1000
  <1>1. PICK C : C = {i \in DOMAIN items : items[i].kind # "EXCLUDED_AS_IRRELEVANT"} /\ C \subseteq DOMAIN items
    OBVIOUS
  <1>2. IsFiniteSet(C)
    BY <1>1, FS_Subset
  <1>3. PICK v, w : v = [i \in C |-> items[i].weight] /\ w = [i \in C |-> items[i].match * items[i].weight]
    OBVIOUS
  <1>4. ASSUME NEW i \in C PROVE v[i] \in Nat /\ w[i] \in Nat /\ w[i] <= 1000 * v[i]
    <2>1. PICK a \in Nat : a = items[i].weight
      BY <1>1
    <2>2. PICK b \in Nat : b = items[i].match /\ b <= 1000
      <3>1. items[i].match \in 0 .. 1000
        BY <1>1
      <3>2. PICK m \in 0 .. 1000 : m = items[i].match
        BY <3>1, Zenon
      <3>3. m \in Nat /\ m <= 1000
        OBVIOUS
      <3>. QED  BY <3>2, <3>3, ZenonT(60)
    <2>3. v[i] = a /\ w[i] = b * a
      BY <1>3, <2>1, <2>2
    <2>4. b * a \in Nat /\ a * b <= a * 1000 /\ a * b = b * a
      BY <2>1, <2>2, Product, Products
    <2>. QED  BY <2>3, <2>4
  <1>5. PICK t \in Nat, s \in Nat : t = SumOf(C, v) /\ s = SumOf(C, w) /\ s <= 1000 * t
    BY <1>2, <1>4, SumIs, SumAtMost
  <1>6. TotalWeight(C, items) = t /\ TotalMatch(C, items) = s
    BY <1>2, <1>3, <1>5, TotalIsSum, MatchedIsSum
  <1>7. FitScore(items) = IF t = 0 THEN 0 ELSE (2 * s + t) \div (2 * t)
    BY <1>1, <1>6 DEF FitScore, TotalWeight, TotalMatch
  <1>8. t # 0 => (2 * s + t) \div (2 * t) \in 0 .. 1000
    <2>. SUFFICES ASSUME t # 0 PROVE (2 * s + t) \div (2 * t) \in 0 .. 1000
      OBVIOUS
    <2>1. PICK d \in Nat, m \in Nat : d = 2 * t /\ m = 2 * s + t /\ d > 0 /\ m < 1001 * d
      BY <1>5
    <2>2. m \div d \in Nat /\ m \div d < 1001
      BY <2>1, Quotient
    <2>. QED  BY <2>1, <2>2
  <1>. QED  BY <1>7, <1>8

-----------------------------------------------------------------------------
(* Scores of vacancies                                                     *)

(* No level counts less than nothing.                                      *)
LEMMA LevelScores ==
  \A x \in DOMAIN LevelScore : LevelScore[x] \in Nat
  BY DEF LevelScore

(* A match is a share of what is required.                                 *)
LEMMA MatchIs ==
  ASSUME NEW c \in Nat, NEW r \in Nat
  PROVE  Match(c, r) \in 0 .. 1000
  <1>1. CASE r > 0
    <2>1. PICK q \in Int : q = (c * 1000) \div r /\ q >= 0
      <3>1. PICK n \in Nat : n = c * 1000
        OBVIOUS
      <3>2. (n \div r) \in Int /\ r * (n \div r) <= n /\ n < r * (n \div r) + r
        BY <1>1, Quotient
      <3>3. PICK q \in Int : q = n \div r /\ n < r * q + r
        BY <3>2
      <3>4. ASSUME q < 0 PROVE FALSE
        <4>1. r * q <= r * (-1)
          BY <3>4, Product
        <4>2. r * (-1) + r = 0 /\ r * q \in Int
          OBVIOUS
        <4>. QED  BY <3>3, <4>1, <4>2
      <3>. QED  BY <3>1, <3>3, <3>4
    <2>2. Match(c, r) = IF q <= 1000 THEN q ELSE 1000
      BY <1>1, <2>1, Lesser DEF Match
    <2>. QED  BY <2>1, <2>2
  <1>2. CASE ~ (r > 0)
    BY <1>2 DEF Match
  <1>. QED  BY <1>1, <1>2

(* Every vacancy is scored, by any of the profiles.                        *)
LEMMA MatchScoreIs ==
  ASSUME NEW needs \in SUBSET Sought, NEW p \in MatchProfile
  PROVE  MatchScore(needs, p.levels) \in Int
  <1>1. IsFiniteSet(needs)
    BY MatchAssumption, FS_Subset
  <1>2. PICK s : s = SetToSeq(needs) /\ s \in Seq(needs) /\ DOMAIN s = 1 .. Cardinality(needs)
    BY <1>1, SetToSeqIs
  <1>. DEFINE items == [i \in DOMAIN s |-> PostingItem(s[i], p.levels)]
  <1>3. DOMAIN items = DOMAIN s /\ \A i \in DOMAIN s : items[i] = PostingItem(s[i], p.levels)
    OBVIOUS
  <1>7. MatchScore(needs, p.levels) = FitScore(items)
    BY <1>2 DEF MatchScore
  <1>. HIDE DEF items
  <1>4. IsFiniteSet(DOMAIN items)
    BY <1>1, <1>2, <1>3, FS_CardinalityType, FS_Interval
  <1>5. ASSUME NEW i \in DOMAIN items
        PROVE  items[i].weight \in Nat /\ items[i].match \in 0 .. 1000
    <2>1. PICK c : c = s[i] /\ c \in Sought
      <3>1. \A j \in DOMAIN s : s[j] \in needs
        BY <1>2, ElementOfSeq, LenProperties
      <3>. QED  BY <1>3, <3>1
    <2>2. PICK x \in Nat : x = LevelScore[p.levels[c]]
      BY <2>1, MatchAssumption, LevelScores
    <2>3. RequiredScore(PostingRequirement(c)) \in Nat
      BY DEF RequiredScore, PostingRequirement, LevelScore
    <2>4. items[i].weight = 1 /\ items[i].match = Match(x, RequiredScore(PostingRequirement(c)))
      BY <1>3, <2>1, <2>2 DEF PostingItem
    <2>5. Match(x, RequiredScore(PostingRequirement(c))) \in 0 .. 1000
      BY <2>3, MatchIs, ZenonT(60)
    <2>. QED  BY <2>4, <2>5
  <1>6. FitScore(items) \in 0 .. 1000
    BY <1>4, <1>5, FitIs
  <1>. QED  BY <1>6, <1>7

(* No plan and no page asks for more than the code shows.                  *)
LEMMA LimitIs ==
  ASSUME NEW r \in Requested, NEW a \in Allowed
  PROVE  Limit(r, a) \in 1 .. MaxRequested
  <1>1. r \in Int /\ a \in Nat /\ MaxRequested \in Nat \ {0}
    BY MatchAssumption
  <1>2. PICK x \in Int : x = Min({MaxRequested, r}) /\ x <= MaxRequested
    BY <1>1, Lesser
  <1>3. PICK w \in 1 .. MaxRequested : w = Max({1, Min({MaxRequested, r})})
    BY <1>1, <1>2, Greater
  <1>4. PICK y \in Int : y = Min({w, a}) /\ y <= w
    BY <1>1, Lesser
  <1>5. Max({1, y}) \in 1 .. MaxRequested
    <2>1. Max({1, y}) = IF 1 >= y THEN 1 ELSE y
      <3>1. \A z \in Int : Max({1, z}) = IF 1 >= z THEN 1 ELSE z
        BY Greater
      <3>. QED  BY <3>1
    <2>2. PICK m \in Nat : m = MaxRequested /\ w <= m /\ 1 <= w /\ w \in Int
      BY <1>1, <1>3
    <2>3. (IF 1 >= y THEN 1 ELSE y) \in 1 .. m
      BY <1>4, <2>2
    <2>. QED  BY <2>1, <2>2, <2>3
  <1>. QED  BY <1>3, <1>4, <1>5 DEF Limit

-----------------------------------------------------------------------------
(* The vacancies and the request                                           *)

(* A map that has some of the vacancies' keys.                             *)
Keyed(X) == UNION {[S -> X] : S \in SUBSET PostingKey}
Needs == SUBSET Sought
Posting == [country : STRING, role : STRING, needs : Needs]
Leveled == {p.levels : p \in MatchProfile}

(* What an import has still to write is the rest of what it was given.     *)
RestOf(left, all) ==
  \E d \in 0 .. Len(all) : /\ Len(left) = Len(all) - d
                           /\ \A i \in 1 .. Len(left) : left[i] = all[i + d]

PostingsFit ==
  /\ profile \in MatchProfile
  /\ posting \in Keyed(Posting)
  /\ newest \in Seq(PostingKey) /\ ToSet(newest) = DOMAIN posting
  /\ \A i, j \in DOMAIN newest : newest[i] = newest[j] => i = j
  /\ answer \in Seq(PostingKey) /\ Len(answer) <= MaxRequested /\ ToSet(answer) \subseteq DOMAIN posting

ImportsFit ==
  /\ importing \in [DOMAIN Import -> [left : Seq(ImportItem), step : {"find", "update", "create"}]]
  /\ \A n \in DOMAIN Import :
       /\ RestOf(importing[n].left, Import[n])
       /\ importing[n].step = "update" => /\ importing[n].left # <<>>
                                          /\ Head(importing[n].left).key \in DOMAIN posting

Searching ==
  [at : {"exact", "country", "role"}, limit : 1 .. MaxRequested,
   country : {p.country : p \in MatchProfile}, role : {p.role : p \in MatchProfile}]
Matching ==
  [at : {"match"}, limit : 1 .. MaxRequested, fetched : Seq(PostingKey), own : Keyed(Leveled),
   score : Keyed(Int), levels : SUBSET Leveled, needs : Keyed(SUBSET Needs)]

(* Each vacancy that was fetched is scored by levels and a row that were   *)
(* current since, and all that fit were fetched if Take allows it.         *)
ScoresFit ==
  /\ \A i, j \in DOMAIN query.fetched : query.fetched[i] = query.fetched[j] => i = j
  /\ ToSet(query.fetched) \subseteq DOMAIN query.needs /\ DOMAIN query.needs \subseteq DOMAIN posting
  /\ Cardinality(DOMAIN query.needs) <= Take => ToSet(query.fetched) = DOMAIN query.needs
  /\ DOMAIN query.score \subseteq DOMAIN query.own /\ DOMAIN query.own \subseteq ToSet(query.fetched)
  /\ profile.levels \in query.levels /\ \A k \in DOMAIN query.own : query.own[k] \in query.levels
  /\ \A k \in DOMAIN query.needs : posting[k].needs \in query.needs[k]
  /\ \A k \in DOMAIN query.score : query.score[k] \in Possible(k)

QueryFits ==
  /\ query \in {NoQuery} \cup [at : {"profile"}, limit : 1 .. MaxRequested] \cup Searching \cup Matching
  /\ query.at = "match" => ScoresFit

MatchInv == PostingsFit /\ ImportsFit /\ QueryFits

(* A keyed map, by its keys.                                               *)
LEMMA KeyedIs ==
  ASSUME NEW X, NEW f \in Keyed(X)
  PROVE  /\ DOMAIN f \in SUBSET PostingKey /\ f \in [DOMAIN f -> X]
         /\ \A k \in DOMAIN f : f[k] \in X
  BY DEF Keyed

(* A map over keys is keyed.                                               *)
LEMMA KeyedBy ==
  ASSUME NEW X, NEW S \in SUBSET PostingKey, NEW f \in [S -> X]
  PROVE  f \in Keyed(X) /\ DOMAIN f = S
  BY DEF Keyed

(* The request that is being answered, by its fields.                      *)
LEMMA MatchingIs ==
  ASSUME QueryFits, query.at = "match"
  PROVE  /\ query \in Matching /\ ScoresFit
         /\ query.limit \in 1 .. MaxRequested /\ query.fetched \in Seq(PostingKey)
         /\ query.own \in Keyed(Leveled) /\ query.score \in Keyed(Int)
         /\ query.levels \in SUBSET Leveled /\ query.needs \in Keyed(SUBSET Needs)
  BY DEF QueryFits, NoQuery, Searching, Matching

(* One field at a time.                                                    *)
LEMMA StaysMatching ==
  ASSUME NEW q \in Matching
  PROVE  /\ \A f \in Keyed(Leveled) : [q EXCEPT !.own = f] \in Matching
         /\ \A f \in Keyed(Int) : [q EXCEPT !.score = f] \in Matching
         /\ \A l \in SUBSET Leveled, f \in Keyed(SUBSET Needs) :
              [q EXCEPT !.levels = l, !.needs = f] \in Matching
  BY DEF Matching

(* Another request, or one that is only noted.                             *)
LEMMA QueryStays ==
  ASSUME QueryFits, PostingsFit, query' = query, profile' = profile, PostingsFit',
         DOMAIN posting \subseteq DOMAIN posting',
         \A k \in DOMAIN posting : posting'[k] = posting[k]
  PROVE  QueryFits'
  <1>1. ASSUME query.at = "match" PROVE ScoresFit'
    <2>1. ScoresFit
      BY <1>1 DEF QueryFits
    <2>2. \A k : Possible(k)' = Possible(k)
      BY DEF Possible
    <2>3. \A k \in DOMAIN query.needs : posting'[k].needs \in query.needs[k]
      BY <2>1 DEF ScoresFit
    <2>. QED  BY <2>1, <2>2, <2>3 DEF ScoresFit
  <1>. QED  BY <1>1 DEF QueryFits

(* What the history notes keeps the scores possible.                       *)
LEMMA NotedFits ==
  ASSUME QueryFits, PostingsFit, PostingsFit', query' = Noted(query, posting', profile'.levels),
         DOMAIN posting \subseteq DOMAIN posting'
  PROVE  QueryFits'
  <1>1. CASE query.at # "match"
    <2>1. query' = query
      BY <1>1 DEF Noted
    <2>. QED  BY <1>1, <2>1 DEF QueryFits
  <1>2. CASE query.at = "match"
    <2>1. query \in Matching /\ ScoresFit /\ query.needs \in Keyed(SUBSET Needs) /\ query.levels \in SUBSET Leveled
      BY <1>2, MatchingIs
    <2>2. profile' \in MatchProfile /\ profile'.levels \in Leveled
      BY DEF PostingsFit, Leveled
    <2>3. PICK l : l = query.levels \cup {profile'.levels} /\ l \in SUBSET Leveled
      BY <2>1, <2>2
    <2>. DEFINE f == [k \in DOMAIN query.needs |-> query.needs[k] \cup {posting'[k].needs}]
    <2>4. query' = [query EXCEPT !.levels = l, !.needs = f]
      BY <1>2, <2>1, <2>3 DEF Noted, Matching
    <2>5. ASSUME NEW k \in DOMAIN query.needs PROVE posting'[k].needs \in Needs /\ query.needs[k] \in SUBSET Needs
      <3>1. k \in DOMAIN posting'
        BY <2>1 DEF ScoresFit
      <3>2. posting' \in Keyed(Posting)
        BY DEF PostingsFit
      <3>3. posting'[k] \in Posting
        BY <3>1, <3>2, KeyedIs
      <3>. QED  BY <2>1, <3>3, KeyedIs DEF Posting
    <2>6. f \in Keyed(SUBSET Needs) /\ DOMAIN f = DOMAIN query.needs
      <3>1. DOMAIN query.needs \in SUBSET PostingKey
        BY <2>1, KeyedIs
      <3>2. f \in [DOMAIN query.needs -> SUBSET Needs]
        BY <2>5
      <3>. HIDE DEF f
      <3>. QED  BY <3>1, <3>2, KeyedBy
    <2>7. \A k \in DOMAIN query.needs : query.needs[k] \subseteq f[k] /\ posting'[k].needs \in f[k]
      OBVIOUS
    <2>. HIDE DEF f
    <2>8. query' \in Matching
      <3>1. PICK q \in Matching : q = query
        BY <2>1
      <3>2. [q EXCEPT !.levels = l, !.needs = f] \in Matching
        BY <2>3, <2>6, StaysMatching
      <3>. QED  BY <2>4, <3>1, <3>2
    <2>9. /\ query'.at = "match" /\ query'.fetched = query.fetched /\ query'.own = query.own
          /\ query'.score = query.score /\ query'.levels = l /\ query'.needs = f
      BY <1>2, <2>1, <2>4 DEF Matching
    <2>10. \A k \in DOMAIN query.score : query.score[k] \in Possible(k)'
      <3>. SUFFICES ASSUME NEW k \in DOMAIN query.score PROVE query.score[k] \in Possible(k)'
        OBVIOUS
      <3>1. query.score[k] \in Possible(k) /\ k \in DOMAIN query.needs
        BY <2>1 DEF ScoresFit
      <3>2. query.levels \subseteq l
        BY <2>3
      <3>. QED  BY <2>7, <2>9, <3>1, <3>2 DEF Possible
    <2>11. profile'.levels \in l /\ query.levels \subseteq l
      BY <2>3
    <2>12. ScoresFit'
      BY <2>1, <2>6, <2>7, <2>9, <2>10, <2>11 DEF ScoresFit
    <2>. QED  BY <2>8, <2>12 DEF QueryFits
  <1>. QED  BY <1>1, <1>2

-----------------------------------------------------------------------------
(* A database without vacancies.                                           *)
LEMMA MatchBegins ==
  ASSUME MatchInit
  PROVE  MatchInv
  <1>1. PostingsFit
    <2>1. posting \in [{} -> Posting] /\ {} \in SUBSET PostingKey
      BY DEF MatchInit
    <2>2. posting \in Keyed(Posting) /\ DOMAIN posting = {}
      BY <2>1, KeyedBy
    <2>3. newest = <<>> /\ answer = <<>> /\ profile \in MatchProfile
      BY DEF MatchInit
    <2>4. /\ newest \in Seq(PostingKey) /\ answer \in Seq(PostingKey) /\ Len(answer) = 0
          /\ DOMAIN newest = {} /\ DOMAIN answer = {}
      BY <2>3
    <2>5. ToSet(newest) = {} /\ ToSet(answer) = {}
      BY <2>4 DEF ToSet
    <2>. QED  BY <2>2, <2>3, <2>4, <2>5, MatchAssumption DEF PostingsFit
  <1>2. ImportsFit
    <2>1. \A n \in DOMAIN Import : Import[n] \in Seq(ImportItem)
      BY MatchAssumption
    <2>2. \A n \in DOMAIN Import : RestOf(Import[n], Import[n])
      <3>. SUFFICES ASSUME NEW n \in DOMAIN Import PROVE RestOf(Import[n], Import[n])
        OBVIOUS
      <3>1. PICK s \in Seq(ImportItem) : s = Import[n]
        BY <2>1
      <3>2. 0 \in 0 .. Len(s) /\ Len(s) = Len(s) - 0 /\ \A i \in 1 .. Len(s) : s[i] = s[i + 0]
        OBVIOUS
      <3>. QED  BY <3>1, <3>2 DEF RestOf
    <2>3. importing = [n \in DOMAIN Import |-> [left |-> Import[n], step |-> "find"]]
      BY DEF MatchInit
    <2>. QED  BY <2>1, <2>2, <2>3 DEF ImportsFit
  <1>3. QueryFits
    BY DEF MatchInit, QueryFits, NoQuery
  <1>. QED  BY <1>1, <1>2, <1>3 DEF MatchInv

(* The user saves the profile beside a request.                            *)
LEMMA SaveProfileKeeps ==
  ASSUME MatchInv, SaveProfile
  PROVE  MatchInv'
  <1>1. PostingsFit' /\ ImportsFit'
    BY DEF MatchInv, PostingsFit, ImportsFit, SaveProfile, RestOf
  <1>2. query' = Noted(query, posting', profile'.levels) /\ DOMAIN posting \subseteq DOMAIN posting'
    BY DEF SaveProfile
  <1>3. QueryFits'
    BY <1>1, <1>2, NotedFits DEF MatchInv
  <1>. QED  BY <1>1, <1>3 DEF MatchInv

(* One item less is left of an import.                                     *)
LEMMA RestIsLess ==
  ASSUME NEW T, NEW all \in Seq(T), NEW left \in Seq(T), RestOf(left, all), left # <<>>
  PROVE  Tail(left) \in Seq(T) /\ RestOf(Tail(left), all)
  <1>1. PICK n \in Nat, m \in Nat : n = Len(left) /\ m = Len(all) /\ n # 0
    BY LenProperties, EmptySeq
  <1>2. PICK d \in 0 .. m : n = m - d /\ \A i \in 1 .. n : left[i] = all[i + d]
    BY <1>1 DEF RestOf
  <1>3. Tail(left) \in Seq(T) /\ Len(Tail(left)) = n - 1 /\ \A i \in 1 .. n - 1 : Tail(left)[i] = left[i + 1]
    BY <1>1, HeadTailProperties
  <1>4. d + 1 \in 0 .. m /\ n - 1 = m - (d + 1)
    BY <1>1, <1>2
  <1>5. \A i \in 1 .. n - 1 : Tail(left)[i] = all[i + (d + 1)]
    <2>. SUFFICES ASSUME NEW i \in 1 .. n - 1 PROVE Tail(left)[i] = all[i + (d + 1)]
      OBVIOUS
    <2>1. i + 1 \in 1 .. n /\ (i + 1) + d = i + (d + 1)
      BY <1>2
    <2>. QED  BY <1>2, <1>3, <2>1
  <1>. QED  BY <1>1, <1>3, <1>4, <1>5 DEF RestOf

(* What an import writes next.                                             *)
LEMMA ImportIs ==
  ASSUME ImportsFit, NEW n \in DOMAIN Import, importing[n].left # <<>>
  PROVE  /\ importing[n].left \in Seq(ImportItem) /\ Head(importing[n].left) \in ImportItem
         /\ Head(importing[n].left).key \in PostingKey /\ Written(Head(importing[n].left)) \in Posting
         /\ importing[n].step \in {"find", "update", "create"}
         /\ Tail(importing[n].left) \in Seq(ImportItem) /\ RestOf(Tail(importing[n].left), Import[n])
  <1>1. importing[n] \in [left : Seq(ImportItem), step : {"find", "update", "create"}]
    BY DEF ImportsFit
  <1>2. importing[n].left \in Seq(ImportItem) /\ RestOf(importing[n].left, Import[n])
    BY <1>1 DEF ImportsFit
  <1>3. Head(importing[n].left) \in ImportItem
    BY <1>2, HeadTailProperties
  <1>4. Import[n] \in Seq(ImportItem)
    BY MatchAssumption
  <1>5. Tail(importing[n].left) \in Seq(ImportItem) /\ RestOf(Tail(importing[n].left), Import[n])
    BY <1>2, <1>4, RestIsLess
  <1>6. \A x \in ImportItem : x.key \in PostingKey /\ Written(x) \in Posting
    BY DEF ImportItem, Written, Posting, Needs
  <1>. QED  BY <1>1, <1>2, <1>3, <1>5, <1>6

(* A step of one import, whatever it leaves of it.                         *)
LEMMA ImportsStay ==
  ASSUME ImportsFit, DOMAIN posting \subseteq DOMAIN posting', NEW n \in DOMAIN Import,
         NEW left \in Seq(ImportItem), RestOf(left, Import[n]), NEW step \in {"find", "update", "create"},
         step = "update" => left # <<>> /\ Head(left).key \in DOMAIN posting',
         importing' = [importing EXCEPT ![n] = [left |-> left, step |-> step]]
  PROVE  ImportsFit'
  <1>1. importing'[n] = [left |-> left, step |-> step] /\ \A m \in DOMAIN Import \ {n} : importing'[m] = importing[m]
    BY DEF ImportsFit
  <1>2. [left |-> left, step |-> step] \in [left : Seq(ImportItem), step : {"find", "update", "create"}]
    OBVIOUS
  <1>3. importing' \in [DOMAIN Import -> [left : Seq(ImportItem), step : {"find", "update", "create"}]]
    BY <1>2 DEF ImportsFit
  <1>4. ASSUME NEW m \in DOMAIN Import
        PROVE  /\ RestOf(importing'[m].left, Import[m])
               /\ importing'[m].step = "update" => /\ importing'[m].left # <<>>
                                                   /\ Head(importing'[m].left).key \in DOMAIN posting'
    BY <1>1 DEF ImportsFit
  <1>. QED  BY <1>3, <1>4 DEF ImportsFit

(* A found row stays, since none is deleted: it can be updated later.      *)
LEMMA FindPostingKeeps ==
  ASSUME MatchInv, NEW n \in DOMAIN Import, FindPosting(n)
  PROVE  MatchInv'
  <1>1. importing[n].left # <<>> /\ UNCHANGED <<profile, posting, newest, query, answer>>
    BY DEF FindPosting
  <1>2. PICK left \in Seq(ImportItem), step \in {"update", "create"} :
          /\ left = importing[n].left /\ RestOf(left, Import[n])
          /\ step = IF Head(left).key \in DOMAIN posting THEN "update" ELSE "create"
          /\ importing' = [importing EXCEPT ![n] = [left |-> left, step |-> step]]
    <2>1. importing[n] \in [left : Seq(ImportItem), step : {"find", "update", "create"}] /\ n \in DOMAIN importing
      BY DEF MatchInv, ImportsFit
    <2>2. PICK left, step : left = importing[n].left /\ step = IF Head(left).key \in DOMAIN posting THEN "update" ELSE "create"
      OBVIOUS
    <2>3. [importing[n] EXCEPT !.step = step] = [left |-> left, step |-> step]
      BY <2>1, <2>2
    <2>4. importing' = [importing EXCEPT ![n] = [left |-> left, step |-> step]]
      BY <2>2, <2>3 DEF FindPosting
    <2>. QED  BY <1>1, <2>1, <2>2, <2>4, Zenon DEF MatchInv, ImportsFit
  <1>3. ImportsFit'
    BY <1>1, <1>2, ImportsStay DEF MatchInv
  <1>4. PostingsFit'
    BY <1>1 DEF MatchInv, PostingsFit
  <1>5. QueryFits'
    BY <1>1, <1>4, QueryStays DEF MatchInv
  <1>. QED  BY <1>3, <1>4, <1>5 DEF MatchInv

(* A row is overwritten; its scores by the row before stay possible.       *)
LEMMA UpdatePostingKeeps ==
  ASSUME MatchInv, NEW n \in DOMAIN Import, UpdatePosting(n)
  PROVE  MatchInv'
  <1>1. /\ importing[n].left # <<>> /\ importing[n].step = "update" /\ UNCHANGED <<profile, newest, answer>>
        /\ query' = Noted(query, posting', profile.levels)
        /\ importing' = [importing EXCEPT ![n] = [left |-> Tail(importing[n].left), step |-> "find"]]
    BY DEF UpdatePosting
  <1>2. PICK k \in PostingKey, row \in Posting, rest \in Seq(ImportItem) :
          /\ k = Head(importing[n].left).key /\ row = Written(Head(importing[n].left))
          /\ rest = Tail(importing[n].left) /\ RestOf(rest, Import[n])
    BY <1>1, ImportIs DEF MatchInv
  <1>3. posting' = [posting EXCEPT ![k] = row]
    BY <1>2 DEF UpdatePosting
  <1>4. posting' \in Keyed(Posting) /\ DOMAIN posting' = DOMAIN posting
    <2>1. posting \in [DOMAIN posting -> Posting] /\ DOMAIN posting \in SUBSET PostingKey
      BY KeyedIs DEF MatchInv, PostingsFit
    <2>2. posting' \in [DOMAIN posting -> Posting]
      BY <1>2, <1>3, <2>1
    <2>. QED  BY <2>1, <2>2, KeyedBy
  <1>5. PostingsFit'
    BY <1>1, <1>4 DEF MatchInv, PostingsFit
  <1>6. ImportsFit'
    BY <1>1, <1>2, <1>4, ImportsStay DEF MatchInv
  <1>7. QueryFits'
    BY <1>1, <1>4, <1>5, NotedFits DEF MatchInv
  <1>. QED  BY <1>5, <1>6, <1>7 DEF MatchInv

(* A list of one.                                                          *)
LEMMA SingleOf ==
  ASSUME NEW T, NEW e \in T
  PROVE  \E y \in Seq(T) : y = <<e>> /\ Len(y) = 1 /\ DOMAIN y = {1} /\ y[1] = e
  <1>1. <<e>> \in Seq(T) /\ Len(<<e>>) = 1 /\ DOMAIN <<e>> = {1} /\ <<e>>[1] = e
    OBVIOUS
  <1>. QED  BY <1>1

(* One more in front of a list.                                            *)
LEMMA InFront ==
  ASSUME NEW T, NEW s \in Seq(T), NEW e \in T, e \notin ToSet(s),
         \A i, j \in DOMAIN s : s[i] = s[j] => i = j
  PROVE  /\ <<e>> \o s \in Seq(T) /\ ToSet(<<e>> \o s) = ToSet(s) \cup {e}
         /\ \A i, j \in DOMAIN (<<e>> \o s) : (<<e>> \o s)[i] = (<<e>> \o s)[j] => i = j
  <1>1. PICK h \in Seq(T) : h = <<e>> /\ Len(h) = 1 /\ DOMAIN h = {1} /\ h[1] = e
    BY SingleOf
  <1>2. PICK n \in Nat : n = Len(s) /\ DOMAIN s = 1 .. n
    BY LenProperties
  <1>3. PICK r : r = h \o s
    OBVIOUS
  <1>4. r \in Seq(T) /\ ToSet(r) = ToSet(h) \cup ToSet(s)
    <2>1. h \o s \in Seq(T) /\ ToSet(h \o s) = ToSet(h) \cup ToSet(s)
      BY Concatenated
    <2>. QED  BY <1>3, <2>1
  <1>5. DOMAIN r = 1 .. n + 1 /\ r[1] = e /\ \A i \in 2 .. n + 1 : r[i] = s[i - 1] /\ i - 1 \in DOMAIN s
    <2>1. Len(r) = 1 + n /\ \A i \in 1 .. 1 + n : r[i] = IF i <= 1 THEN h[i] ELSE s[i - 1]
      BY <1>1, <1>2, <1>3, ConcatProperties
    <2>2. DOMAIN r = 1 .. n + 1
      BY <1>4, <2>1, LenProperties
    <2>3. r[1] = e
      BY <1>1, <2>1
    <2>. QED  BY <1>2, <2>1, <2>2, <2>3
  <1>6. ToSet(h) = {e}
    BY <1>1 DEF ToSet
  <1>7. ASSUME NEW i \in DOMAIN r, NEW j \in DOMAIN r, r[i] = r[j] PROVE i = j
    <2>1. \A x \in DOMAIN s : s[x] # e
      BY DEF ToSet
    <2>2. i = 1 \/ i \in 2 .. n + 1
      BY <1>5
    <2>3. j = 1 \/ j \in 2 .. n + 1
      BY <1>5
    <2>4. CASE i = 1 \/ j = 1
      BY <1>5, <1>7, <2>1, <2>2, <2>3, <2>4
    <2>5. CASE i \in 2 .. n + 1 /\ j \in 2 .. n + 1
      <3>1. s[i - 1] = s[j - 1] /\ i - 1 \in DOMAIN s /\ j - 1 \in DOMAIN s
        BY <1>5, <1>7, <2>5
      <3>2. i - 1 = j - 1
        BY <3>1
      <3>. QED  BY <2>5, <3>2
    <2>. QED  BY <2>2, <2>3, <2>4, <2>5
  <1>. QED  BY <1>1, <1>3, <1>4, <1>6, <1>7

(* A new row is the newest; its key was not there.                         *)
LEMMA CreatePostingKeeps ==
  ASSUME MatchInv, NEW n \in DOMAIN Import, CreatePosting(n)
  PROVE  MatchInv'
  <1>1. importing[n].left # <<>> /\ UNCHANGED <<profile, query, answer>>
    BY DEF CreatePosting
  <1>2. PICK k \in PostingKey, row \in Posting, rest \in Seq(ImportItem) :
          /\ k = Head(importing[n].left).key /\ row = Written(Head(importing[n].left))
          /\ rest = Tail(importing[n].left) /\ RestOf(rest, Import[n])
    BY <1>1, ImportIs DEF MatchInv
  <1>3. CASE k \in DOMAIN posting
    <2>1. UNCHANGED <<posting, newest>> /\ importing' = [importing EXCEPT ![n].left = <<>>]
      BY <1>2, <1>3 DEF CreatePosting
    <2>2. PostingsFit'
      BY <1>1, <2>1 DEF MatchInv, PostingsFit
    <2>3. PICK step \in {"find", "update", "create"} : step = importing[n].step /\ step = "create"
      BY DEF CreatePosting
    <2>4. importing' = [importing EXCEPT ![n] = [left |-> <<>>, step |-> step]]
      <3>1. importing[n] \in [left : Seq(ImportItem), step : {"find", "update", "create"}] /\ n \in DOMAIN importing
        BY DEF MatchInv, ImportsFit
      <3>2. PICK r \in [left : Seq(ImportItem), step : {"find", "update", "create"}] :
              r = importing[n] /\ r.step = step
        BY <2>3, <3>1
      <3>3. [r EXCEPT !.left = <<>>] = [left |-> <<>>, step |-> r.step]
        OBVIOUS
      <3>. QED  BY <2>1, <3>2, <3>3
    <2>5. RestOf(<<>>, Import[n]) /\ <<>> \in Seq(ImportItem)
      <3>1. PICK s \in Seq(ImportItem) : s = Import[n]
        BY MatchAssumption
      <3>2. Len(s) \in 0 .. Len(s) /\ 0 = Len(s) - Len(s) /\ Len(<<>>) = 0
        OBVIOUS
      <3>. QED  BY <3>1, <3>2 DEF RestOf
    <2>6. ImportsFit'
      BY <2>1, <2>3, <2>4, <2>5, ImportsStay DEF MatchInv
    <2>7. QueryFits'
      BY <1>1, <2>1, <2>2, QueryStays DEF MatchInv
    <2>. QED  BY <2>2, <2>6, <2>7 DEF MatchInv
  <1>4. CASE k \notin DOMAIN posting
    <2>1. /\ posting' = Put(posting, k, row) /\ newest' = <<k>> \o newest
          /\ importing' = [importing EXCEPT ![n] = [left |-> rest, step |-> "find"]]
      BY <1>2, <1>4 DEF CreatePosting
    <2>2. posting \in [DOMAIN posting -> Posting] /\ DOMAIN posting \in SUBSET PostingKey
      BY KeyedIs DEF MatchInv, PostingsFit
    <2>3. PICK S : S = DOMAIN posting
      OBVIOUS
    <2>4. /\ posting' \in [S \cup {k} -> Posting] /\ \A x \in S : x # k => posting'[x] = posting[x]
      <3>1. PICK f \in [S -> Posting] : f = posting
        BY <2>2, <2>3
      <3>2. /\ Put(f, k, row) \in [S \cup {k} -> Posting]
            /\ \A x \in S : x # k => Put(f, k, row)[x] = f[x]
        <4>1. DOMAIN f = S /\ row \in Posting
          BY <1>2
        <4>. QED  BY <4>1 DEF Put
      <3>. QED  BY <2>1, <3>1, <3>2
    <2>5. posting' \in Keyed(Posting) /\ DOMAIN posting' = S \cup {k}
      BY <1>2, <2>2, <2>3, <2>4, KeyedBy
    <2>6. /\ newest' \in Seq(PostingKey) /\ ToSet(newest') = S \cup {k}
          /\ \A i, j \in DOMAIN newest' : newest'[i] = newest'[j] => i = j
      <3>1. PICK t \in Seq(PostingKey) :
              t = newest /\ ToSet(t) = S /\ \A i, j \in DOMAIN t : t[i] = t[j] => i = j
        BY <2>3 DEF MatchInv, PostingsFit
      <3>2. k \in PostingKey /\ k \notin ToSet(t)
        BY <1>2, <1>4, <2>3, <3>1
      <3>3. /\ <<k>> \o t \in Seq(PostingKey) /\ ToSet(<<k>> \o t) = ToSet(t) \cup {k}
            /\ \A i, j \in DOMAIN (<<k>> \o t) : (<<k>> \o t)[i] = (<<k>> \o t)[j] => i = j
        BY <3>1, <3>2, InFront
      <3>. QED  BY <2>1, <3>1, <3>3, Zenon
    <2>7. PostingsFit'
      BY <1>1, <2>3, <2>5, <2>6 DEF MatchInv, PostingsFit
    <2>8. ImportsFit'
      BY <1>2, <2>1, <2>3, <2>5, ImportsStay DEF MatchInv
    <2>9. QueryFits'
      BY <1>1, <1>4, <2>3, <2>4, <2>5, <2>7, QueryStays DEF MatchInv
    <2>. QED  BY <2>7, <2>8, <2>9 DEF MatchInv
  <1>. QED  BY <1>3, <1>4

-----------------------------------------------------------------------------
(* The request for the best matches                                        *)

Distinct(s) == \A i, j \in DOMAIN s : s[i] = s[j] => i = j

(* A list without repetitions is as long as what it holds.                 *)
LEMMA CountIs ==
  ASSUME NEW T, NEW s \in Seq(T), Distinct(s)
  PROVE  IsFiniteSet(ToSet(s)) /\ Cardinality(ToSet(s)) = Len(s)
  <1>1. PICK n \in Nat : n = Len(s) /\ DOMAIN s = 1 .. n /\ s \in [1 .. n -> T]
    BY LenProperties
  <1>2. ToSet(s) = {s[i] : i \in 1 .. n}
    BY <1>1 DEF ToSet
  <1>3. s \in [1 .. n -> ToSet(s)]
    BY <1>1, <1>2
  <1>4. s \in Bijection(1 .. n, ToSet(s))
    BY <1>1, <1>2, <1>3 DEF Distinct, Bijection, Injection, Surjection, IsInjective
  <1>5. ExistsBijection(1 .. n, ToSet(s))
    BY <1>4 DEF ExistsBijection
  <1>6. IsFiniteSet(1 .. n) /\ Cardinality(1 .. n) = n
    <2>1. \A k \in Nat : IsFiniteSet(1 .. k) /\ Cardinality(1 .. k) = k
      BY FS_Interval
    <2>. QED  BY <1>1, <2>1
  <1>. QED  BY <1>1, <1>5, <1>6, FS_Bijection

(* The first m elements.                                                   *)
LEMMA FirstsAre ==
  ASSUME NEW T, NEW s \in Seq(T), NEW m \in 0 .. Len(s)
  PROVE  /\ SubSeq(s, 1, m) \in Seq(T) /\ Len(SubSeq(s, 1, m)) = m
         /\ DOMAIN SubSeq(s, 1, m) = 1 .. m
         /\ \A i \in 1 .. m : SubSeq(s, 1, m)[i] = s[i]
         /\ m = Len(s) => SubSeq(s, 1, m) = s
  <1>1. PICK n \in Nat : n = Len(s) /\ DOMAIN s = 1 .. n /\ \A i \in 1 .. n : s[i] \in T
    BY LenProperties, ElementOfSeq
  <1>2. PICK k \in Nat : k = m /\ k <= n
    BY <1>1
  <1>3. PICK r : r = SubSeq(s, 1, k)
    OBVIOUS
  <1>4. /\ r \in Seq(T) /\ Len(r) = IF 1 <= k THEN k - 1 + 1 ELSE 0
        /\ \A i \in 1 .. k - 1 + 1 : r[i] = s[1 + i - 1]
    <2>1. \A i \in 1 .. k : s[i] \in T
      BY <1>1, <1>2
    <2>. QED  BY <1>2, <1>3, <2>1, SubSeqProperties
  <1>5. Len(r) = k /\ DOMAIN r = 1 .. k /\ \A i \in 1 .. k : r[i] = s[i]
    <2>1. Len(r) = k
      BY <1>2, <1>4
    <2>2. \A i \in 1 .. k : i \in 1 .. k - 1 + 1 /\ 1 + i - 1 = i
      BY <1>2
    <2>. QED  BY <1>4, <2>1, <2>2, LenProperties
  <1>6. k = n => r = s
    <2>. SUFFICES ASSUME k = n PROVE r = s
      OBVIOUS
    <2>1. Len(r) = Len(s) /\ \A i \in 1 .. Len(r) : r[i] = s[i]
      BY <1>1, <1>5
    <2>. QED  BY <1>4, <2>1, SeqEqual
  <1>. QED  BY <1>1, <1>2, <1>3, <1>4, <1>5, <1>6

Fitting == {k \in DOMAIN posting : Fits(k)}

(* What is fetched fits, each once, and is all that fits if Take allows it.*)
LEMMA FetchedIs ==
  ASSUME PostingsFit
  PROVE  /\ Fetched \in Seq(PostingKey) /\ Distinct(Fetched) /\ ToSet(Fetched) \subseteq Fitting
         /\ Cardinality(Fitting) <= Take => ToSet(Fetched) = Fitting
         /\ IsFiniteSet(Fitting)
  <1>1. PICK s \in Seq(PostingKey) : s = newest /\ Distinct(s) /\ ToSet(s) = DOMAIN posting
    BY DEF PostingsFit, Distinct
  <1>2. PICK S : S = {i \in DOMAIN newest : Fits(newest[i])} /\ S \subseteq DOMAIN s /\ S \cap DOMAIN s = S
    BY <1>1
  <1>3. PICK p \in Seq(PostingKey) : p = Picked(s, S) /\ \E f : From(p, s, S, f)
    <2>1. Picked(s, S) \in Seq(PostingKey) /\ \E f : From(Picked(s, S), s, S \cap DOMAIN s, f)
      BY PickedIs
    <2>2. Picked(s, S) \in Seq(PostingKey) /\ \E f : From(Picked(s, S), s, S, f)
      BY <1>2, <2>1
    <2>. QED  BY <2>2
  <1>13. PICK f : From(p, s, S, f)
    BY <1>3
  <1>4. DOMAIN p = 1 .. Len(p) /\ Len(p) \in Nat
    BY LenProperties
  <1>5. ToSet(p) = Fitting
    <2>1. ToSet(p) = {s[i] : i \in S}
      BY <1>2, <1>4, <1>13, PickedRange
    <2>2. \A k \in ToSet(s) : \E i \in DOMAIN s : s[i] = k
      BY DEF ToSet
    <2>3. \A i \in DOMAIN s : s[i] \in ToSet(s)
      BY DEF ToSet
    <2>. QED  BY <1>1, <1>2, <2>1, <2>2, <2>3 DEF Fitting
  <1>6. Distinct(p)
    <2>. SUFFICES ASSUME NEW i \in 1 .. Len(p), NEW j \in 1 .. Len(p), p[i] = p[j] PROVE i = j
      BY <1>4 DEF Distinct
    <2>1. f[i] \in S /\ f[j] \in S /\ s[f[i]] = s[f[j]]
      BY <1>13 DEF From
    <2>2. f[i] = f[j]
      BY <1>1, <1>2, <2>1 DEF Distinct
    <2>3. f[i] \in Int
      BY <1>2, <2>1, LenProperties
    <2>4. ~ (i < j) /\ ~ (j < i)
      BY <1>13, <2>2, <2>3 DEF From
    <2>. QED  BY <1>4, <2>4
  <1>7. IsFiniteSet(Fitting) /\ Cardinality(Fitting) = Len(p)
    BY <1>5, <1>6, CountIs
  <1>8. PICK m \in 0 .. Len(p) : m = Min({Take, Len(p)}) /\ (Len(p) <= Take => m = Len(p))
    <2>1. Take \in Int /\ Len(p) \in Int /\ 0 <= Take /\ 0 <= Len(p)
      BY <1>4, MatchAssumption
    <2>2. Min({Take, Len(p)}) = IF Take <= Len(p) THEN Take ELSE Len(p)
      BY <2>1, Lesser
    <2>. QED  BY <2>1, <2>2
  <1>9. Fetched = SubSeq(p, 1, m)
    BY <1>1, <1>2, <1>3, <1>8 DEF Fetched
  <1>10. PICK r \in Seq(PostingKey) : /\ r = Fetched /\ Len(r) = m /\ DOMAIN r = 1 .. m
                                      /\ \A i \in 1 .. m : r[i] = p[i]
                                      /\ m = Len(p) => r = p
    BY <1>9, FirstsAre, ZenonT(60)
  <1>11. Distinct(r)
    <2>1. \A i \in DOMAIN r : i \in DOMAIN p /\ r[i] = p[i]
      <3>1. \A i \in 1 .. m : i \in 1 .. Len(p)
        BY <1>4, <1>8
      <3>. QED  BY <1>4, <1>10, <3>1
    <2>. QED  BY <1>6, <2>1 DEF Distinct
  <1>12. ToSet(r) \subseteq ToSet(p)
    <2>1. \A i \in DOMAIN r : i \in DOMAIN p /\ r[i] = p[i]
      <3>1. \A i \in 1 .. m : i \in 1 .. Len(p)
        BY <1>4, <1>8
      <3>. QED  BY <1>4, <1>10, <3>1
    <2>. QED  BY <2>1 DEF ToSet
  <1>. QED  BY <1>5, <1>7, <1>8, <1>10, <1>11, <1>12

-----------------------------------------------------------------------------
(* The steps of the request, one by one.                                   *)
LEMMA AskKeeps ==
  ASSUME MatchInv, AskTopMatches
  PROVE  MatchInv'
  <1>1. PostingsFit' /\ ImportsFit'
    BY DEF MatchInv, PostingsFit, ImportsFit, AskTopMatches, RestOf
  <1>2. PICK r \in Requested, a \in Allowed : query' = [at |-> "profile", limit |-> Limit(r, a)]
    BY DEF AskTopMatches
  <1>3. query' \in [at : {"profile"}, limit : 1 .. MaxRequested] /\ query'.at = "profile"
    BY <1>2, LimitIs
  <1>. QED  BY <1>1, <1>3 DEF MatchInv, QueryFits

(* The profile that is searched for.                                       *)
LEMMA RequireKeeps ==
  ASSUME MatchInv, RequireProfile
  PROVE  MatchInv'
  <1>1. PostingsFit' /\ ImportsFit'
    BY DEF MatchInv, PostingsFit, ImportsFit, RequireProfile, RestOf
  <1>2. query.limit \in 1 .. MaxRequested /\ profile \in MatchProfile
    BY DEF MatchInv, PostingsFit, QueryFits, RequireProfile, Searching, Matching, NoQuery
  <1>3. query' \in Searching /\ query'.at = "exact"
    BY <1>2 DEF RequireProfile, Searching
  <1>. QED  BY <1>1, <1>3 DEF MatchInv, QueryFits

(* The history begins with what is current when the candidates are fetched.*)
LEMMA FetchKeeps ==
  ASSUME MatchInv, FetchCandidates
  PROVE  MatchInv'
  <1>1. PostingsFit' /\ ImportsFit' /\ UNCHANGED <<profile, posting>>
    BY DEF MatchInv, PostingsFit, ImportsFit, FetchCandidates, RestOf
  <1>2. query \in Searching /\ query.limit \in 1 .. MaxRequested
    BY DEF MatchInv, QueryFits, FetchCandidates, Searching, Matching, NoQuery
  <1>3. CASE Fetched = <<>> /\ query.at # "role"
    <2>1. query' = [query EXCEPT !.at = After[query.at]]
      BY <1>3 DEF FetchCandidates
    <2>2. query.at \in {"exact", "country"} /\ After[query.at] \in {"country", "role"}
      BY <1>2, <1>3 DEF Searching, After
    <2>3. query' \in Searching /\ query'.at # "match"
      BY <1>2, <2>1, <2>2 DEF Searching
    <2>. QED  BY <1>1, <2>3 DEF MatchInv, QueryFits
  <1>4. CASE ~ (Fetched = <<>> /\ query.at # "role")
    <2>. DEFINE f == [k \in Fitting |-> {posting[k].needs}]
    <2>1. query' = [at |-> "match", limit |-> query.limit, fetched |-> Fetched, own |-> <<>>, score |-> <<>>,
                    levels |-> {profile.levels}, needs |-> f]
      BY <1>4 DEF FetchCandidates, Fitting
    <2>2. posting \in Keyed(Posting) /\ profile \in MatchProfile /\ PostingsFit
      BY DEF MatchInv, PostingsFit
    <2>3. Fitting \in SUBSET PostingKey /\ Fitting \subseteq DOMAIN posting
      BY <2>2, KeyedIs DEF Fitting
    <2>4. f \in Keyed(SUBSET Needs) /\ DOMAIN f = Fitting /\ \A k \in Fitting : f[k] = {posting[k].needs}
      <3>1. \A k \in Fitting : {posting[k].needs} \in SUBSET Needs
        <4>1. \A k \in DOMAIN posting : posting[k] \in Posting
          BY <2>2, KeyedIs
        <4>2. \A x \in Posting : x.needs \in Needs
          BY DEF Posting
        <4>. QED  BY <2>3, <4>1, <4>2
      <3>2. f \in [Fitting -> SUBSET Needs] /\ \A k \in Fitting : f[k] = {posting[k].needs}
        BY <3>1
      <3>. HIDE DEF f
      <3>. QED  BY <2>3, <3>2, KeyedBy
    <2>5. <<>> \in Keyed(Leveled) /\ <<>> \in Keyed(Int) /\ DOMAIN <<>> = {}
      <3>1. <<>> \in [{} -> Leveled] /\ <<>> \in [{} -> Int] /\ {} \in SUBSET PostingKey
        OBVIOUS
      <3>. QED  BY <3>1, KeyedBy
    <2>6. /\ Fetched \in Seq(PostingKey) /\ Distinct(Fetched) /\ ToSet(Fetched) \subseteq Fitting
          /\ Cardinality(Fitting) <= Take => ToSet(Fetched) = Fitting
      BY <2>2, FetchedIs
    <2>7. {profile.levels} \in SUBSET Leveled
      BY <2>2 DEF Leveled
    <2>. HIDE DEF f
    <2>8. query' \in Matching
      BY <1>2, <2>1, <2>4, <2>5, <2>6, <2>7 DEF Matching
    <2>9. /\ query'.fetched = Fetched /\ query'.own = <<>> /\ query'.score = <<>>
          /\ query'.levels = {profile.levels} /\ query'.needs = f
      BY <2>1
    <2>10. ScoresFit'
      <3>1. Distinct(query'.fetched)
        BY <2>6, <2>9
      <3>2. \A k \in DOMAIN query'.score : query'.score[k] \in Possible(k)'
        BY <2>5, <2>9
      <3>. QED  BY <1>1, <2>3, <2>4, <2>5, <2>6, <2>9, <3>1, <3>2 DEF ScoresFit, Distinct
    <2>. QED  BY <1>1, <2>8, <2>10 DEF MatchInv, QueryFits
  <1>. QED  BY <1>3, <1>4

(* A level is read that was current since the candidates were fetched.     *)
LEMMA ReadProfileKeeps ==
  ASSUME MatchInv, NEW k \in PostingKey, ReadProfile(k)
  PROVE  MatchInv'
  <1>1. PostingsFit' /\ ImportsFit' /\ UNCHANGED <<profile, posting>>
    BY DEF MatchInv, PostingsFit, ImportsFit, ReadProfile, RestOf
  <1>2. query.at = "match" /\ k \in ToSet(query.fetched) \ DOMAIN query.own
    BY DEF ReadProfile
  <1>3. PICK q \in Matching : q = query /\ ScoresFit /\ q.own \in Keyed(Leveled)
    BY <1>2, MatchingIs DEF MatchInv
  <1>4. PICK S \in SUBSET PostingKey : S = DOMAIN q.own /\ q.own \in [S -> Leveled]
    BY <1>3, KeyedIs
  <1>12. PICK f \in [S -> Leveled] : f = q.own /\ DOMAIN f = S
    BY <1>4
  <1>5. PICK l \in Leveled : l = profile.levels
    BY DEF MatchInv, PostingsFit, Leveled
  <1>6. PICK g : g = Put(f, k, l)
    OBVIOUS
  <1>7. g \in [S \cup {k} -> Leveled] /\ g[k] = l /\ \A x \in S : x # k => g[x] = f[x]
    <2>1. l \in Leveled /\ DOMAIN f = S /\ \A x \in S : f[x] \in Leveled
      BY <1>4, <1>12, <1>5
    <2>. QED  BY <1>6, <2>1 DEF Put
  <1>8. g \in Keyed(Leveled) /\ DOMAIN g = S \cup {k}
    BY <1>4, <1>12, <1>7, KeyedBy
  <1>9. query' = [q EXCEPT !.own = g]
    BY <1>3, <1>4, <1>12, <1>5, <1>6 DEF ReadProfile
  <1>10. query' \in Matching /\ query'.own = g /\ query'.fetched = q.fetched /\ query'.score = q.score
         /\ query'.levels = q.levels /\ query'.needs = q.needs
    <2>1. [q EXCEPT !.own = g] \in Matching
      BY <1>8, StaysMatching
    <2>. QED  BY <1>9, <2>1 DEF Matching
  <1>11. ScoresFit'
    <2>1. \A x : Possible(x)' = Possible(x)
      BY <1>3, <1>10 DEF Possible
    <2>2. \A x \in DOMAIN g : g[x] \in q.levels
      BY <1>2, <1>3, <1>4, <1>12, <1>5, <1>7, <1>8 DEF ScoresFit
    <2>. QED  BY <1>1, <1>2, <1>3, <1>4, <1>12, <1>8, <1>10, <2>1, <2>2 DEF ScoresFit
  <1>. QED  BY <1>1, <1>10, <1>11 DEF MatchInv, QueryFits

(* A score is possible: its levels and its row were current.               *)
LEMMA MatchPostingKeeps ==
  ASSUME MatchInv, NEW k \in PostingKey, MatchPosting(k)
  PROVE  MatchInv'
  <1>1. PostingsFit' /\ ImportsFit' /\ UNCHANGED <<profile, posting>>
    BY DEF MatchInv, PostingsFit, ImportsFit, MatchPosting, RestOf
  <1>2. query.at = "match" /\ k \in DOMAIN query.own \ DOMAIN query.score
    BY DEF MatchPosting
  <1>3. PICK q \in Matching : q = query /\ ScoresFit /\ q.own \in Keyed(Leveled) /\ q.score \in Keyed(Int)
    BY <1>2, MatchingIs DEF MatchInv
  <1>4. PICK S \in SUBSET PostingKey : S = DOMAIN q.score /\ q.score \in [S -> Int]
    BY <1>3, KeyedIs
  <1>13. PICK f \in [S -> Int] : f = q.score /\ DOMAIN f = S
    BY <1>4
  <1>5. k \in DOMAIN q.needs /\ k \in DOMAIN posting /\ q.own[k] \in q.levels /\ posting[k].needs \in q.needs[k]
    BY <1>2, <1>3 DEF ScoresFit
  <1>6. PICK v \in Int : v = MatchScore(posting[k].needs, q.own[k])
    <2>1. posting[k] \in Posting
      BY <1>5, KeyedIs DEF MatchInv, PostingsFit
    <2>2. PICK n \in SUBSET Sought : n = posting[k].needs
      BY <2>1 DEF Posting, Needs
    <2>3. q.own[k] \in Leveled
      BY <1>2, <1>3, KeyedIs
    <2>4. PICK p \in MatchProfile : q.own[k] = p.levels
      BY <2>3 DEF Leveled
    <2>. QED  BY <2>2, <2>4, MatchScoreIs
  <1>7. PICK g : g = Put(f, k, v)
    OBVIOUS
  <1>8. g \in [S \cup {k} -> Int] /\ g[k] = v /\ \A x \in S : x # k => g[x] = f[x]
    <2>1. v \in Int /\ DOMAIN f = S /\ \A x \in S : f[x] \in Int
      BY <1>4, <1>13, <1>6
    <2>. QED  BY <1>7, <2>1 DEF Put
  <1>9. g \in Keyed(Int) /\ DOMAIN g = S \cup {k}
    BY <1>4, <1>13, <1>8, KeyedBy
  <1>10. query' = [q EXCEPT !.score = g]
    BY <1>3, <1>4, <1>13, <1>6, <1>7 DEF MatchPosting
  <1>11. query' \in Matching /\ query'.own = q.own /\ query'.fetched = q.fetched /\ query'.score = g
         /\ query'.levels = q.levels /\ query'.needs = q.needs
    <2>1. [q EXCEPT !.score = g] \in Matching
      BY <1>9, StaysMatching
    <2>. QED  BY <1>10, <2>1 DEF Matching
  <1>12. ScoresFit'
    <2>1. \A x : Possible(x)' = Possible(x)
      BY <1>3, <1>11 DEF Possible
    <2>2. v \in Possible(k)
      BY <1>3, <1>5, <1>6 DEF Possible
    <2>3. \A x \in DOMAIN g : g[x] \in Possible(x)
      BY <1>3, <1>4, <1>13, <1>8, <1>9, <2>2 DEF ScoresFit
    <2>. QED  BY <1>1, <1>2, <1>3, <1>4, <1>13, <1>9, <1>11, <2>1, <2>3 DEF ScoresFit
  <1>. QED  BY <1>1, <1>11, <1>12 DEF MatchInv, QueryFits

(* How a request is answered: by the order p of what was fetched.          *)
AnsweredBy(n, m, p) ==
  /\ n = Len(query.fetched) /\ DOMAIN query.fetched = 1 .. n
  /\ m \in 0 .. n /\ m = Min({query.limit, n})
  /\ p \in [1 .. n -> 1 .. n]
  /\ \A i, j \in 1 .. n : p[i] = p[j] => i = j
  /\ \A j \in 1 .. n : \E i \in 1 .. n : p[i] = j
  /\ \A i, j \in 1 .. n : i < j => query.score[query.fetched[p[i]]] >= query.score[query.fetched[p[j]]]
  /\ answer' \in Seq(PostingKey) /\ Len(answer') = m /\ DOMAIN answer' = 1 .. m
  /\ \A i \in 1 .. m : answer'[i] = query.fetched[p[i]]

(* The answer is what a sort puts first.                                   *)
LEMMA AnsweredIs ==
  ASSUME MatchInv, AnswerTopMatches
  PROVE  \E n \in Nat : \E m, p : AnsweredBy(n, m, p)
  <1>1. query.at = "match" /\ DOMAIN query.score = ToSet(query.fetched) /\ query \in Matching
    BY MatchingIs DEF AnswerTopMatches, MatchInv
  <1>2. PICK s \in Seq(PostingKey) : s = query.fetched
    BY <1>1 DEF Matching
  <1>3. PICK n \in Nat : n = Len(s) /\ DOMAIN s = 1 .. n
    BY LenProperties
  <1>4. PICK key : key = [i \in DOMAIN s |-> query.score[s[i]]]
    OBVIOUS
  <1>5. key \in [DOMAIN s -> Int] /\ \A i \in 1 .. n : key[i] = query.score[s[i]]
    <2>1. \A k \in DOMAIN query.score : query.score[k] \in Int
      <3>1. query.score \in Keyed(Int)
        BY <1>1 DEF Matching
      <3>. QED  BY <3>1, KeyedIs
    <2>2. \A i \in DOMAIN s : s[i] \in DOMAIN query.score
      BY <1>1, <1>2 DEF ToSet
    <2>. QED  BY <1>3, <1>4, <2>1, <2>2
  <1>6. PICK d \in Seq(PostingKey) : d = Descending(s, key) /\ Len(d) = n /\ \E p : SortedBy(s, key, d, p)
    BY <1>3, <1>5, DescendingIs
  <1>7. PICK p : SortedBy(s, key, d, p)
    BY <1>6
  <1>8. PICK limit \in 1 .. MaxRequested : limit = query.limit
    BY <1>1 DEF Matching
  <1>9. PICK m \in 0 .. n : m = Min({limit, n})
    <2>1. limit \in Int /\ 1 <= limit
      BY MatchAssumption
    <2>2. Min({limit, n}) = IF limit <= n THEN limit ELSE n
      BY <2>1, Lesser
    <2>. QED  BY <2>1, <2>2
  <1>10. answer' = SubSeq(d, 1, m)
    BY <1>2, <1>4, <1>6, <1>8, <1>9 DEF AnswerTopMatches
  <1>11. PICK r \in Seq(PostingKey) : r = answer' /\ Len(r) = m /\ DOMAIN r = 1 .. m /\ \A i \in 1 .. m : r[i] = d[i]
    <2>1. m \in 0 .. Len(d) /\ Len(d) = n
      BY <1>6, <1>9
    <2>2. /\ SubSeq(d, 1, m) \in Seq(PostingKey) /\ Len(SubSeq(d, 1, m)) = m /\ DOMAIN SubSeq(d, 1, m) = 1 .. m
          /\ \A i \in 1 .. m : SubSeq(d, 1, m)[i] = d[i]
      BY <2>1, FirstsAre
    <2>. QED  BY <1>10, <2>2
  <1>12. /\ p \in [1 .. n -> 1 .. n]
         /\ \A i \in 1 .. n : d[i] = s[p[i]]
         /\ \A i, j \in 1 .. n : p[i] = p[j] => i = j
         /\ \A j \in 1 .. n : \E i \in 1 .. n : p[i] = j
         /\ \A i, j \in 1 .. n : i < j => Ahead(key, p[i], p[j])
    BY <1>3, <1>7 DEF SortedBy
  <1>13. \A i, j \in 1 .. n : i < j => query.score[s[p[i]]] >= query.score[s[p[j]]]
    <2>. SUFFICES ASSUME NEW i \in 1 .. n, NEW j \in 1 .. n, i < j
                  PROVE  query.score[s[p[i]]] >= query.score[s[p[j]]]
      OBVIOUS
    <2>1. PICK a \in 1 .. n, b \in 1 .. n : a = p[i] /\ b = p[j] /\ Ahead(key, a, b)
      BY <1>12
    <2>2. key[a] \in Int /\ key[b] \in Int /\ key[a] >= key[b]
      BY <1>3, <1>5, <2>1 DEF Ahead
    <2>. QED  BY <1>5, <2>1, <2>2
  <1>14. \A i \in 1 .. m : r[i] = s[p[i]]
    <2>1. \A i \in 1 .. m : i \in 1 .. n
      BY <1>3, <1>9
    <2>. QED  BY <1>11, <1>12, <2>1
  <1>15. AnsweredBy(n, m, p)
    <2>1. m \in 0 .. n /\ m = Min({query.limit, n})
      BY <1>8, <1>9
    <2>2. answer' \in Seq(PostingKey) /\ Len(answer') = m /\ DOMAIN answer' = 1 .. m
          /\ \A i \in 1 .. m : answer'[i] = query.fetched[p[i]]
      BY <1>2, <1>11, <1>14
    <2>. QED  BY <1>2, <1>3, <1>12, <1>13, <2>1, <2>2 DEF AnsweredBy
  <1>. QED  BY <1>3, <1>15

(* The answer names rows there are, no more than the code shows.           *)
LEMMA AnswerKeeps ==
  ASSUME MatchInv, AnswerTopMatches
  PROVE  MatchInv'
  <1>1. query' = NoQuery /\ UNCHANGED <<profile, posting, newest, importing>>
    BY DEF AnswerTopMatches
  <1>2. PICK n \in Nat : \E m, p : AnsweredBy(n, m, p)
    BY AnsweredIs
  <1>3. PICK m, p : AnsweredBy(n, m, p)
    BY <1>2
  <1>4. query \in Matching /\ ScoresFit /\ query.limit \in 1 .. MaxRequested
    BY MatchingIs DEF MatchInv, AnswerTopMatches
  <1>5. answer' \in Seq(PostingKey) /\ Len(answer') <= MaxRequested
    <2>1. Min({query.limit, n}) = IF query.limit <= n THEN query.limit ELSE n
      BY <1>4, Lesser
    <2>2. PICK l \in 1 .. MaxRequested : l = query.limit
      BY <1>4
    <2>3. m <= l
      BY <1>3, <2>1, <2>2 DEF AnsweredBy
    <2>. QED  BY <1>3, <2>2, <2>3, MatchAssumption DEF AnsweredBy
  <1>6. ToSet(answer') \subseteq DOMAIN posting
    <2>1. \A i \in 1 .. m : i \in 1 .. n /\ p[i] \in DOMAIN query.fetched
      <3>1. m \in 0 .. n /\ p \in [1 .. n -> 1 .. n] /\ DOMAIN query.fetched = 1 .. n
        BY <1>3 DEF AnsweredBy
      <3>2. \A i \in 1 .. m : i \in 1 .. n
        BY <1>2, <3>1
      <3>. QED  BY <3>1, <3>2
    <2>2. \A i \in DOMAIN answer' : answer'[i] \in ToSet(query.fetched)
      <3>1. DOMAIN answer' = 1 .. m /\ \A i \in 1 .. m : answer'[i] = query.fetched[p[i]]
        BY <1>3 DEF AnsweredBy
      <3>2. \A a \in DOMAIN query.fetched : query.fetched[a] \in ToSet(query.fetched)
        BY DEF ToSet
      <3>. QED  BY <2>1, <3>1, <3>2
    <2>. QED  BY <1>4, <2>2 DEF ScoresFit, ToSet
  <1>7. PostingsFit' /\ ImportsFit'
    BY <1>1, <1>5, <1>6 DEF MatchInv, PostingsFit, ImportsFit, RestOf
  <1>8. query'.at # "match"
    BY <1>1 DEF NoQuery
  <1>. QED  BY <1>1, <1>7, <1>8 DEF MatchInv, QueryFits

(* Every step keeps the invariant.                                         *)
LEMMA MatchStepKeeps ==
  ASSUME MatchInv, [MatchNext]_matchVars
  PROVE  MatchInv'
  <1>1. CASE MatchNext
    BY <1>1, SaveProfileKeeps, FindPostingKeeps, UpdatePostingKeeps, CreatePostingKeeps, AskKeeps, RequireKeeps,
       FetchKeeps, ReadProfileKeeps, MatchPostingKeeps, AnswerKeeps DEF MatchNext
  <1>2. CASE UNCHANGED matchVars
    <2>1. PostingsFit' /\ ImportsFit'
      BY <1>2 DEF matchVars, MatchInv, PostingsFit, ImportsFit, RestOf
    <2>2. QueryFits'
      BY <1>2, <2>1, QueryStays DEF matchVars, MatchInv
    <2>. QED  BY <2>1, <2>2 DEF MatchInv
  <1>. QED  BY <1>1, <1>2

(* The inductive invariant of the request for the best matches and of the  *)
(* imports beside it (getTopMatches, importJobPostings): rows and their    *)
(* order agree, and each score was computed from levels and a row that     *)
(* were current after the candidates were fetched.                         *)
THEOREM MatchInvariant == MatchSpec => []MatchInv
  <1>1. MatchInit => MatchInv
    BY MatchBegins
  <1>2. MatchInv /\ [MatchNext]_matchVars => MatchInv'
    BY MatchStepKeeps
  <1>. QED  BY <1>1, <1>2, PTL DEF MatchSpec

(* A list backwards.                                                       *)
LEMMA ReversedIs ==
  ASSUME NEW T, NEW s \in Seq(T)
  PROVE  /\ Reverse(s) \in Seq(T) /\ Len(Reverse(s)) = Len(s)
         /\ \A i \in 1 .. Len(s) : Reverse(s)[i] = s[Len(s) - i + 1]
  <1>1. PICK n \in Nat : n = Len(s) /\ \A i \in 1 .. n : s[i] \in T
    BY LenProperties, ElementOfSeq
  <1>. DEFINE r == [i \in 1 .. n |-> s[n - i + 1]]
  <1>2. Reverse(s) = r
    BY <1>1 DEF Reverse
  <1>3. r \in [1 .. n -> T]
    BY <1>1
  <1>4. r \in Seq(T) /\ Len(r) = n
    BY <1>1, <1>3
  <1>5. \A i \in 1 .. n : r[i] = s[n - i + 1]
    OBVIOUS
  <1>. HIDE DEF r
  <1>. QED  BY <1>1, <1>2, <1>4, <1>5

(* What is left of an import is the end of it.                             *)
LEMMA RestIsSuffix ==
  ASSUME NEW T, NEW all \in Seq(T), NEW left \in Seq(T), RestOf(left, all)
  PROVE  IsSuffix(left, all)
  <1>1. PICK n \in Nat : n = Len(left)
    BY LenProperties
  <1>2. PICK m \in Nat : m = Len(all)
    BY LenProperties
  <1>3. PICK d \in Int : d = m - n /\ n <= m /\ \A i \in 1 .. n : left[i] = all[i + d]
    BY <1>1, <1>2 DEF RestOf
  <1>4. PICK b \in Seq(T) : b = Reverse(left) /\ Len(b) = n /\ \A i \in 1 .. n : b[i] = left[n - i + 1]
    BY <1>1, ReversedIs
  <1>5. PICK a \in Seq(T) : a = Reverse(all) /\ Len(a) = m /\ \A i \in 1 .. m : a[i] = all[m - i + 1]
    BY <1>2, ReversedIs
  <1>6. ASSUME NEW i \in 1 .. n PROVE b[i] = a[i]
    <2>1. n - i + 1 \in 1 .. n /\ (n - i + 1) + d = m - i + 1 /\ i \in 1 .. m
      BY <1>1, <1>2, <1>3
    <2>2. PICK k : k = n - i + 1
      OBVIOUS
    <2>3. k \in 1 .. n /\ k + d = m - i + 1 /\ i \in 1 .. m
      BY <2>1, <2>2
    <2>4. b[i] = left[k] /\ left[k] = all[k + d] /\ a[i] = all[m - i + 1]
      BY <1>3, <1>4, <1>5, <2>2, <2>3
    <2>. QED  BY <2>3, <2>4
  <1>7. n \in 0 .. Len(a) /\ n \in 0 .. Len(b)
    BY <1>1, <1>2, <1>3, <1>4, <1>5
  <1>8. PICK x \in Seq(T) : x = SubSeq(b, 1, n) /\ Len(x) = n /\ \A i \in 1 .. n : x[i] = b[i]
    BY <1>7, FirstsAre
  <1>9. PICK y \in Seq(T) : y = SubSeq(a, 1, n) /\ Len(y) = n /\ \A i \in 1 .. n : y[i] = a[i]
    BY <1>7, FirstsAre
  <1>10. x = y
    BY <1>6, <1>8, <1>9, SeqEqual
  <1>. QED  BY <1>3, <1>4, <1>5, <1>8, <1>9, <1>10 DEF IsSuffix, IsPrefix

(* Rows and their order agree, imports write what they were given, and an  *)
(* answer names rows there are, no more than the code shows                *)
(* (job-matching.service.ts, market.service.ts).                           *)
THEOREM MatchTypes == MatchSpec => []MatchTypeOK
  <1>1. MatchInv => MatchTypeOK
    <2>. SUFFICES ASSUME MatchInv PROVE MatchTypeOK
      OBVIOUS
    <2>1. PostingsFit /\ ImportsFit
      BY DEF MatchInv
    <2>2. Len(newest) = Cardinality(DOMAIN posting)
      <3>1. newest \in Seq(PostingKey) /\ Distinct(newest) /\ ToSet(newest) = DOMAIN posting
        BY <2>1 DEF PostingsFit, Distinct
      <3>. QED  BY <3>1, CountIs
    <2>3. ASSUME NEW n \in DOMAIN Import PROVE IsSuffix(importing[n].left, Import[n])
      <3>1. importing[n].left \in Seq(ImportItem) /\ Import[n] \in Seq(ImportItem) /\ RestOf(importing[n].left, Import[n])
        BY <2>1, MatchAssumption DEF ImportsFit
      <3>. QED  BY <3>1, RestIsSuffix
    <2>. QED  BY <2>1, <2>2, <2>3 DEF MatchTypeOK, PostingsFit
  <1>. QED  BY <1>1, MatchInvariant, PTL

(* A request that ends while it matches was answered.                      *)
LEMMA OnlyAnswers ==
  ASSUME MatchInv, [MatchNext]_matchVars, query.at = "match", query' = NoQuery
  PROVE  AnswerTopMatches
  <1>1. NoQuery.at # "match" /\ query' # query
    BY DEF NoQuery
  <1>2. query \in Matching
    BY MatchingIs DEF MatchInv
  <1>3. \A rows, l : Noted(query, rows, l).at = "match"
    BY <1>2 DEF Noted, Matching
  <1>4. ~ SaveProfile
    BY <1>1, <1>3 DEF SaveProfile
  <1>5. \A n \in DOMAIN Import : ~ FindPosting(n) /\ ~ UpdatePosting(n) /\ ~ CreatePosting(n)
    BY <1>1, <1>3 DEF FindPosting, UpdatePosting, CreatePosting
  <1>6. ~ AskTopMatches /\ ~ RequireProfile /\ ~ FetchCandidates
    BY <1>1 DEF AskTopMatches, RequireProfile, FetchCandidates
  <1>7. \A k \in PostingKey : ~ ReadProfile(k) /\ ~ MatchPosting(k)
    BY <1>1, <1>2 DEF ReadProfile, MatchPosting, Matching
  <1>. QED  BY <1>1, <1>4, <1>5, <1>6, <1>7 DEF MatchNext, matchVars

(* For any imports, profiles, plans and limits: an answer is as long as    *)
(* the limit and the vacancies that fit allow, and none of it displaces a  *)
(* vacancy that was better all the time (getTopMatches).                   *)
THEOREM BestMatches == MatchSpec => TopMatchesAreBest
  <1>. DEFINE fit == DOMAIN query.needs
              Beaten(k, by) == \A s \in Possible(k) : \A t \in Possible(by) : s < t
  <1>1. ASSUME MatchInv, [MatchNext]_matchVars, query.at = "match", query' = NoQuery, Cardinality(fit) <= Take
        PROVE  /\ Cardinality(ToSet(answer')) = Min({query.limit, Cardinality(fit)})
               /\ \A i \in DOMAIN answer' : \A k \in fit \ {answer'[j] : j \in 1 .. i} :
                    ~Beaten(answer'[i], k)
    <2>1. AnswerTopMatches
      BY <1>1, OnlyAnswers
    <2>2. PICK n \in Nat : \E m, p : AnsweredBy(n, m, p)
      BY <1>1, <2>1, AnsweredIs
    <2>3. PICK m, p : AnsweredBy(n, m, p)
      BY <2>2
    <2>4. PICK s \in Seq(PostingKey) : s = query.fetched
      BY <1>1, MatchingIs DEF MatchInv
    <2>5. /\ Distinct(s) /\ ToSet(s) = fit /\ DOMAIN query.score = ToSet(s)
          /\ \A k \in DOMAIN query.score : query.score[k] \in Possible(k) /\ query.score[k] \in Int
      <3>1. ScoresFit /\ query.score \in Keyed(Int)
        BY <1>1, MatchingIs DEF MatchInv
      <3>2. Distinct(s) /\ ToSet(s) = fit
        BY <1>1, <2>4, <3>1 DEF ScoresFit, Distinct
      <3>3. \A k \in DOMAIN query.score : query.score[k] \in Possible(k) /\ query.score[k] \in Int
        BY <3>1, KeyedIs DEF ScoresFit
      <3>. QED  BY <2>1, <2>4, <3>2, <3>3 DEF AnswerTopMatches
    <2>6. /\ Len(s) = n /\ DOMAIN s = 1 .. n /\ m \in 0 .. n /\ m = Min({query.limit, n})
          /\ p \in [1 .. n -> 1 .. n]
          /\ \A i, j \in 1 .. n : p[i] = p[j] => i = j
          /\ \A j \in 1 .. n : \E i \in 1 .. n : p[i] = j
          /\ \A i, j \in 1 .. n : i < j => query.score[s[p[i]]] >= query.score[s[p[j]]]
          /\ answer' \in Seq(PostingKey) /\ Len(answer') = m /\ DOMAIN answer' = 1 .. m
          /\ \A i \in 1 .. m : answer'[i] = s[p[i]]
      BY <2>3, <2>4 DEF AnsweredBy
    <2>7. Cardinality(fit) = n
      BY <2>5, <2>6, CountIs
    <2>8. Distinct(answer')
      <3>. SUFFICES ASSUME NEW i \in 1 .. m, NEW j \in 1 .. m, answer'[i] = answer'[j] PROVE i = j
        BY <2>6 DEF Distinct
      <3>1. i \in 1 .. n /\ j \in 1 .. n
        BY <2>2, <2>6
      <3>2. p[i] \in 1 .. n /\ p[j] \in 1 .. n /\ s[p[i]] = s[p[j]]
        BY <2>6, <3>1
      <3>3. p[i] = p[j]
        <4>1. p[i] \in DOMAIN s /\ p[j] \in DOMAIN s
          BY <2>6, <3>2
        <4>. QED  BY <2>5, <3>2, <4>1 DEF Distinct
      <3>. QED  BY <2>6, <3>1, <3>3
    <2>9. Cardinality(ToSet(answer')) = m
      BY <2>6, <2>8, CountIs
    <2>10. ASSUME NEW i \in 1 .. m, NEW k \in fit \ {answer'[j] : j \in 1 .. i}
           PROVE  ~Beaten(answer'[i], k)
      <3>1. PICK a \in 1 .. n : s[a] = k
        <4>1. k \in ToSet(s) /\ DOMAIN s = 1 .. n
          BY <2>5, <2>6
        <4>. QED  BY <4>1 DEF ToSet
      <3>2. PICK j \in 1 .. n : p[j] = a
        <4>1. \A b \in 1 .. n : \E j \in 1 .. n : p[j] = b
          BY <2>6
        <4>. QED  BY <4>1
      <3>3. i \in 1 .. n /\ p[i] \in 1 .. n
        <4>1. i \in 1 .. n
          BY <2>2, <2>6
        <4>. QED  BY <2>6, <4>1
      <3>4. i < j
        <4>. SUFFICES ASSUME j <= i PROVE FALSE
          BY <3>2, <3>3
        <4>1. j \in 1 .. i /\ j \in 1 .. m
          BY <2>6
        <4>2. answer'[j] = k
          BY <2>6, <3>1, <3>2, <4>1
        <4>. QED  BY <4>1, <4>2
      <3>5. s[p[i]] \in DOMAIN query.score /\ k \in DOMAIN query.score
        BY <2>5, <2>6, <3>3 DEF ToSet
      <3>6. query.score[s[p[i]]] >= query.score[k]
        BY <2>6, <3>1, <3>2, <3>3, <3>4
      <3>7. answer'[i] = s[p[i]]
        BY <2>6
      <3>8. PICK x \in Int, y \in Int : x = query.score[answer'[i]] /\ y = query.score[k] /\ x \in Possible(answer'[i])
                                       /\ y \in Possible(k) /\ x >= y
        BY <2>5, <3>5, <3>6, <3>7
      <3>9. ~ (x < y)
        BY <3>8
      <3>. QED  BY <3>8, <3>9
    <2>. QED  BY <2>6, <2>7, <2>9, <2>10
  <1>2. MatchInv /\ [MatchNext]_matchVars =>
          ((query.at = "match" /\ query' = NoQuery /\ Cardinality(DOMAIN query.needs) <= Take) =>
             (/\ Cardinality(ToSet(answer')) = Min({query.limit, Cardinality(fit)})
              /\ \A i \in DOMAIN answer' : \A k \in fit \ {answer'[j] : j \in 1 .. i} : ~Beaten(answer'[i], k)))
    BY <1>1
  <1>. QED  BY <1>2, MatchInvariant, PTL DEF MatchSpec, TopMatchesAreBest

-----------------------------------------------------------------------------
(* Recursion and sums                                                      *)

(* u is made from a step by step, within X, and every step keeps to what   *)
(* good says may come of it.                                               *)
MadeBySteps(N, X, a, step, good, u) ==
  /\ N \in Nat /\ a \in X /\ step \in [1 .. N -> [X -> X]]
  /\ a \in good[0] /\ \A n \in 1 .. N : \A x \in X : x \in good[n - 1] => step[n][x] \in good[n]
  /\ u[0] = a /\ \A n \in 1 .. N : u[n - 1] \in X => u[n] = step[n][u[n - 1]]

(* So it is good after every step.                                         *)
LEMMA StepsStay ==
  ASSUME NEW N, NEW X, NEW a, NEW step, NEW good, NEW u, MadeBySteps(N, X, a, step, good, u)
  PROVE  \A n \in 0 .. N : u[n] \in X /\ u[n] \in good[n]
  <1>0. /\ N \in Nat /\ a \in X /\ step \in [1 .. N -> [X -> X]]
        /\ a \in good[0] /\ \A n \in 1 .. N : \A x \in X : x \in good[n - 1] => step[n][x] \in good[n]
        /\ u[0] = a /\ \A n \in 1 .. N : u[n - 1] \in X => u[n] = step[n][u[n - 1]]
    BY DEF MadeBySteps
  <1>. DEFINE Fine(n) == u[n] \in X /\ u[n] \in good[n]
              Bad == {n \in 0 .. N : ~ Fine(n)}
  <1>1. Bad = {}
    <2>. SUFFICES ASSUME Bad # {} PROVE FALSE
      OBVIOUS
    <2>1. PICK n \in Bad : \A m \in Bad : n <= m
      <3>1. Bad \subseteq Nat
        BY <1>0
      <3>. HIDE DEF Bad
      <3>. QED  BY <3>1, LeastIs
    <2>2. n \in 0 .. N /\ ~ Fine(n)
      OBVIOUS
    <2>3. n # 0
      BY <1>0, <2>2
    <2>4. n \in 1 .. N /\ n - 1 \in 0 .. N /\ ~ (n <= n - 1)
      BY <1>0, <2>2, <2>3
    <2>5. Fine(n - 1)
      <3>. HIDE DEF Fine
      <3>. QED  BY <2>1, <2>4
    <2>6. u[n] = step[n][u[n - 1]] /\ step[n][u[n - 1]] \in good[n] /\ step[n][u[n - 1]] \in X
      BY <1>0, <2>4, <2>5
    <2>. QED  BY <2>2, <2>6
  <1>. QED  BY <1>1

(* The sum over a part is what the sum over the whole found on its way.    *)
LEMMA SumOfPart ==
  ASSUME NEW S, IsFiniteSet(S), NEW v, NEW T \in SUBSET S, NEW w, \A x \in T : w[x] = v[x],
         NEW g, g = Terms(S, v, g)
  PROVE  g[T] = SumOf(T, w)
  <1>0. IsFiniteSet(T)
    BY FS_Subset
  <1>1. PICK h : h = Terms(T, w, h) /\ SumOf(T, w) = h[T]
    BY <1>0, SumTerms
  <1>. DEFINE Good(s) == g[s] = h[s]
              Bad == {Cardinality(s) : s \in {t \in SUBSET T : ~ Good(t)}}
  <1>2. \A s \in SUBSET T : Cardinality(s) \in Nat
    BY <1>0, FS_Subset, FS_CardinalityType
  <1>3. \A s \in SUBSET T : g[s] = Term(s, v, g) /\ h[s] = Term(s, w, h)
    BY <1>1 DEF Terms
  <1>4. Bad = {}
    <2>. SUFFICES ASSUME Bad # {} PROVE FALSE
      OBVIOUS
    <2>1. PICK n \in Bad : \A m \in Bad : n <= m
      <3>1. Bad \subseteq Nat
        BY <1>2
      <3>. HIDE DEF Bad
      <3>. QED  BY <3>1, LeastIs
    <2>2. PICK s \in SUBSET T : ~ Good(s) /\ n = Cardinality(s)
      BY <2>1
    <2>3. s # {}
      <3>1. s = {} => g[s] = 0 /\ h[s] = 0
        BY <1>3 DEF Term
      <3>. QED  BY <2>2, <3>1
    <2>4. PICK x, t : x = Element(s) /\ t = s \ {Element(s)}
      OBVIOUS
    <2>5. x \in T /\ t \in SUBSET T /\ n \in Nat /\ Cardinality(t) = n - 1
      BY <1>0, <2>2, <2>3, <2>4, ElementIs
    <2>6. Good(t)
      <3>1. Good(t) \/ Cardinality(t) \in Bad
        <4>. HIDE DEF Good
        <4>. QED  BY <2>5
      <3>. HIDE DEF Good, Bad
      <3>2. Cardinality(t) \notin Bad
        BY <2>1, <2>5
      <3>. QED  BY <3>1, <3>2
    <2>7. g[s] = v[x] + g[t] /\ h[s] = w[x] + h[t]
      BY <1>3, <2>3, <2>4 DEF Term
    <2>. QED  BY <2>2, <2>5, <2>6, <2>7
  <1>5. Good(T)
    <2>. HIDE DEF Good
    <2>. QED  BY <1>4
  <1>. QED  BY <1>1, <1>5

(* Any element may be the one that is added last.                          *)
LEMMA SumWithout ==
  ASSUME NEW S, IsFiniteSet(S), NEW v, \A x \in S : v[x] \in Nat, NEW x \in S
  PROVE  SumOf(S, v) = v[x] + SumOf(S \ {x}, v) /\ SumOf(S \ {x}, v) \in Nat
  <1>1. PICK g : g = Terms(S, v, g) /\ SumOf(S, v) = g[S]
    BY SumTerms
  <1>2. \A s \in SUBSET S : g[s] = Term(s, v, g)
    BY <1>1 DEF Terms
  <1>3. ASSUME NEW s \in SUBSET S PROVE IsFiniteSet(s) /\ Cardinality(s) \in Nat /\ g[s] \in Nat
    <2>1. IsFiniteSet(s) /\ Cardinality(s) \in Nat
      BY FS_Subset, FS_CardinalityType
    <2>2. g[s] = SumOf(s, v)
      BY <1>1, SumOfPart
    <2>3. SumOf(s, v) \in Nat
      BY <2>1, SumIs
    <2>. QED  BY <2>1, <2>2, <2>3
  <1>. DEFINE Good(s) == \A y \in s : g[s] = v[y] + g[s \ {y}]
              Bad == {Cardinality(s) : s \in {t \in SUBSET S : ~ Good(t)}}
  <1>4. Bad = {}
    <2>. SUFFICES ASSUME Bad # {} PROVE FALSE
      OBVIOUS
    <2>1. PICK n \in Bad : \A m \in Bad : n <= m
      <3>1. Bad \subseteq Nat
        BY <1>3
      <3>. HIDE DEF Bad
      <3>. QED  BY <3>1, LeastIs
    <2>2. PICK s \in SUBSET S : ~ Good(s) /\ n = Cardinality(s)
      BY <2>1
    <2>3. PICK y \in s : g[s] # v[y] + g[s \ {y}]
      BY <2>2
    <2>4. PICK e \in s : e = Element(s)
      BY <2>3, ElementIs
    <2>5. g[s] = v[e] + g[s \ {e}]
      BY <1>2, <2>3, <2>4 DEF Term
    <2>6. y # e
      BY <2>3, <2>5
    <2>7. ASSUME NEW z \in s PROVE Good(s \ {z})
      <3>1. PICK t \in SUBSET S : t = s \ {z} /\ Cardinality(t) = n - 1 /\ n \in Nat
        BY <1>3, <2>2, FS_RemoveElement
      <3>2. Good(t) \/ Cardinality(t) \in Bad
        <4>. HIDE DEF Good
        <4>. QED  OBVIOUS
      <3>. HIDE DEF Good, Bad
      <3>3. Cardinality(t) \notin Bad
        BY <2>1, <3>1
      <3>. QED  BY <3>1, <3>2, <3>3
    <2>8. PICK t \in SUBSET S : t = (s \ {e}) \ {y} /\ t = (s \ {y}) \ {e}
      OBVIOUS
    <2>9. g[s \ {e}] = v[y] + g[t]
      BY <2>6, <2>7, <2>8
    <2>10. g[s \ {y}] = v[e] + g[t]
      BY <2>6, <2>7, <2>8
    <2>11. PICK a \in Nat, b \in Nat, c \in Nat : a = v[e] /\ b = v[y] /\ c = g[t]
      BY <1>3
    <2>12. g[s] = a + (b + c) /\ v[y] + g[s \ {y}] = b + (a + c)
      BY <2>5, <2>9, <2>10, <2>11
    <2>. QED  BY <2>3, <2>11, <2>12
  <1>5. Good(S)
    <2>. HIDE DEF Good
    <2>. QED  BY <1>4
  <1>6. g[S \ {x}] = SumOf(S \ {x}, v)
    <2>1. S \ {x} \in SUBSET S
      OBVIOUS
    <2>. QED  BY <1>1, <2>1, SumOfPart
  <1>7. g[S \ {x}] \in Nat
    <2>1. S \ {x} \in SUBSET S
      OBVIOUS
    <2>. QED  BY <1>3, <2>1
  <1>. QED  BY <1>1, <1>5, <1>6, <1>7

(* What holds of the empty set, and of a set once it holds of the set      *)
(* without any one element, holds of every finite set.                     *)
LEMMA Shrinking ==
  ASSUME NEW S, IsFiniteSet(S), NEW G, {} \in G,
         \A s \in SUBSET S : s # {} /\ (\A x \in s : s \ {x} \in G) => s \in G
  PROVE  S \in G
  <1>. DEFINE Bad == {Cardinality(s) : s \in {t \in SUBSET S : t \notin G}}
  <1>1. \A s \in SUBSET S : IsFiniteSet(s) /\ Cardinality(s) \in Nat
    BY FS_Subset, FS_CardinalityType
  <1>2. Bad = {}
    <2>. SUFFICES ASSUME Bad # {} PROVE FALSE
      OBVIOUS
    <2>1. PICK n \in Bad : \A m \in Bad : n <= m
      <3>1. Bad \subseteq Nat
        BY <1>1
      <3>. HIDE DEF Bad
      <3>. QED  BY <3>1, LeastIs
    <2>2. PICK s \in SUBSET S : s \notin G /\ n = Cardinality(s)
      BY <2>1
    <2>3. ASSUME NEW x \in s PROVE s \ {x} \in G
      <3>0. IsFiniteSet(s) /\ n \in Nat
        BY <1>1, <2>2
      <3>1. PICK t \in SUBSET S : t = s \ {x} /\ Cardinality(t) = n - 1 /\ n \in Nat
        <4>. HIDE DEF Bad
        <4>1. Cardinality(s \ {x}) = n - 1
          BY <2>2, <3>0, FS_RemoveElement
        <4>. QED  BY <3>0, <4>1
      <3>2. t \in G \/ Cardinality(t) \in Bad
        OBVIOUS
      <3>. HIDE DEF Bad
      <3>3. Cardinality(t) \notin Bad
        BY <2>1, <3>1
      <3>. QED  BY <3>1, <3>2, <3>3
    <2>. QED  BY <2>2, <2>3
  <1>3. S \in SUBSET S
    OBVIOUS
  <1>. QED  BY <1>2, <1>3

(* The sum of no terms.                                                    *)
LEMMA SumOfNone ==
  ASSUME NEW v
  PROVE  SumOf({}, v) = 0
  <1>1. PICK g : g = Terms({}, v, g) /\ SumOf({}, v) = g[{}]
    BY SumTerms, FS_EmptySet
  <1>. QED  BY <1>1 DEF Terms, Term

(* Fewer terms, and none greater, come to no more.                         *)
LEMMA SumOfFewer ==
  ASSUME NEW S, IsFiniteSet(S), NEW T \in SUBSET S, NEW v, NEW w,
         \A x \in S : v[x] \in Nat, \A x \in T : w[x] \in Nat /\ w[x] <= v[x]
  PROVE  SumOf(T, w) <= SumOf(S, v)
  <1>. DEFINE G == {s \in SUBSET S : SumOf(s \cap T, w) <= SumOf(s, v)}
  <1>1. {} \in G
    <2>1. {} \cap T = {}
      OBVIOUS
    <2>. QED  BY <2>1, SumOfNone
  <1>2. ASSUME NEW s \in SUBSET S, s # {}, \A x \in s : s \ {x} \in G PROVE s \in G
    <2>1. PICK x \in s : TRUE
      BY <1>2
    <2>2. IsFiniteSet(s) /\ IsFiniteSet(s \cap T) /\ IsFiniteSet((s \ {x}) \cap T)
      BY FS_Subset
    <2>3. PICK a \in Nat, b \in Nat, c \in Nat :
            a = v[x] /\ b = SumOf(s \ {x}, v) /\ c = SumOf((s \ {x}) \cap T, w) /\ SumOf(s, v) = a + b
      <3>1. SumOf(s, v) = v[x] + SumOf(s \ {x}, v) /\ SumOf(s \ {x}, v) \in Nat
        BY <2>2, SumWithout
      <3>2. SumOf((s \ {x}) \cap T, w) \in Nat
        BY <2>2, SumIs
      <3>. QED  BY <3>1, <3>2
    <2>4. c <= b
      BY <1>2, <2>3
    <2>5. CASE x \in T
      <3>1. (s \cap T) \ {x} = (s \ {x}) \cap T /\ x \in s \cap T
        BY <2>5
      <3>2. SumOf(s \cap T, w) = w[x] + c
        <4>1. \A y \in s \cap T : w[y] \in Nat
          OBVIOUS
        <4>. QED  BY <2>2, <2>3, <3>1, <4>1, SumWithout
      <3>. QED  BY <2>3, <2>4, <2>5, <3>2
    <2>6. CASE x \notin T
      <3>1. s \cap T = (s \ {x}) \cap T
        BY <2>6
      <3>2. SumOf(s \cap T, w) = c
        BY <2>3, <3>1
      <3>. QED  BY <2>3, <2>4, <3>2
    <2>. QED  BY <2>5, <2>6
  <1>3. S \in G
    <2>. HIDE DEF G
    <2>. QED  BY <1>1, <1>2, Shrinking
  <1>4. S \cap T = T
    OBVIOUS
  <1>. QED  BY <1>3, <1>4

(* The order of the terms does not matter.                                 *)
LEMMA SumInAnyOrder ==
  ASSUME NEW S, IsFiniteSet(S), NEW T, IsFiniteSet(T), NEW p \in [S -> T],
         \A x, y \in S : p[x] = p[y] => x = y,
         \A z \in T : \E x \in S : p[x] = z, NEW v, \A z \in T : v[z] \in Nat,
         NEW w, \A x \in S : w[x] = v[p[x]]
  PROVE  SumOf(S, w) = SumOf(T, v)
  <1>. DEFINE Im(s) == {p[x] : x \in s}
              G == {s \in SUBSET S : SumOf(s, w) = SumOf(Im(s), v)}
  <1>1. {} \in G
    <2>1. Im({}) = {}
      OBVIOUS
    <2>. QED  BY <2>1, SumOfNone
  <1>2. ASSUME NEW s \in SUBSET S, s # {}, \A x \in s : s \ {x} \in G PROVE s \in G
    <2>1. PICK x \in s : TRUE
      BY <1>2
    <2>2. IsFiniteSet(s) /\ IsFiniteSet(Im(s))
      <3>1. Im(s) \in SUBSET T
        OBVIOUS
      <3>. HIDE DEF Im
      <3>. QED  BY <3>1, FS_Subset
    <2>3. Im(s) \ {p[x]} = Im(s \ {x}) /\ p[x] \in Im(s) /\ Im(s) \subseteq T
      OBVIOUS
    <2>. HIDE DEF Im
    <2>4. SumOf(Im(s), v) = v[p[x]] + SumOf(Im(s \ {x}), v)
      <3>1. \A y \in Im(s) : v[y] \in Nat
        BY <2>3
      <3>2. SumOf(Im(s), v) = v[p[x]] + SumOf(Im(s) \ {p[x]}, v)
        BY <2>2, <2>3, <3>1, SumWithout, Zenon
      <3>. QED  BY <2>3, <3>2
    <2>5. SumOf(s, w) = w[x] + SumOf(s \ {x}, w)
      <3>1. \A y \in s : w[y] \in Nat
        OBVIOUS
      <3>. QED  BY <2>2, <3>1, SumWithout
    <2>. QED  BY <1>2, <2>4, <2>5
  <1>3. S \in G
    <2>. HIDE DEF G
    <2>. QED  BY <1>1, <1>2, Shrinking
  <1>4. Im(S) = T
    OBVIOUS
  <1>. QED  BY <1>3, <1>4

(* A bounded set has a greatest element.                                   *)
LEMMA GreatestIs ==
  ASSUME NEW T, T \subseteq Nat, T # {}, NEW b \in Nat, \A y \in T : y <= b
  PROVE  \E m \in T : \A y \in T : y <= m
  <1>. DEFINE R == {b - y : y \in T}
  <1>1. R \subseteq Nat /\ R # {}
    <2>1. \A y \in T : b - y \in Nat
      OBVIOUS
    <2>. QED  BY <2>1
  <1>2. PICK n \in R : \A k \in R : n <= k
    <2>. HIDE DEF R
    <2>. QED  BY <1>1, LeastIs
  <1>3. PICK m \in T : n = b - m
    BY <1>2
  <1>4. \A y \in T : b - m <= b - y
    BY <1>2, <1>3
  <1>5. \A y \in T : y <= m
    BY <1>3, <1>4
  <1>. QED  BY <1>3, <1>5

(* The greatest of finitely many values, or 0 if there is none.            *)
LEMMA MaxOver ==
  ASSUME NEW S, IsFiniteSet(S), NEW v, \A x \in S : v[x] \in Nat,
         NEW M, 0 \in M, \A x \in S : v[x] \in M, \A y \in M : y = 0 \/ \E x \in S : y = v[x]
  PROVE  /\ Max(M) \in Nat /\ \A x \in S : v[x] <= Max(M)
         /\ Max(M) = 0 \/ \E x \in S : Max(M) = v[x]
  <1>1. SumOf(S, v) \in Nat /\ \A x \in S : v[x] <= SumOf(S, v)
    BY SumIs
  <1>2. M \subseteq Nat /\ M # {} /\ \A y \in M : y <= SumOf(S, v)
    BY <1>1
  <1>3. PICK m \in M : \A y \in M : y <= m
    BY <1>1, <1>2, GreatestIs
  <1>4. Max(M) = m
    <2>1. M \subseteq Int /\ \A y \in M : m >= y
      BY <1>2, <1>3
    <2>. HIDE <1>2, <1>3
    <2>. QED  BY <2>1, MaxIs
  <1>. QED  BY <1>2, <1>3, <1>4

-----------------------------------------------------------------------------
(* Scores of an analysis                                                   *)

(* The hours from one index to another, of the steps of a roadmap, and of  *)
(* a chain of them.                                                        *)
HoursOver(type, S) == MapThenSumSet(LAMBDA i : StepHours(type)[i], S)

(* Each of them is a sum over a set: the hours of the levels in between,   *)
LEMMA HoursOverIsSum ==
  ASSUME NEW S, IsFiniteSet(S), NEW type
  PROVE  HoursOver(type, S) = SumOf(S, StepHours(type))
  <1>. DEFINE v == StepHours(type)
              F(g) == [s \in SUBSET S |->
                         IF s = {} THEN 0 ELSE StepHours(type)[Element(s)] + g[s \ {Element(s)}]]
  <1>1. HoursOver(type, S) = (CHOOSE g : g = F(g))[S]
    BY DEF HoursOver, MapThenSumSet, MapThenFoldSet, Element
  <1>2. ASSUME NEW g PROVE F(g) = Terms(S, v, g)
    BY DEF Terms, Term
  <1>. HIDE DEF F, v
  <1>3. (CHOOSE g : g = F(g)) = CHOOSE g : g = Terms(S, v, g)
    BY <1>2
  <1>. QED  BY <1>1, <1>3 DEF SumOf, v

(* those of all steps,                                                     *)
LEMMA HoursIsSum ==
  ASSUME NEW s, IsFiniteSet(DOMAIN s)
  PROVE  Hours(s) = SumOf(DOMAIN s, [i \in DOMAIN s |-> s[i].hours])
  <1>. DEFINE C == DOMAIN s
              v == [i \in C |-> s[i].hours]
              F(g) == [t \in SUBSET C |-> IF t = {} THEN 0 ELSE s[Element(t)].hours + g[t \ {Element(t)}]]
  <1>1. Hours(s) = (CHOOSE g : g = F(g))[C]
    BY DEF Hours, MapThenSumSet, MapThenFoldSet, Element
  <1>. HIDE DEF C
  <1>0. IsFiniteSet(C)
    BY DEF C
  <1>2. ASSUME NEW g PROVE F(g) = Terms(C, v, g)
    <2>1. \A t \in SUBSET C : t # {} => v[Element(t)] = s[Element(t)].hours
      BY <1>0, ElementIs
    <2>. HIDE DEF v
    <2>. QED  BY <2>1 DEF Terms, Term
  <1>. HIDE DEF F, v
  <1>3. (CHOOSE g : g = F(g)) = CHOOSE g : g = Terms(C, v, g)
    BY <1>2
  <1>. QED  BY <1>1, <1>3 DEF SumOf, v, C

(* and those of a chain.                                                   *)
LEMMA ChainIsSum ==
  ASSUME NEW s, NEW ch, IsFiniteSet(DOMAIN ch)
  PROVE  ChainHours(s, ch) = SumOf(DOMAIN ch, [i \in DOMAIN ch |-> s[ch[i]].hours])
  <1>. DEFINE C == DOMAIN ch
              v == [i \in C |-> s[ch[i]].hours]
              F(g) == [t \in SUBSET C |-> IF t = {} THEN 0 ELSE s[ch[Element(t)]].hours + g[t \ {Element(t)}]]
  <1>1. ChainHours(s, ch) = (CHOOSE g : g = F(g))[C]
    BY DEF ChainHours, MapThenSumSet, MapThenFoldSet, Element
  <1>. HIDE DEF C
  <1>0. IsFiniteSet(C)
    BY DEF C
  <1>2. ASSUME NEW g PROVE F(g) = Terms(C, v, g)
    <2>1. \A t \in SUBSET C : t # {} => v[Element(t)] = s[ch[Element(t)]].hours
      BY <1>0, ElementIs
    <2>. HIDE DEF v
    <2>. QED  BY <2>1 DEF Terms, Term
  <1>. HIDE DEF F, v
  <1>3. (CHOOSE g : g = F(g)) = CHOOSE g : g = Terms(C, v, g)
    BY <1>2
  <1>. QED  BY <1>1, <1>3 DEF SumOf, v, C

-----------------------------------------------------------------------------
(* Levels by their place in the order of their type.                       *)

(* The place of a level, an expired certificate being at one in progress.  *)
Placing(type) ==
  CASE type = "LANGUAGE"      -> [NONE |-> 1, A1 |-> 2, A2 |-> 3, B1 |-> 4, B2 |-> 5, C1 |-> 6, C2 |-> 7]
    [] type = "CERTIFICATION" -> [NONE |-> 1, PLANNED |-> 2, IN_PROGRESS |-> 3, OBTAINED |-> 4, EXPIRED |-> 3]
    [] OTHER                  -> [NONE |-> 1, BASIC |-> 2, PRACTICAL |-> 3, CONFIDENT |-> 4, ADVANCED |-> 5]

(* The three ways to measure a competency.                                 *)
Types == {"LANGUAGE", "CERTIFICATION", "HARD_SKILL"}

(* indexOf finds the one place of an element.                              *)
LEMMA PositionIs ==
  ASSUME NEW s, NEW n \in Nat, DOMAIN s = 1 .. n, NEW i \in 1 .. n, NEW x, s[i] = x,
         \A j \in 1 .. n : s[j] = x => j = i
  PROVE  (IF x \in ToSet(s) THEN CHOOSE j \in DOMAIN s : s[j] = x ELSE 1) = i
  <1>1. x \in ToSet(s)
    BY DEF ToSet
  <1>2. (CHOOSE j \in DOMAIN s : s[j] = x) = i
    OBVIOUS
  <1>. QED  BY <1>1, <1>2

(* The index the code looks up is that place.                              *)
LEMMA IndexIs ==
  ASSUME NEW type \in Types, NEW v \in LevelNames(type)
  PROVE  IndexIn(OrderOf(type), v) = Placing(type)[v]
  <1>. DEFINE named == IF v = "EXPIRED" THEN "IN_PROGRESS" ELSE v
              i == Placing(type)[v]
              s == OrderOf(type)
              n == CASE type = "LANGUAGE" -> 7 [] type = "CERTIFICATION" -> 4 [] OTHER -> 5
  <1>1. n \in Nat /\ DOMAIN s = 1 .. n
    <2>1. DOMAIN LanguageOrder = 1 .. 7
      BY DEF LanguageOrder
    <2>2. DOMAIN CertificateOrder = 1 .. 4
      BY DEF CertificateOrder
    <2>3. DOMAIN HardOrder = 1 .. 5
      BY DEF HardOrder
    <2>. QED  BY <2>1, <2>2, <2>3 DEF Types, OrderOf
  <1>2. i \in 1 .. n /\ s[i] = named
    BY DEF Types, LevelNames, Placing, OrderOf, LanguageOrder, CertificateOrder, HardOrder
  <1>3. \A j \in 1 .. n : s[j] = named => j = i
    BY DEF Types, LevelNames, Placing, OrderOf, LanguageOrder, CertificateOrder, HardOrder
  <1>4. IndexIn(s, v) = IF named \in ToSet(s) THEN CHOOSE j \in DOMAIN s : s[j] = named ELSE 1
    BY DEF IndexIn
  <1>. HIDE DEF i, s, n, named
  <1>5. IndexIn(s, v) = i
    <2>1. (IF named \in ToSet(s) THEN CHOOSE j \in DOMAIN s : s[j] = named ELSE 1) = i
      BY <1>1, <1>2, <1>3, PositionIs
    <2>. QED  BY <1>4, <2>1
  <1>. QED  BY <1>5 DEF i, s

(* How long it takes from one level to another.                            *)
Way(type, from, to) == Placing(type)[from] .. Placing(type)[to] - 1

(* A way is finite, each level on it takes some hours, and its hours are   *)
(* their sum.                                                              *)
LEMMA WayIs ==
  ASSUME NEW type \in Types, NEW from \in LevelNames(type), NEW to \in LevelNames(type)
  PROVE  /\ Placing(type)[from] \in Nat /\ Placing(type)[to] \in Nat
         /\ IsFiniteSet(Way(type, from, to))
         /\ \A i \in Way(type, from, to) : StepHours(type)[i] \in Nat \ {0}
         /\ EstimateHours(type, from, to) = SumOf(Way(type, from, to), StepHours(type))
  <1>1. PICK i \in Nat, j \in Nat : i = Placing(type)[from] /\ j = Placing(type)[to] /\ i >= 1
    BY DEF Types, Placing, LevelNames
  <1>2. PICK n \in Nat : j - 1 <= n /\ \A k \in 1 .. n : StepHours(type)[k] \in Nat \ {0}
    <2>1. j - 1 <= (CASE type = "LANGUAGE" -> 6 [] type = "CERTIFICATION" -> 3 [] OTHER -> 4)
      BY <1>1 DEF Types, Placing, LevelNames
    <2>2. CASE type = "LANGUAGE"
      <3>1. \A k \in 1 .. 6 : StepHours(type)[k] \in Nat \ {0}
        BY <2>2 DEF StepHours
      <3>. QED  BY <2>1, <2>2, <3>1
    <2>3. CASE type = "CERTIFICATION"
      <3>1. \A k \in 1 .. 3 : StepHours(type)[k] \in Nat \ {0}
        BY <2>3 DEF StepHours
      <3>. QED  BY <2>1, <2>3, <3>1
    <2>4. CASE type = "HARD_SKILL"
      <3>1. \A k \in 1 .. 4 : StepHours(type)[k] \in Nat \ {0}
        BY <2>4 DEF StepHours
      <3>. QED  BY <2>1, <2>4, <3>1
    <2>. QED  BY <2>2, <2>3, <2>4 DEF Types
  <1>3. Way(type, from, to) = i .. j - 1
    BY <1>1 DEF Way
  <1>4. IsFiniteSet(i .. j - 1)
    <2>1. \A a, b \in Int : IsFiniteSet(a .. b)
      BY FS_Interval
    <2>2. i \in Int /\ j - 1 \in Int
      BY <1>1
    <2>. QED  BY <2>1, <2>2
  <1>5. \A k \in i .. j - 1 : k \in 1 .. n
    BY <1>1, <1>2
  <1>6. IndexIn(OrderOf(type), from) = i /\ IndexIn(OrderOf(type), to) = j
    BY <1>1, IndexIs
  <1>7. EstimateHours(type, from, to) = HoursOver(type, i .. j - 1)
    BY <1>6 DEF EstimateHours, HoursOver
  <1>8. HoursOver(type, i .. j - 1) = SumOf(i .. j - 1, StepHours(type))
    BY <1>4, HoursOverIsSum
  <1>. QED  BY <1>1, <1>2, <1>3, <1>4, <1>5, <1>7, <1>8

(* From a level to a later one it takes some hours.                        *)
LEMMA EstimateIs ==
  ASSUME NEW type \in Types, NEW from \in LevelNames(type), NEW to \in LevelNames(type)
  PROVE  /\ EstimateHours(type, from, to) \in Nat
         /\ Placing(type)[from] < Placing(type)[to] => EstimateHours(type, from, to) > 0
  <1>1. \A i \in Way(type, from, to) : StepHours(type)[i] \in Nat /\ StepHours(type)[i] > 0
    BY WayIs
  <1>2. /\ SumOf(Way(type, from, to), StepHours(type)) \in Nat
        /\ \A i \in Way(type, from, to) :
             StepHours(type)[i] <= SumOf(Way(type, from, to), StepHours(type))
    BY <1>1, WayIs, SumIs
  <1>3. Placing(type)[from] < Placing(type)[to] => Placing(type)[from] \in Way(type, from, to)
    BY WayIs DEF Way
  <1>. QED  BY <1>1, <1>2, <1>3, WayIs

(* From a later level the way is no longer.                                *)
LEMMA ShorterWay ==
  ASSUME NEW type \in Types, NEW from \in LevelNames(type), NEW to \in LevelNames(type),
         NEW higher \in LevelNames(type), Placing(type)[from] <= Placing(type)[higher]
  PROVE  EstimateHours(type, higher, to) <= EstimateHours(type, from, to)
  <1>1. Way(type, higher, to) \in SUBSET Way(type, from, to)
    BY WayIs DEF Way
  <1>2. \A i \in Way(type, from, to) :
          StepHours(type)[i] \in Nat /\ StepHours(type)[i] <= StepHours(type)[i]
    BY WayIs
  <1>3. SumOf(Way(type, higher, to), StepHours(type)) <= SumOf(Way(type, from, to), StepHours(type))
    BY <1>1, <1>2, WayIs, SumOfFewer
  <1>. QED  BY <1>3, WayIs

(* What is required.                                                       *)
Tunings == {"CONSERVATIVE", "STANDARD", "AGGRESSIVE"}

(* Every competency is of one of the types.                                *)
LEMMA TypesAre ==
  ASSUME NEW c
  PROVE  TypeOf(c) \in Types
  BY DEF TypeOf, Types

(* What the seed writes for a name of the pack.                            *)
LEMMA RequirementIs ==
  ASSUME NEW c \in DOMAIN Pack
  PROVE  LET r == Requirement(c)
         IN /\ r.competency = c /\ r.type = TypeOf(c) /\ r.level \in LevelNames(TypeOf(c))
            /\ r.demand \in Nat /\ r.priority \in {"CORE", "IMPORTANT", "OPTIONAL", "CONTEXTUAL"}
            /\ r.role \in {"CORE", "RELATED", "WEAKLY_RELATED"}
            /\ RequiredScore(r) \in Nat
  <1>1. Pack[c] \in {"CORE", "IMPORTANT", "OPTIONAL", "CONTEXTUAL"}
    BY ScoringAssumption
  <1>2. PICK rank \in {1, 2, 3, 4} :
          rank = [CORE |-> 1, IMPORTANT |-> 2, OPTIONAL |-> 3, CONTEXTUAL |-> 4][Pack[c]]
    BY <1>1
  <1>3. PICK r : r = Requirement(c)
    OBVIOUS
  <1>4. /\ r.competency = c /\ r.type = TypeOf(c) /\ r.priority = Pack[c]
        /\ r.role = <<"CORE", "RELATED", "WEAKLY_RELATED", "WEAKLY_RELATED">>[rank]
        /\ r.demand = <<450, 240, 75, 24>>[rank]
    BY <1>2, <1>3 DEF Requirement
  <1>5. r.score = IF TypeOf(c) = "CERTIFICATION" THEN <<10000, 7500, 5000, 5000>>[rank] ELSE 0
    BY <1>2, <1>3 DEF Requirement
  <1>6. r.level \in LevelNames(TypeOf(c))
    <2>1. r.level = CASE TypeOf(c) = "HARD_SKILL" ->
                       <<"CONFIDENT", "PRACTICAL", "BASIC", "BASIC">>[rank]
                  [] c = "English"                -> "B2"
                  [] TypeOf(c) = "CERTIFICATION"  -> "OBTAINED"
                  [] OTHER -> IF Pack[c] = "CONTEXTUAL" /\ c \notin Local THEN "A1" ELSE "A2"
      BY <1>2, <1>3 DEF Requirement
    <2>2. TypeOf("English") = "LANGUAGE"
      BY DEF TypeOf, Language, Certificate
    <2>. QED  BY <1>2, <2>1, <2>2, TypesAre DEF LevelNames, Types
  <1>7. RequiredScore(r) \in Nat
    BY <1>2, <1>4, <1>5, <1>6, TypesAre DEF RequiredScore, LevelNames, LevelScore, Types
  <1>8. r.demand \in Nat /\ r.role \in {"CORE", "RELATED", "WEAKLY_RELATED"}
    BY <1>2, <1>4
  <1>. QED  BY <1>1, <1>3, <1>4, <1>6, <1>7, <1>8

(* No requirement weighs less than nothing.                                *)
LEMMA WeightIs ==
  ASSUME NEW c \in DOMAIN Pack, NEW t \in Tunings
  PROVE  Weight(Requirement(c), t) \in Nat
  <1>1. PICK r : r = Requirement(c)
    OBVIOUS
  <1>2. PICK a \in Nat : a = r.demand
    BY <1>1, RequirementIs
  <1>3. PICK b \in Nat : b = Multiplier(t)[r.priority]
    BY <1>1, RequirementIs DEF Multiplier, Tunings
  <1>4. PICK d \in Nat : d = RoleMultiplier(t)[r.role]
    BY <1>1, RequirementIs DEF RoleMultiplier, Tunings
  <1>5. PICK n \in Nat : n = a * b * d + 500
    <2>1. a * b \in Nat
      BY Products
    <2>2. (a * b) * d \in Nat
      BY <2>1, Products
    <2>. QED  BY <2>2
  <1>6. n \div 1000 \in Nat
    <2>1. PICK q \in Int : q = n \div 1000 /\ n < 1000 * q + 1000
      BY Quotient
    <2>2. q >= 0
      BY <2>1
    <2>. QED  BY <2>1, <2>2
  <1>. QED  BY <1>1, <1>2, <1>3, <1>4, <1>5, <1>6 DEF Weight

(* A level that scores less than what is required of a core or important   *)
(* skill comes before the level required.                                  *)
LEMMA LowIsBefore ==
  ASSUME NEW c \in DOMAIN Pack, NEW v \in LevelNames(TypeOf(c)),
         Primary(Requirement(c)), LevelScore[v] < RequiredScore(Requirement(c))
  PROVE  Placing(TypeOf(c))[v] < Placing(TypeOf(c))[Requirement(c).level]
  <1>1. Pack[c] \in {"CORE", "IMPORTANT"}
    BY RequirementIs DEF Primary, Requirement
  <1>2. PICK rank \in {1, 2} :
          rank = [CORE |-> 1, IMPORTANT |-> 2, OPTIONAL |-> 3, CONTEXTUAL |-> 4][Pack[c]]
    BY <1>1
  <1>3. PICK r : r = Requirement(c)
    OBVIOUS
  <1>4. /\ r.type = TypeOf(c)
        /\ r.score = IF TypeOf(c) = "CERTIFICATION" THEN <<10000, 7500, 5000, 5000>>[rank] ELSE 0
    BY <1>2, <1>3 DEF Requirement
  <1>5. r.level = CASE TypeOf(c) = "HARD_SKILL" ->
                       <<"CONFIDENT", "PRACTICAL", "BASIC", "BASIC">>[rank]
                  [] c = "English"                -> "B2"
                  [] TypeOf(c) = "CERTIFICATION"  -> "OBTAINED"
                  [] OTHER -> "A2"
    BY <1>1, <1>2, <1>3 DEF Requirement
  <1>6. CASE TypeOf(c) = "HARD_SKILL"
    <2>0. c # "English"
      BY <1>6 DEF TypeOf, Language, Certificate
    <2>1. r.level = IF rank = 1 THEN "CONFIDENT" ELSE "PRACTICAL"
      BY <1>2, <1>5, <1>6, <2>0
    <2>2. RequiredScore(r) = IF rank = 1 THEN 7500 ELSE 5000
      BY <1>4, <1>6, <2>1 DEF RequiredScore, LevelScore
    <2>3. LevelScore[v] < IF rank = 1 THEN 7500 ELSE 5000
      BY <1>3, <2>2
    <2>4. v \in {"NONE", "BASIC", "PRACTICAL", "CONFIDENT", "ADVANCED"}
      BY <1>6 DEF LevelNames
    <2>5. v \in {"NONE", "BASIC", "PRACTICAL"} /\ (rank # 1 => v # "PRACTICAL")
      BY <2>3, <2>4 DEF LevelScore
    <2>. QED  BY <1>3, <1>6, <2>1, <2>5 DEF Placing
  <1>7. CASE TypeOf(c) = "CERTIFICATION"
    <2>1. c # "English"
      BY <1>7 DEF TypeOf, Language, Certificate
    <2>2. r.level = "OBTAINED" /\ RequiredScore(r) <= 10000
      BY <1>2, <1>4, <1>5, <1>7, <2>1 DEF RequiredScore
    <2>3. v \in {"NONE", "PLANNED", "IN_PROGRESS", "OBTAINED", "EXPIRED"}
      BY <1>7 DEF LevelNames
    <2>4. LevelScore[v] < 10000
      <3>1. LevelScore[v] \in Nat /\ RequiredScore(r) \in Nat
        BY <1>3, <2>3, RequirementIs DEF LevelScore
      <3>. QED  BY <1>3, <2>2, <3>1
    <2>5. v # "OBTAINED"
      BY <2>4 DEF LevelScore
    <2>. QED  BY <1>3, <1>7, <2>2, <2>3, <2>5 DEF Placing
  <1>8. CASE TypeOf(c) = "LANGUAGE"
    <2>1. r.level = IF c = "English" THEN "B2" ELSE "A2"
      BY <1>5, <1>8
    <2>2. RequiredScore(r) = LevelScore[r.level]
      BY <1>4, <1>8 DEF RequiredScore
    <2>. QED  BY <1>3, <1>8, <2>1, <2>2 DEF LevelScore, LevelNames, Placing
  <1>. QED  BY <1>6, <1>7, <1>8, TypesAre DEF Types

(* Scores of the competencies, and more of them.                           *)
Scores == [Competency -> Nat]
NoLess(s, u) == \A c \in Competency : s[c] <= u[c]

(* A percentage grows with what it is of.                                  *)
LEMMA PercentIs ==
  ASSUME NEW x \in Nat, NEW y \in Nat, x <= y, NEW p \in Nat
  PROVE  (x * p) \div 100 \in Nat /\ (y * p) \div 100 \in Nat /\ (x * p) \div 100 <= (y * p) \div 100
  <1>1. PICK m \in Nat, n \in Nat : m = x * p /\ n = y * p /\ m <= n
    <2>1. p * x <= p * y /\ x * p = p * x /\ y * p = p * y /\ x * p \in Nat /\ y * p \in Nat
      BY Product, Products
    <2>. QED  BY <2>1
  <1>2. m \div 100 \in Nat /\ n \div 100 \in Nat /\ m \div 100 <= n \div 100
    <2>1. PICK q \in Int : q = m \div 100 /\ 100 * q <= m /\ m < 100 * q + 100
      BY Quotient
    <2>2. PICK r \in Int : r = n \div 100 /\ 100 * r <= n /\ n < 100 * r + 100
      BY Quotient
    <2>3. q >= 0 /\ q <= r
      BY <1>1, <2>1, <2>2
    <2>. QED  BY <2>1, <2>2, <2>3
  <1>. QED  BY <1>1, <1>2

(* A transfer raises the score of its target, or leaves it.                *)
LEMMA CarriedIs ==
  ASSUME NEW s \in Scores, NEW e \in Competency \X Competency \X Nat
  PROVE  /\ Carried(s, e) \in Scores
         /\ \A c \in Competency :
              Carried(s, e)[c] = IF c # e[2] THEN s[c]
                                 ELSE IF s[c] >= (s[e[1]] * e[3]) \div 100 THEN s[c]
                                 ELSE (s[e[1]] * e[3]) \div 100
  <1>1. PICK a \in Competency, b \in Competency, p \in Nat : a = e[1] /\ b = e[2] /\ p = e[3]
    OBVIOUS
  <1>2. PICK x \in Nat, y \in Nat : x = s[b] /\ y = (s[a] * p) \div 100
    <2>1. s[a] \in Nat /\ s[b] \in Nat
      BY DEF Scores
    <2>. QED  BY <2>1, PercentIs
  <1>3. Carried(s, e) = [s EXCEPT ![b] = IF x >= y THEN x ELSE y]
    <2>1. Max({x, y}) = IF x >= y THEN x ELSE y
      BY Greater
    <2>2. Carried(s, e) = [s EXCEPT ![b] = Max({s[b], (s[a] * p) \div 100})]
      BY <1>1 DEF Carried
    <2>. QED  BY <1>2, <2>1, <2>2
  <1>4. PICK z \in Nat : z = IF x >= y THEN x ELSE y
    OBVIOUS
  <1>5. Carried(s, e) = [s EXCEPT ![b] = z]
    BY <1>3, <1>4
  <1>6. Carried(s, e) \in Scores /\ \A c \in Competency : Carried(s, e)[c] = IF c = b THEN z ELSE s[c]
    BY <1>5 DEF Scores
  <1>. QED  BY <1>1, <1>2, <1>4, <1>6

(* A transfer of higher scores comes to no lower ones.                     *)
LEMMA CarriedMore ==
  ASSUME NEW s \in Scores, NEW u \in Scores, NoLess(s, u), NEW e \in Competency \X Competency \X Nat
  PROVE  NoLess(Carried(s, e), Carried(u, e)) /\ NoLess(s, Carried(s, e))
  <1>1. PICK a \in Competency, b \in Competency, p \in Nat : a = e[1] /\ b = e[2] /\ p = e[3]
    OBVIOUS
  <1>2. \A c \in Competency : s[c] \in Nat /\ u[c] \in Nat /\ s[c] <= u[c]
    BY DEF Scores, NoLess
  <1>3. PICK x \in Nat, y \in Nat : x = (s[a] * p) \div 100 /\ y = (u[a] * p) \div 100 /\ x <= y
    BY <1>2, PercentIs
  <1>4. ASSUME NEW c \in Competency
        PROVE  Carried(s, e)[c] <= Carried(u, e)[c] /\ s[c] <= Carried(s, e)[c]
    <2>1. Carried(s, e)[c] = IF c # b THEN s[c] ELSE IF s[c] >= x THEN s[c] ELSE x
      BY <1>1, <1>3, CarriedIs
    <2>2. Carried(u, e)[c] = IF c # b THEN u[c] ELSE IF u[c] >= y THEN u[c] ELSE y
      BY <1>1, <1>3, CarriedIs
    <2>. QED  BY <1>2, <1>3, <2>1, <2>2
  <1>. QED  BY <1>4 DEF NoLess

(* Scores after the first n transfers.                                     *)
CarriesOn(e, f, own) ==
  /\ f \in [0 .. Len(e) -> Scores]
  /\ f[0] = own
  /\ \A n \in 1 .. Len(e) : f[n] = Carried(f[n - 1], e[n])

(* The rows of the table of transfers.                                     *)
LEMMA TransfersAre ==
  ASSUME NEW e \in Transfers
  PROVE  /\ Len(e) \in Nat /\ DOMAIN e = 1 .. Len(e)
         /\ \A n \in 1 .. Len(e) : e[n] \in Competency \X Competency \X Nat
  <1>1. e \in Seq(Competency \X Competency \X Nat)
    BY ScoringAssumption
  <1>. QED  BY <1>1, LenProperties, ElementOfSeq

(* The recursion carries the scores over one row after the other.          *)
LEMMA TransferredIs ==
  ASSUME NEW e \in Transfers, NEW own \in Scores
  PROVE  \E f : CarriesOn(e, f, own) /\ Transferred(e, own) = f[Len(e)]
  <1>. DEFINE N == Len(e)
              F(g) == [n \in 0 .. N |-> IF n = 0 THEN own ELSE Carried(g[n - 1], e[n])]
              step == [n \in 1 .. N |-> [s \in Scores |-> Carried(s, e[n])]]
  <1>1. N \in Nat
    BY TransfersAre
  <1>2. step \in [1 .. N -> [Scores -> Scores]]
    BY TransfersAre, CarriedIs
  <1>3. PICK h \in [0 .. N -> Scores] : h = Steps(N, own, step, h)
    <2>. HIDE DEF N, step
    <2>. QED  BY <1>1, <1>2, StepsExist
  <1>4. \A n \in 1 .. N : n - 1 \in 0 .. N /\ n \in 0 .. N
    BY <1>1
  <1>5. \A n \in 1 .. N : step[n][h[n - 1]] = Carried(h[n - 1], e[n])
    BY <1>3, <1>4
  <1>6. Transferred(e, own) = (CHOOSE g : g = F(g))[N]
    BY DEF Transferred
  <1>. HIDE DEF step, N
  <1>7. h = F(h)
    BY <1>1, <1>3, <1>5 DEF Steps
  <1>8. PICK u : u = (CHOOSE g : g = F(g)) /\ u = F(u)
    <2>. HIDE DEF F
    <2>. QED  BY <1>7
  <1>9. DOMAIN u = 0 .. N /\ u[0] = own /\ \A n \in 1 .. N : u[n] = Carried(u[n - 1], e[n])
    <2>1. DOMAIN u = 0 .. N
      BY <1>8
    <2>2. \A n \in 0 .. N : u[n] = IF n = 0 THEN own ELSE Carried(u[n - 1], e[n])
      BY <1>8, Zenon
    <2>3. 0 \in 0 .. N /\ \A n \in 1 .. N : n \in 0 .. N /\ n # 0
      BY <1>1
    <2>. QED  BY <2>1, <2>2, <2>3, Zenon
  <1>. HIDE DEF F
  <1>. DEFINE Bad == {n \in 0 .. N : u[n] \notin Scores}
  <1>10. Bad = {}
    <2>. SUFFICES ASSUME Bad # {} PROVE FALSE
      OBVIOUS
    <2>1. PICK n \in Bad : \A m \in Bad : n <= m
      <3>1. Bad \subseteq Nat
        BY <1>1
      <3>. HIDE DEF Bad
      <3>. QED  BY <3>1, LeastIs
    <2>2. n \in 0 .. N /\ n # 0
      BY <1>9
    <2>3. n \in 1 .. N /\ n - 1 \in 0 .. N /\ ~ (n <= n - 1)
      BY <1>1, <2>2
    <2>4. u[n - 1] \in Scores
      BY <2>1, <2>3
    <2>5. u[n] \in Scores
      BY <1>9, <2>3, <2>4, TransfersAre, CarriedIs DEF N
    <2>. QED  BY <2>5
  <1>11. u \in [0 .. N -> Scores]
    <2>1. u = [n \in DOMAIN u |-> u[n]]
      BY <1>8 DEF F
    <2>. QED  BY <1>9, <1>10, <2>1
  <1>. QED  BY <1>6, <1>8, <1>9, <1>11 DEF CarriesOn, N

(* What a row makes of the score of its source.                            *)
Worth(s, row) == (s[row[1]] * row[3]) \div 100

(* After n rows a score is the one it started with or what one of them     *)
(* carries over, and no less than any of these.                            *)
AfterRows(e, f, own, n) ==
  /\ NoLess(own, f[n])
  /\ \A i \in 1 .. n : Worth(own, e[i]) <= f[n][e[i][2]]
  /\ \A c \in Competency : f[n][c] # own[c] =>
       \E i \in 1 .. n : e[i][2] = c /\ f[n][c] = Worth(own, e[i])

(* The next row keeps this: its source is no row's target, so it is still  *)
(* at the score it started with.                                           *)
LEMMA NextRow ==
  ASSUME NEW e \in Transfers, NEW own \in Scores, NEW f, CarriesOn(e, f, own),
         NEW n \in 1 .. Len(e), AfterRows(e, f, own, n - 1)
  PROVE  AfterRows(e, f, own, n)
  <1>1. PICK N \in Nat : N = Len(e)
    BY TransfersAre
  <1>2. /\ n \in 1 .. N /\ n - 1 \in 0 .. N /\ n \in 0 .. N /\ n \in Nat
        /\ \A i \in 1 .. n : i \in 1 .. N /\ (i = n \/ i \in 1 .. n - 1)
        /\ \A i \in 1 .. n - 1 : i \in 1 .. n
    BY <1>1
  <1>3. PICK x \in Scores, y \in Scores : x = f[n - 1] /\ y = f[n] /\ y = Carried(x, e[n])
    BY <1>1, <1>2 DEF CarriesOn
  <1>4. PICK row \in Competency \X Competency \X Nat : row = e[n]
    BY <1>1, <1>2, TransfersAre
  <1>5. PICK a \in Competency, b \in Competency, p \in Nat : a = row[1] /\ b = row[2] /\ p = row[3]
    OBVIOUS
  <1>6. \A i \in 1 .. n : e[i] \in Competency \X Competency \X Nat
    BY <1>1, <1>2, TransfersAre
  <1>7. /\ NoLess(own, x)
        /\ \A i \in 1 .. n - 1 : Worth(own, e[i]) <= x[e[i][2]]
        /\ \A c \in Competency : x[c] # own[c] =>
             \E i \in 1 .. n - 1 : e[i][2] = c /\ x[c] = Worth(own, e[i])
    BY <1>3, Zenon DEF AfterRows
  <1>8. \A c \in Competency : own[c] \in Nat /\ x[c] \in Nat /\ y[c] \in Nat /\ own[c] <= x[c]
    BY <1>7 DEF NoLess, Scores
  <1>9. x[a] = own[a]
    <2>1. \A i \in 1 .. n - 1 : e[i][2] # e[n][1]
      <3>1. \A i, j \in DOMAIN e : e[i][2] # e[j][1]
        BY ScoringAssumption
      <3>2. DOMAIN e = 1 .. N
        BY <1>1, TransfersAre
      <3>. QED  BY <1>2, <3>1, <3>2
    <2>. QED  BY <1>4, <1>5, <1>7, <2>1, Zenon
  <1>10. PICK w \in Nat : w = Worth(own, row) /\ w = (x[a] * p) \div 100
    <2>1. (x[a] * p) \div 100 \in Nat
      BY <1>8, PercentIs
    <2>2. Worth(own, row) = (x[a] * p) \div 100
      BY <1>9, <1>5, Zenon DEF Worth
    <2>. QED  BY <2>1, <2>2
  <1>11. \A c \in Competency : y[c] = IF c # b THEN x[c] ELSE IF x[c] >= w THEN x[c] ELSE w
    <2>1. y = Carried(x, row)
      BY <1>3, <1>4
    <2>. QED  BY <1>10, <1>5, <2>1, CarriedIs
  <1>12. NoLess(own, y)
    <2>1. ASSUME NEW c \in Competency PROVE own[c] <= y[c]
      <3>1. PICK k \in Nat, m \in Nat, q \in Nat : k = own[c] /\ m = x[c] /\ q = y[c] /\ k <= m
        BY <1>8
      <3>2. q = IF c # b THEN m ELSE IF m >= w THEN m ELSE w
        BY <1>11, <3>1
      <3>. QED  BY <3>1, <3>2
    <2>. QED  BY <2>1 DEF NoLess
  <1>13. ASSUME NEW i \in 1 .. n PROVE Worth(own, e[i]) <= y[e[i][2]]
    <2>1. CASE i = n
      <3>1. Worth(own, e[i]) = w /\ e[i][2] = b
        BY <1>4, <1>10, <1>5, <2>1, Zenon
      <3>. QED  BY <1>10, <1>11, <1>8, <3>1
    <2>2. CASE i \in 1 .. n - 1
      <3>5. PICK one \in Competency \X Competency \X Nat : one = e[i]
        BY <1>6
      <3>1. PICK c \in Competency : c = e[i][2]
        BY <3>5
      <3>2. Worth(own, e[i]) \in Nat
        <4>1. e[i][1] \in Competency /\ e[i][3] \in Nat
          BY <3>5
        <4>2. own[e[i][1]] \in Nat
          BY <1>8, <4>1
        <4>3. PICK k \in Nat, q \in Nat : k = own[e[i][1]] /\ q = e[i][3]
          BY <4>1, <4>2
        <4>4. (k * q) \div 100 \in Nat
          BY PercentIs
        <4>. QED  BY <4>3, <4>4, Zenon DEF Worth
      <3>3. Worth(own, e[i]) <= x[c]
        BY <1>7, <2>2, <3>1
      <3>4. x[c] <= y[c]
        BY <1>10, <1>11, <1>8
      <3>6. PICK k \in Nat : k = Worth(own, e[i])
        BY <3>2
      <3>7. k <= y[c]
        <4>1. k <= x[c] /\ x[c] \in Nat /\ y[c] \in Nat
          BY <1>8, <3>3, <3>6
        <4>. QED  BY <3>4, <4>1
      <3>. QED  BY <3>1, <3>6, <3>7, Zenon
    <2>. QED  BY <1>2, <2>1, <2>2
  <1>14. ASSUME NEW c \in Competency, y[c] # own[c]
         PROVE  \E i \in 1 .. n : e[i][2] = c /\ y[c] = Worth(own, e[i])
    <2>1. CASE y[c] = x[c]
      <3>1. PICK i \in 1 .. n - 1 : e[i][2] = c /\ x[c] = Worth(own, e[i])
        BY <1>7, <1>14, <2>1, Zenon
      <3>. QED  BY <1>2, <2>1, <3>1
    <2>2. CASE y[c] # x[c]
      <3>1. c = b /\ y[c] = w
        BY <1>11, <2>2
      <3>2. n \in 1 .. n
        BY <1>2
      <3>. QED  BY <1>4, <1>10, <1>5, <3>1, <3>2, Zenon
    <2>. QED  BY <2>1, <2>2
  <1>. QED  BY <1>3, <1>12, <1>13, <1>14 DEF AfterRows

(* So it holds after all rows.                                             *)
LEMMA AllRows ==
  ASSUME NEW e \in Transfers, NEW own \in Scores, NEW f, CarriesOn(e, f, own)
  PROVE  AfterRows(e, f, own, Len(e))
  <1>1. PICK N \in Nat : N = Len(e)
    BY TransfersAre
  <1>. DEFINE Bad == {n \in 0 .. N : ~ AfterRows(e, f, own, n)}
  <1>2. Bad = {}
    <2>. SUFFICES ASSUME Bad # {} PROVE FALSE
      OBVIOUS
    <2>1. PICK n \in Bad : \A m \in Bad : n <= m
      <3>1. Bad \subseteq Nat
        OBVIOUS
      <3>. HIDE DEF Bad
      <3>. QED  BY <3>1, LeastIs
    <2>2. n \in 0 .. N /\ n # 0
      <3>1. AfterRows(e, f, own, 0)
        BY DEF AfterRows, CarriesOn, NoLess, Scores
      <3>. QED  BY <2>1, <3>1
    <2>3. n \in 1 .. N /\ n - 1 \in 0 .. N /\ ~ (n <= n - 1)
      BY <2>2
    <2>4. AfterRows(e, f, own, n - 1)
      BY <2>1, <2>3
    <2>. QED  BY <1>1, <2>1, <2>3, <2>4, NextRow
  <1>. QED  BY <1>1, <1>2

(* All transfers of higher scores come to no lower ones, whichever orders  *)
(* the rows come in.                                                       *)
LEMMA TransferredMore ==
  ASSUME NEW e \in Transfers, NEW g \in Transfers,
         NEW s \in Scores, NEW u \in Scores, NoLess(s, u)
  PROVE  /\ Transferred(e, s) \in Scores /\ Transferred(g, u) \in Scores
         /\ NoLess(Transferred(e, s), Transferred(g, u))
  <1>1. PICK f : CarriesOn(e, f, s) /\ Transferred(e, s) = f[Len(e)]
    BY TransferredIs
  <1>2. PICK h : CarriesOn(g, h, u) /\ Transferred(g, u) = h[Len(g)]
    BY TransferredIs
  <1>3. /\ Len(e) \in Nat /\ DOMAIN e = 1 .. Len(e) /\ Len(e) \in 0 .. Len(e)
        /\ Len(g) \in Nat /\ DOMAIN g = 1 .. Len(g) /\ Len(g) \in 0 .. Len(g)
    BY TransfersAre
  <1>4. PICK x \in Scores, y \in Scores : /\ x = f[Len(e)] /\ x = Transferred(e, s)
                                         /\ y = h[Len(g)] /\ y = Transferred(g, u)
    BY <1>1, <1>2, <1>3 DEF CarriesOn
  <1>5. AfterRows(e, f, s, Len(e)) /\ AfterRows(g, h, u, Len(g))
    BY <1>1, <1>2, AllRows
  <1>6. ASSUME NEW c \in Competency PROVE x[c] <= y[c]
    <2>1. s[c] \in Nat /\ u[c] \in Nat /\ x[c] \in Nat /\ y[c] \in Nat /\ s[c] <= u[c] /\ u[c] <= y[c]
      BY <1>4, <1>5 DEF AfterRows, NoLess, Scores
    <2>2. CASE x[c] = s[c]
      BY <2>1, <2>2
    <2>3. CASE x[c] # s[c]
      <3>1. PICK i \in 1 .. Len(e) : e[i][2] = c /\ x[c] = Worth(s, e[i])
        BY <1>4, <1>5, <2>3 DEF AfterRows
      <3>2. ToSet(e) = ToSet(g)
        BY ScoringAssumption
      <3>3. e[i] \in ToSet(g)
        BY <1>3, <3>1, <3>2 DEF ToSet
      <3>4. PICK j \in 1 .. Len(g) : g[j] = e[i]
        BY <1>3, <3>3 DEF ToSet
      <3>5. Worth(u, e[i]) <= y[c]
        BY <1>4, <1>5, <3>1, <3>4 DEF AfterRows
      <3>6. PICK a \in Competency, p \in Nat : a = e[i][1] /\ p = e[i][3]
        BY <3>1, TransfersAre
      <3>7. s[a] \in Nat /\ u[a] \in Nat /\ s[a] <= u[a]
        BY DEF Scores, NoLess
      <3>8. PICK v \in Nat, w \in Nat : v = (s[a] * p) \div 100 /\ w = (u[a] * p) \div 100 /\ v <= w
        <4>1. PICK k \in Nat, m \in Nat : k = s[a] /\ m = u[a] /\ k <= m
          BY <3>7
        <4>2. /\ (k * p) \div 100 \in Nat /\ (m * p) \div 100 \in Nat
              /\ (k * p) \div 100 <= (m * p) \div 100
          BY <4>1, PercentIs
        <4>. QED  BY <4>1, <4>2, Zenon
      <3>9. v = Worth(s, e[i]) /\ w = Worth(u, e[i])
        BY <3>6, <3>8, Zenon DEF Worth
      <3>10. v = x[c] /\ w <= y[c]
        BY <3>1, <3>5, <3>9
      <3>. QED  BY <2>1, <3>8, <3>10
    <2>. QED  BY <2>2, <2>3
  <1>. QED  BY <1>4, <1>6 DEF NoLess

(* One of the orders; which one makes no difference.                       *)
AnOrder == CHOOSE e \in Transfers : TRUE
ScoreOf(l) == CurrentScore(AnOrder, l)
Analysis(o, l, t) == ComputeAnalysis(o, AnOrder, l, t)

LEMMA AnOrderIs == AnOrder \in Transfers
  BY ScoringAssumption DEF AnOrder

(* Orders of the same rows carry over the same scores.                     *)
LEMMA SameTransfers ==
  ASSUME NEW e \in Transfers, NEW own \in Scores
  PROVE  Transferred(e, own) = Transferred(AnOrder, own)
  <1>1. NoLess(own, own)
    BY DEF NoLess, Scores
  <1>2. PICK x \in Scores, y \in Scores :
          /\ x = Transferred(e, own) /\ y = Transferred(AnOrder, own)
          /\ NoLess(x, y) /\ NoLess(y, x)
    BY <1>1, AnOrderIs, TransferredMore
  <1>3. \A c \in Competency : x[c] \in Nat /\ y[c] \in Nat /\ x[c] <= y[c] /\ y[c] <= x[c]
    BY <1>2 DEF Scores, NoLess
  <1>4. \A c \in Competency : x[c] = y[c]
    BY <1>3
  <1>5. x = y
    BY <1>4 DEF Scores
  <1>. QED  BY <1>2, <1>5

-----------------------------------------------------------------------------
(* Levels a user may have, and what they score.                            *)
HasLevels(l) == \A c \in Competency : l[c] \in Choice[c]

(* A level that may be chosen has a place and a score.                     *)
LEMMA ChosenIs ==
  ASSUME NEW l, HasLevels(l), NEW c \in Competency
  PROVE  l[c] \in LevelNames(TypeOf(c)) /\ LevelScore[l[c]] \in Nat
  <1>1. l[c] \in LevelNames(TypeOf(c))
    BY ScoringAssumption DEF HasLevels
  <1>2. l[c] \in DOMAIN LevelScore
    BY <1>1 DEF LevelNames, LevelScore
  <1>. QED  BY <1>1, <1>2, LevelScores

(* The scores that transfers start from.                                   *)
OfSkills(l) == [c \in Competency |-> IF TypeOf(c) = "HARD_SKILL" THEN LevelScore[l[c]] ELSE 0]

(* A competency is worth its level or what is transferred to it.           *)
LEMMA CurrentIs ==
  ASSUME NEW l, HasLevels(l)
  PROVE  /\ OfSkills(l) \in Scores /\ ScoreOf(l) \in Scores
         /\ \A c \in Competency :
              /\ LevelScore[l[c]] <= ScoreOf(l)[c]
              /\ ScoreOf(l)[c] = IF TypeOf(c) # "HARD_SKILL" THEN LevelScore[l[c]]
                                      ELSE IF LevelScore[l[c]] >= Transferred(AnOrder, OfSkills(l))[c]
                                      THEN LevelScore[l[c]] ELSE Transferred(AnOrder, OfSkills(l))[c]
  <1>1. \A c \in Competency : LevelScore[l[c]] \in Nat
    BY ChosenIs
  <1>2. OfSkills(l) \in Scores
    BY <1>1 DEF OfSkills, Scores
  <1>3. NoLess(OfSkills(l), OfSkills(l))
    BY <1>2 DEF NoLess, Scores
  <1>4. PICK hard \in Scores : hard = Transferred(AnOrder, OfSkills(l))
    BY <1>2, <1>3, AnOrderIs, TransferredMore
  <1>5. PICK own \in Scores : own = [c \in Competency |-> LevelScore[l[c]]]
    BY <1>1 DEF Scores
  <1>6. OfSkills(l) = [c \in Competency |-> IF TypeOf(c) = "HARD_SKILL" THEN own[c] ELSE 0]
    BY <1>5 DEF OfSkills
  <1>7. ScoreOf(l) = [c \in Competency |->
                             IF TypeOf(c) = "HARD_SKILL" THEN Max({own[c], hard[c]}) ELSE own[c]]
    BY <1>4, <1>5, <1>6 DEF ScoreOf, CurrentScore
  <1>8. ASSUME NEW c \in Competency
        PROVE  /\ ScoreOf(l)[c] \in Nat /\ own[c] <= ScoreOf(l)[c]
               /\ ScoreOf(l)[c] = IF TypeOf(c) # "HARD_SKILL" THEN own[c]
                                       ELSE IF own[c] >= hard[c] THEN own[c] ELSE hard[c]
    <2>1. own[c] \in Nat /\ hard[c] \in Nat
      BY DEF Scores
    <2>2. Max({own[c], hard[c]}) = IF own[c] >= hard[c] THEN own[c] ELSE hard[c]
      BY <2>1, Greater
    <2>. QED  BY <1>7, <2>1, <2>2
  <1>9. ScoreOf(l) \in Scores
    <2>1. \A c \in Competency :
            (IF TypeOf(c) = "HARD_SKILL" THEN Max({own[c], hard[c]}) ELSE own[c]) \in Nat
      BY <1>7, <1>8
    <2>. QED  BY <1>7, <2>1 DEF Scores
  <1>. QED  BY <1>2, <1>4, <1>5, <1>8, <1>9

(* Raised levels are worth no less, nor is what they transfer.             *)
LEMMA CurrentMore ==
  ASSUME NEW k, NEW l, HasLevels(k), HasLevels(l), AtLeast(l, k)
  PROVE  NoLess(ScoreOf(k), ScoreOf(l))
  <1>1. \A c \in Competency : /\ LevelScore[k[c]] \in Nat /\ LevelScore[l[c]] \in Nat
                              /\ LevelScore[l[c]] >= LevelScore[k[c]]
    BY ChosenIs DEF AtLeast
  <1>2. NoLess(OfSkills(k), OfSkills(l))
    BY <1>1 DEF NoLess, OfSkills
  <1>3. PICK x \in Scores, y \in Scores :
          x = Transferred(AnOrder, OfSkills(k)) /\ y = Transferred(AnOrder, OfSkills(l)) /\ NoLess(x, y)
    BY <1>2, CurrentIs, AnOrderIs, TransferredMore
  <1>4. ASSUME NEW c \in Competency PROVE ScoreOf(k)[c] <= ScoreOf(l)[c]
    <2>1. x[c] \in Nat /\ y[c] \in Nat /\ x[c] <= y[c]
      BY <1>3 DEF Scores, NoLess
    <2>2. ScoreOf(k)[c] = IF TypeOf(c) # "HARD_SKILL" THEN LevelScore[k[c]]
                               ELSE IF LevelScore[k[c]] >= x[c] THEN LevelScore[k[c]] ELSE x[c]
      BY <1>3, CurrentIs
    <2>3. ScoreOf(l)[c] = IF TypeOf(c) # "HARD_SKILL" THEN LevelScore[l[c]]
                               ELSE IF LevelScore[l[c]] >= y[c] THEN LevelScore[l[c]] ELSE y[c]
      BY <1>3, CurrentIs
    <2>. QED  BY <1>1, <2>1, <2>2, <2>3
  <1>. QED  BY <1>4 DEF NoLess

(* A higher score matches no worse, and a score that does not match in     *)
(* full is below what is required.                                         *)
LEMMA MatchMore ==
  ASSUME NEW x \in Nat, NEW y \in Nat, x <= y, NEW r \in Nat
  PROVE  Match(x, r) <= Match(y, r) /\ (Match(x, r) < 1000 => x < r)
  <1>1. CASE r > 0
    <2>1. PICK m \in Nat, n \in Nat : m = x * 1000 /\ n = y * 1000 /\ m <= n
      OBVIOUS
    <2>2. PICK p \in Int : p = m \div r /\ r * p <= m /\ m < r * p + r
      BY <1>1, Quotient
    <2>3. PICK q \in Int : q = n \div r /\ r * q <= n /\ n < r * q + r
      BY <1>1, Quotient
    <2>4. p <= q
      <3>. SUFFICES ASSUME q + 1 <= p PROVE FALSE
        OBVIOUS
      <3>1. r * (q + 1) <= r * p /\ r * (q + 1) = r * q + r /\ r * q \in Int /\ r * p \in Int
        BY Product
      <3>. QED  BY <2>1, <2>2, <2>3, <3>1
    <2>5. p < 1000 => x < r
      <3>. SUFFICES ASSUME p + 1 <= 1000 PROVE x < r
        OBVIOUS
      <3>1. r * (p + 1) <= r * 1000 /\ r * (p + 1) = r * p + r /\ r * p \in Int
        BY Product
      <3>. QED  BY <2>1, <2>2, <3>1
    <2>6. Match(x, r) = (IF p <= 1000 THEN p ELSE 1000) /\ Match(y, r) = (IF q <= 1000 THEN q ELSE 1000)
      BY <1>1, <2>1, <2>2, <2>3, Lesser DEF Match
    <2>. QED  BY <2>4, <2>5, <2>6
  <1>2. CASE ~ (r > 0)
    BY <1>2 DEF Match
  <1>. QED  BY <1>1, <1>2

(* An analysis is the same in whatever order the transfers come.           *)
LEMMA AnyTransfers ==
  ASSUME NEW e \in Transfers, NEW o, NEW l, HasLevels(l), NEW t
  PROVE  ComputeAnalysis(o, e, l, t) = Analysis(o, l, t)
  <1>1. PICK own : own = [c \in Competency |-> LevelScore[l[c]]]
    OBVIOUS
  <1>2. OfSkills(l) = [c \in Competency |-> IF TypeOf(c) = "HARD_SKILL" THEN own[c] ELSE 0]
    BY <1>1 DEF OfSkills
  <1>3. Transferred(e, OfSkills(l)) = Transferred(AnOrder, OfSkills(l))
    BY CurrentIs, SameTransfers
  <1>4. CurrentScore(e, l) = CurrentScore(AnOrder, l)
    BY <1>1, <1>2, <1>3 DEF CurrentScore
  <1>. QED  BY <1>4, Zenon DEF Analysis, ComputeAnalysis

(* What an analysis says of a competency.                                  *)
ItemOf(l, t, c) == Item(Requirement(c), l, ScoreOf(l), t)

(* The item of a requirement: its match, what is recommended, and for a    *)
(* gap some hours.                                                         *)
LEMMA ItemIs ==
  ASSUME NEW c \in DOMAIN Pack, NEW l, HasLevels(l), NEW t \in Tunings
  PROVE  LET e == ItemOf(l, t, c)
             r == Requirement(c)
         IN /\ e.competency = c /\ e.weight = Weight(r, t) /\ e.weight \in Nat
            /\ e.match = Match(ScoreOf(l)[c], RequiredScore(r)) /\ e.match \in 0 .. 1000
            /\ e.kind = "EXCLUDED_AS_IRRELEVANT" <=> Excluded(r)
            /\ e.kind = "ACTIONABLE_GAP" <=> ~ Excluded(r) /\ e.match < 1000 /\ Primary(r)
            /\ e.kind = "ACTIONABLE_GAP" => /\ e.hours = EstimateHours(TypeOf(c), l[c], r.level)
                                            /\ e.hours \in Nat \ {0}
            /\ e.hours \in Nat
  <1>1. PICK r : r = Requirement(c)
    OBVIOUS
  <1>2. PICK e : e = ItemOf(l, t, c)
    BY Zenon
  <1>3. PICK m \in 0 .. 1000 : m = Match(ScoreOf(l)[c], RequiredScore(r))
    <2>1. ScoreOf(l)[c] \in Nat
      BY CurrentIs, ScoringAssumption DEF Scores
    <2>2. PICK x \in Nat, q \in Nat : x = ScoreOf(l)[c] /\ q = RequiredScore(r)
      BY <1>1, <2>1, RequirementIs
    <2>3. Match(x, q) \in 0 .. 1000
      BY MatchIs, ZenonT(60)
    <2>. QED  BY <2>2, <2>3
  <1>4. /\ r.competency = c /\ r.type = TypeOf(c) /\ r.level \in LevelNames(TypeOf(c))
        /\ RequiredScore(r) \in Nat
    BY <1>1, RequirementIs
  <1>5. PICK kind : kind = RecommendationType(r, m)
    OBVIOUS
  <1>6. /\ kind = "EXCLUDED_AS_IRRELEVANT" <=> Excluded(r)
        /\ kind = "ACTIONABLE_GAP" <=> ~ Excluded(r) /\ m < 1000 /\ Primary(r)
    <2>1. m < 1000 \/ m >= 1000
      OBVIOUS
    <2>2. kind = IF Excluded(r) THEN "EXCLUDED_AS_IRRELEVANT"
                 ELSE IF m < 1000 THEN IF Primary(r) THEN "ACTIONABLE_GAP" ELSE "OPTIONAL_IMPROVEMENT"
                 ELSE IF Primary(r) THEN "OPTIONAL_IMPROVEMENT" ELSE "MARKET_CONTEXT"
      BY <1>5, <2>1 DEF RecommendationType
    <2>. QED  BY <2>2
  <1>7. e = [competency |-> c, match |-> m, weight |-> Weight(r, t), kind |-> kind,
             hours |-> IF kind = "ACTIONABLE_GAP" THEN EstimateHours(TypeOf(c), l[c], r.level) ELSE 0]
    BY <1>1, <1>2, <1>3, <1>4, <1>5 DEF ItemOf, Item
  <1>8. Weight(r, t) \in Nat
    BY <1>1, WeightIs
  <1>9. kind = "ACTIONABLE_GAP" => EstimateHours(TypeOf(c), l[c], r.level) \in Nat \ {0}
    <2>. SUFFICES ASSUME kind = "ACTIONABLE_GAP" PROVE EstimateHours(TypeOf(c), l[c], r.level) \in Nat \ {0}
      OBVIOUS
    <2>1. c \in Competency /\ l[c] \in LevelNames(TypeOf(c)) /\ LevelScore[l[c]] \in Nat
      BY ScoringAssumption, ChosenIs
    <2>2. PICK x \in Nat : x = ScoreOf(l)[c] /\ LevelScore[l[c]] <= x
      BY <2>1, CurrentIs DEF Scores
    <2>3. x < RequiredScore(r)
      BY <1>3, <1>4, <1>6, <2>2, MatchMore
    <2>4. LevelScore[l[c]] < RequiredScore(r)
      BY <1>4, <2>1, <2>2, <2>3
    <2>5. Placing(TypeOf(c))[l[c]] < Placing(TypeOf(c))[r.level]
      BY <1>1, <1>6, <2>1, <2>4, LowIsBefore
    <2>6. /\ EstimateHours(TypeOf(c), l[c], r.level) \in Nat
          /\ EstimateHours(TypeOf(c), l[c], r.level) > 0
      BY <1>4, <2>1, <2>5, TypesAre, EstimateIs
    <2>. QED  BY <2>6
  <1>. QED  BY <1>1, <1>2, <1>3, <1>6, <1>7, <1>8, <1>9

(* Raised levels match no worse, and a gap they leave was one before, with *)
(* no shorter way.                                                         *)
LEMMA RaisedItem ==
  ASSUME NEW c \in DOMAIN Pack, NEW k, NEW l, HasLevels(k), HasLevels(l), AtLeast(l, k),
         NEW t \in Tunings, NEW u \in Tunings
  PROVE  LET d == ItemOf(k, t, c)
             e == ItemOf(l, u, c)
         IN /\ d.match <= e.match
            /\ e.kind = "ACTIONABLE_GAP" => d.kind = "ACTIONABLE_GAP" /\ e.hours <= d.hours
  <1>1. PICK r : r = Requirement(c)
    OBVIOUS
  <1>2. PICK d, e : d = ItemOf(k, t, c) /\ e = ItemOf(l, u, c)
    OBVIOUS
  <1>3. /\ d.match = Match(ScoreOf(k)[c], RequiredScore(r)) /\ d.match \in 0 .. 1000
        /\ d.kind = "ACTIONABLE_GAP" <=> ~ Excluded(r) /\ d.match < 1000 /\ Primary(r)
        /\ d.kind = "ACTIONABLE_GAP" => d.hours = EstimateHours(TypeOf(c), k[c], r.level)
    BY <1>1, <1>2, ItemIs
  <1>4. /\ e.match = Match(ScoreOf(l)[c], RequiredScore(r)) /\ e.match \in 0 .. 1000
        /\ e.kind = "ACTIONABLE_GAP" <=> ~ Excluded(r) /\ e.match < 1000 /\ Primary(r)
        /\ e.kind = "ACTIONABLE_GAP" => e.hours = EstimateHours(TypeOf(c), l[c], r.level)
    BY <1>1, <1>2, ItemIs
  <1>5. c \in Competency
    BY ScoringAssumption
  <1>6. PICK x \in Nat, y \in Nat : x = ScoreOf(k)[c] /\ y = ScoreOf(l)[c] /\ x <= y
    BY <1>5, CurrentIs, CurrentMore DEF Scores, NoLess
  <1>7. RequiredScore(r) \in Nat
    BY <1>1, RequirementIs
  <1>8. d.match <= e.match
    BY <1>3, <1>4, <1>6, <1>7, MatchMore
  <1>9. e.kind = "ACTIONABLE_GAP" => d.kind = "ACTIONABLE_GAP"
    BY <1>3, <1>4, <1>8, SMTT(60)
  <1>10. EstimateHours(TypeOf(c), l[c], r.level) <= EstimateHours(TypeOf(c), k[c], r.level)
    <2>1. l[c] \in LevelNames(TypeOf(c)) /\ k[c] \in LevelNames(TypeOf(c)) /\ TypeOf(c) \in Types
      BY <1>5, ChosenIs, TypesAre
    <2>2. IndexIn(OrderOf(TypeOf(c)), l[c]) >= IndexIn(OrderOf(TypeOf(c)), k[c])
      BY <1>5 DEF AtLeast
    <2>3. /\ IndexIn(OrderOf(TypeOf(c)), l[c]) = Placing(TypeOf(c))[l[c]]
          /\ IndexIn(OrderOf(TypeOf(c)), k[c]) = Placing(TypeOf(c))[k[c]]
      BY <2>1, IndexIs
    <2>4. r.level \in LevelNames(TypeOf(c))
      BY <1>1, RequirementIs
    <2>5. Placing(TypeOf(c))[k[c]] <= Placing(TypeOf(c))[l[c]]
      BY <2>1, <2>2, <2>3, <2>4, WayIs
    <2>. QED  BY <2>1, <2>4, <2>5, ShorterWay
  <1>11. e.kind = "ACTIONABLE_GAP" => e.hours <= d.hours
    BY <1>3, <1>4, <1>9, <1>10
  <1>. QED  BY <1>2, <1>8, <1>9, <1>11

-----------------------------------------------------------------------------
(* Lists of gaps                                                           *)

(* A list in which no competency stands twice.                             *)
Sole(s) == \A i, j \in DOMAIN s : s[i].competency = s[j].competency => i = j

(* The competencies of a list are those of its elements,                   *)
LEMMA NamesAre ==
  ASSUME NEW s
  PROVE  /\ \A i \in DOMAIN s : s[i].competency \in Names(s)
         /\ \A c \in Names(s) : \E i \in DOMAIN s : s[i].competency = c
  BY DEF Names

(* and lie where those of its elements do.                                 *)
LEMMA NamesWithin ==
  ASSUME NEW s, NEW D, DOMAIN s = D, NEW S, \A i \in D : s[i].competency \in S
  PROVE  Names(s) \subseteq S
  BY DEF Names

(* Such a list is as long as its competencies are many.                    *)
LEMMA SoleCount ==
  ASSUME NEW T, NEW s \in Seq(T), Sole(s)
  PROVE  IsFiniteSet(Names(s)) /\ Cardinality(Names(s)) = Len(s)
  <1>1. PICK n \in Nat : n = Len(s) /\ DOMAIN s = 1 .. n
    BY LenProperties
  <1>. DEFINE q == [i \in 1 .. n |-> s[i].competency]
  <1>2. q \in Seq(Names(s)) /\ Len(q) = n /\ DOMAIN q = 1 .. n
    <2>1. q \in [1 .. n -> Names(s)]
      BY <1>1, NamesAre
    <2>2. q \in Seq(Names(s))
      BY <2>1, IsASeq
    <2>. QED  BY <2>1, <2>2, LenProperties
  <1>3. ToSet(q) = Names(s)
    BY <1>1 DEF ToSet, Names
  <1>4. Distinct(q)
    BY <1>1, <1>2 DEF Distinct, Sole
  <1>. HIDE DEF q
  <1>. QED  BY <1>1, <1>2, <1>3, <1>4, CountIs

(* It stays such a list with another competency at its end,                *)
LEMMA SoleAppend ==
  ASSUME NEW T, NEW s \in Seq(T), Sole(s), NEW e \in T, e.competency \notin Names(s)
  PROVE  /\ Append(s, e) \in Seq(T) /\ Sole(Append(s, e)) /\ Len(Append(s, e)) = Len(s) + 1
         /\ Names(Append(s, e)) = Names(s) \cup {e.competency}
         /\ DOMAIN Append(s, e) = 1 .. Len(s) + 1 /\ DOMAIN s = 1 .. Len(s) /\ Len(s) \in Nat
         /\ Append(s, e)[Len(s) + 1] = e /\ \A i \in 1 .. Len(s) : Append(s, e)[i] = s[i]
  <1>1. PICK n \in Nat : n = Len(s) /\ DOMAIN s = 1 .. n
    BY LenProperties
  <1>2. PICK a \in Seq(T) : /\ a = Append(s, e) /\ Len(a) = n + 1 /\ DOMAIN a = 1 .. n + 1
                            /\ a[n + 1] = e /\ \A i \in 1 .. n : a[i] = s[i]
    <2>1. /\ Append(s, e) \in Seq(T) /\ Len(Append(s, e)) = Len(s) + 1
          /\ \A i \in 1 .. Len(s) : Append(s, e)[i] = s[i]
          /\ Append(s, e)[Len(s) + 1] = e
      BY AppendProperties
    <2>2. DOMAIN Append(s, e) = 1 .. Len(Append(s, e))
      BY <2>1, LenProperties
    <2>. QED  BY <1>1, <2>1, <2>2
  <1>3. \A i \in 1 .. n + 1 : i = n + 1 \/ i \in 1 .. n
    OBVIOUS
  <1>4. \A i \in 1 .. n : i \in 1 .. n + 1 /\ s[i].competency \in Names(s)
    BY <1>1, NamesAre
  <1>5. Sole(a)
    BY <1>1, <1>2, <1>3, <1>4 DEF Sole
  <1>6. Names(a) = Names(s) \cup {e.competency}
    <2>1. Names(a) \subseteq Names(s) \cup {e.competency}
      <3>1. \A i \in 1 .. n + 1 : a[i].competency \in Names(s) \cup {e.competency}
        BY <1>2, <1>3, <1>4
      <3>. QED  BY <1>2, <3>1, NamesWithin
    <2>2. \A c \in Names(s) : c \in Names(a)
      <3>. SUFFICES ASSUME NEW i \in 1 .. n PROVE s[i].competency \in Names(a)
        BY <1>1, NamesAre
      <3>1. i \in DOMAIN a /\ a[i] = s[i]
        BY <1>2, <1>4
      <3>. QED  BY <3>1, NamesAre
    <2>3. e.competency \in Names(a)
      <3>1. n + 1 \in DOMAIN a
        BY <1>2
      <3>. QED  BY <1>2, <3>1, NamesAre
    <2>. QED  BY <2>1, <2>2, <2>3
  <1>. QED  BY <1>1, <1>2, <1>5, <1>6

(* with a list of other competencies behind it,                            *)
LEMMA SoleJoined ==
  ASSUME NEW T, NEW s \in Seq(T), NEW t \in Seq(T), Sole(s), Sole(t), Names(s) \cap Names(t) = {}
  PROVE  /\ s \o t \in Seq(T) /\ Sole(s \o t)
         /\ Names(s \o t) = Names(s) \cup Names(t)
  <1>1. PICK u \in Nat, v \in Nat : Len(s) = u /\ DOMAIN s = 1 .. u /\ Len(t) = v /\ DOMAIN t = 1 .. v
    BY LenProperties
  <1>2. PICK c \in Seq(T) : /\ c = s \o t /\ DOMAIN c = 1 .. u + v
                            /\ \A i \in 1 .. u + v : c[i] = IF i <= u THEN s[i] ELSE t[i - u]
    <2>1. PICK c \in Seq(T) : c = s \o t
      BY ConcatProperties
    <2>2. /\ Len(c) = Len(s) + Len(t)
          /\ \A i \in 1 .. Len(s) + Len(t) : c[i] = IF i <= Len(s) THEN s[i] ELSE t[i - Len(s)]
      BY <2>1, ConcatProperties, Zenon
    <2>3. DOMAIN c = 1 .. Len(c)
      BY LenProperties
    <2>. QED  BY <1>1, <2>1, <2>2, <2>3
  <1>3. \A i \in DOMAIN c : \/ i \in DOMAIN s /\ c[i] = s[i]
                            \/ i - u \in DOMAIN t /\ c[i] = t[i - u] /\ i \notin DOMAIN s
    BY <1>1, <1>2
  <1>4. \A k \in DOMAIN s : k \in DOMAIN c /\ c[k] = s[k]
    BY <1>1, <1>2
  <1>5. \A k \in DOMAIN t : k + u \in DOMAIN c /\ c[k + u] = t[k]
    BY <1>1, <1>2
  <1>6. Names(c) = Names(s) \cup Names(t)
    <2>1. \A x \in Names(c) : x \in Names(s) \cup Names(t)
      BY <1>3, NamesAre
    <2>2. \A x \in Names(s) : x \in Names(c)
      BY <1>4, NamesAre
    <2>3. \A x \in Names(t) : x \in Names(c)
      BY <1>5, NamesAre
    <2>. QED  BY <2>1, <2>2, <2>3
  <1>7. ASSUME NEW i \in DOMAIN c, NEW j \in DOMAIN c, c[i].competency = c[j].competency PROVE i = j
    <2>1. CASE i \in DOMAIN s /\ c[i] = s[i]
      <3>1. c[j].competency \in Names(s)
        BY <1>7, <2>1, NamesAre
      <3>2. j \in DOMAIN s /\ c[j] = s[j]
        BY <1>3, <3>1, NamesAre
      <3>. QED  BY <1>7, <2>1, <3>2 DEF Sole
    <2>2. CASE i - u \in DOMAIN t /\ c[i] = t[i - u] /\ i \notin DOMAIN s
      <3>1. c[j].competency \in Names(t)
        BY <1>7, <2>2, NamesAre
      <3>2. j - u \in DOMAIN t /\ c[j] = t[j - u]
        BY <1>3, <3>1, NamesAre
      <3>3. i - u = j - u /\ i \in Int /\ j \in Int
        BY <1>2, <1>7, <2>2, <3>2 DEF Sole
      <3>. QED  BY <3>3
    <2>. QED  BY <1>3, <2>1, <2>2
  <1>. QED  BY <1>2, <1>6, <1>7 DEF Sole

(* without its first element,                                              *)
LEMMA SoleTail ==
  ASSUME NEW T, NEW s \in Seq(T), Sole(s), s # <<>>
  PROVE  /\ Head(s) \in T /\ Tail(s) \in Seq(T) /\ Sole(Tail(s))
         /\ Head(s).competency \in Names(s) /\ Names(Tail(s)) = Names(s) \ {Head(s).competency}
  <1>1. PICK n \in Nat : n = Len(s) /\ DOMAIN s = 1 .. n /\ n # 0
    BY LenProperties, EmptySeq
  <1>2. PICK h \in T, t \in Seq(T) : /\ h = Head(s) /\ t = Tail(s) /\ h = s[1] /\ DOMAIN t = 1 .. n - 1
                                     /\ \A i \in 1 .. n - 1 : t[i] = s[i + 1]
    <2>1. /\ Head(s) \in T /\ Tail(s) \in Seq(T) /\ Len(Tail(s)) = Len(s) - 1
          /\ \A i \in 1 .. Len(Tail(s)) : Tail(s)[i] = s[i + 1]
      BY HeadTailProperties
    <2>2. DOMAIN Tail(s) = 1 .. Len(Tail(s))
      BY <2>1, LenProperties
    <2>3. Head(s) = s[1]
      OBVIOUS
    <2>. QED  BY <1>1, <2>1, <2>2, <2>3
  <1>3. 1 \in DOMAIN s /\ \A i \in 1 .. n - 1 : i + 1 \in DOMAIN s /\ i + 1 # 1
    BY <1>1
  <1>4. \A i \in DOMAIN s : i = 1 \/ (i - 1 \in 1 .. n - 1 /\ t[i - 1] = s[i])
    BY <1>1, <1>2
  <1>5. Sole(t)
    <2>. SUFFICES ASSUME NEW i \in 1 .. n - 1, NEW j \in 1 .. n - 1, t[i].competency = t[j].competency
                  PROVE  i = j
      BY <1>2 DEF Sole
    <2>1. i + 1 = j + 1
      BY <1>2, <1>3 DEF Sole
    <2>. QED  BY <2>1
  <1>6. Names(t) \subseteq Names(s) \ {h.competency}
    <2>1. \A i \in 1 .. n - 1 : t[i].competency \in Names(s) \ {h.competency}
      BY <1>2, <1>3, NamesAre DEF Sole
    <2>. QED  BY <1>2, <2>1, NamesWithin
  <1>7. \A c \in Names(s) : c = h.competency \/ c \in Names(t)
    <2>. SUFFICES ASSUME NEW i \in DOMAIN s
                  PROVE  s[i].competency = h.competency \/ s[i].competency \in Names(t)
      BY NamesAre
    <2>. QED  BY <1>2, <1>4, NamesAre
  <1>8. h.competency \in Names(s)
    BY <1>2, <1>3, NamesAre
  <1>9. Names(t) = Names(s) \ {h.competency}
    BY <1>6, <1>7
  <1>. QED  BY <1>2, <1>5, <1>8, <1>9

(* reduced to some of its positions,                                       *)
LEMMA SolePicked ==
  ASSUME NEW T, NEW s \in Seq(T), Sole(s), NEW S, S \subseteq DOMAIN s
  PROVE  /\ Picked(s, S) \in Seq(T) /\ Sole(Picked(s, S))
         /\ Names(Picked(s, S)) = {s[i].competency : i \in S}
         /\ ToSet(Picked(s, S)) = {s[i] : i \in S}
  <1>0. S \cap DOMAIN s = S
    OBVIOUS
  <1>1. PICK p \in Seq(T) : p = Picked(s, S)
    BY PickedIs
  <1>2. PICK f : From(p, s, S, f)
    BY <1>0, <1>1, PickedIs
  <1>3. DOMAIN p = 1 .. Len(p) /\ Len(p) \in Nat /\ DOMAIN s = 1 .. Len(s) /\ Len(s) \in Nat
    BY LenProperties
  <1>4. ToSet(p) = {s[i] : i \in S}
    BY <1>2, <1>3, PickedRange
  <1>5. ASSUME NEW k \in DOMAIN p, NEW l \in DOMAIN p, p[k].competency = p[l].competency PROVE k = l
    <2>1. f[k] \in DOMAIN s /\ f[l] \in DOMAIN s /\ s[f[k]].competency = s[f[l]].competency
      BY <1>2, <1>3, <1>5 DEF From
    <2>2. f[k] = f[l] /\ f[k] \in Int
      BY <1>3, <2>1 DEF Sole
    <2>3. ~ (k < l) /\ ~ (l < k)
      BY <1>2, <1>3, <2>2 DEF From
    <2>. QED  BY <1>3, <2>3
  <1>6. Names(p) = {s[i].competency : i \in S}
    <2>1. Names(p) = {x.competency : x \in ToSet(p)}
      BY DEF Names, ToSet
    <2>. QED  BY <1>4, <2>1
  <1>. QED  BY <1>1, <1>4, <1>5, <1>6 DEF Sole

(* and sorted by weight.                                                   *)
LEMMA SoleSorted ==
  ASSUME NEW T, \A x \in T : x.weight \in Int, NEW s \in Seq(T), Sole(s)
  PROVE  ByWeight(s) \in Seq(T) /\ Sole(ByWeight(s)) /\ Names(ByWeight(s)) = Names(s)
  <1>1. PICK n \in Nat : n = Len(s) /\ DOMAIN s = 1 .. n /\ \A i \in 1 .. n : s[i] \in T
    BY LenProperties, ElementOfSeq
  <1>2. PICK key \in [DOMAIN s -> Int] : key = [i \in DOMAIN s |-> s[i].weight]
    BY <1>1
  <1>3. PICK d \in Seq(T) : d = ByWeight(s) /\ d = Descending(s, key)
    BY <1>2, DescendingIs DEF ByWeight
  <1>4. PICK p : SortedBy(s, key, d, p)
    BY <1>2, <1>3, DescendingIs
  <1>5. /\ p \in [1 .. n -> 1 .. n] /\ DOMAIN d = 1 .. n /\ \A m \in 1 .. n : d[m] = s[p[m]]
        /\ \A i, j \in 1 .. n : p[i] = p[j] => i = j
        /\ \A j \in 1 .. n : \E i \in 1 .. n : p[i] = j
    BY <1>1, <1>4 DEF SortedBy
  <1>6. Sole(d)
    <2>. SUFFICES ASSUME NEW i \in 1 .. n, NEW j \in 1 .. n, d[i].competency = d[j].competency
                  PROVE  i = j
      BY <1>5 DEF Sole
    <2>1. p[i] \in DOMAIN s /\ p[j] \in DOMAIN s /\ s[p[i]].competency = s[p[j]].competency
      BY <1>1, <1>5
    <2>2. p[i] = p[j]
      BY <2>1 DEF Sole
    <2>. QED  BY <1>5, <2>2
  <1>7. Names(d) \subseteq Names(s)
    <2>. SUFFICES ASSUME NEW i \in 1 .. n PROVE d[i].competency \in Names(s)
      BY <1>5, NamesWithin
    <2>1. p[i] \in DOMAIN s /\ d[i] = s[p[i]]
      BY <1>1, <1>5
    <2>. QED  BY <2>1, NamesAre
  <1>8. \A c \in Names(s) : c \in Names(d)
    <2>. SUFFICES ASSUME NEW j \in 1 .. n PROVE s[j].competency \in Names(d)
      BY <1>1, NamesAre
    <2>1. PICK i \in 1 .. n : p[i] = j
      BY <1>5
    <2>2. d[i] = s[j]
      BY <1>5, <2>1
    <2>. QED  BY <1>5, <2>2, NamesAre
  <1>. QED  BY <1>3, <1>6, <1>7, <1>8

-----------------------------------------------------------------------------
(* The order of the roadmap                                                *)

(* What builds on what goes three deep at most.                            *)
LEMMA BuildsOnIs ==
  ASSUME NEW c
  PROVE  /\ BuildsOn(c) \subseteq {"Linux", "AWS", "Azure", "Docker"} /\ IsFiniteSet(BuildsOn(c))
         /\ c # "Kubernetes" => \A d \in BuildsOn(c) : BuildsOn(d) = {}
         /\ c = "Kubernetes" => \A d \in BuildsOn(c) : d # "Kubernetes"
  <1>1. BuildsOn(c) \subseteq {"Linux", "AWS", "Azure", "Docker"}
    BY DEF BuildsOn
  <1>2. IsFiniteSet(BuildsOn(c))
    BY <1>1, FourAreFinite, FS_Subset
  <1>3. c # "Kubernetes" => BuildsOn(c) \subseteq {"Linux", "AWS", "Azure"}
    BY DEF BuildsOn
  <1>4. \A d \in {"Linux", "AWS", "Azure"} : BuildsOn(d) = {}
    BY DEF BuildsOn
  <1>. QED  BY <1>1, <1>2, <1>3, <1>4

(* A gap depends on other gaps only.                                       *)
LEMMA DependsOnIs ==
  ASSUME NEW c, NEW gaps
  PROVE  /\ DependsOn(c, gaps) \subseteq Names(gaps) /\ DependsOn(c, gaps) \subseteq BuildsOn(c)
         /\ IsFiniteSet(DependsOn(c, gaps))
         /\ \A N : IsFiniteSet(DependsOn(c, gaps) \ N)
  <1>1. DependsOn(c, gaps) \subseteq Names(gaps) /\ DependsOn(c, gaps) \subseteq BuildsOn(c)
    BY DEF DependsOn
  <1>2. IsFiniteSet(BuildsOn(c))
    BY BuildsOnIs
  <1>3. \A D \in SUBSET BuildsOn(c) : IsFiniteSet(D)
    BY <1>2, FS_Subset
  <1>. QED  BY <1>1, <1>3

(* Gaps, each of another competency.                                       *)
AreGaps(gaps) ==
  gaps \in Seq(ToSet(gaps)) /\ Sole(gaps) /\ \A x \in ToSet(gaps) : x.weight \in Int

(* In every round of the loop what is placed stands behind all it depends  *)
(* on, and the queue holds the others of which everything is placed.       *)
Topological(ordered, gaps) ==
  \A j \in DOMAIN ordered : \A d \in DependsOn(ordered[j].competency, gaps) :
    \E i \in DOMAIN ordered : i < j /\ ordered[i].competency = d

(* The types of the loop,                                                  *)
Rounds(gaps) ==
  [queue : Seq(ToSet(gaps)), incoming : [Names(gaps) -> Nat], ordered : Seq(ToSet(gaps))]

(* and what every round keeps.                                             *)
Kahn(s, gaps) ==
  /\ s \in Rounds(gaps)
  /\ Sole(s.queue) /\ Sole(s.ordered) /\ Names(s.queue) \cap Names(s.ordered) = {}
  /\ Names(s.queue) \subseteq Names(gaps) /\ Names(s.ordered) \subseteq Names(gaps)
  /\ \A c \in Names(gaps) :
       /\ c \in Names(s.queue) \cup Names(s.ordered) <=> DependsOn(c, gaps) \subseteq Names(s.ordered)
       /\ s.incoming[c] = Cardinality(DependsOn(c, gaps) \ Names(s.ordered))
  /\ Topological(s.ordered, gaps)

(* Nothing is left to wait for when all it depends on is among N.          *)
LEMMA NoneLeft ==
  ASSUME NEW c, NEW gaps, NEW N
  PROVE  /\ Cardinality(DependsOn(c, gaps) \ N) \in Nat
         /\ Cardinality(DependsOn(c, gaps) \ N) = 0 <=> DependsOn(c, gaps) \subseteq N
  <1>1. PICK D : D = DependsOn(c, gaps) \ N /\ IsFiniteSet(D)
    BY DependsOnIs
  <1>2. Cardinality(D) \in Nat /\ (Cardinality(D) = 0 <=> D = {})
    BY <1>1, FS_CardinalityType, FS_EmptySet
  <1>. QED  BY <1>1, <1>2

(* The queue begins with the gaps that depend on none.                     *)
LEMMA Begins ==
  ASSUME NEW gaps, AreGaps(gaps)
  PROVE  Kahn(Begun(gaps), gaps) /\ Begun(gaps).ordered = <<>>
  <1>. DEFINE incoming == [c \in Names(gaps) |-> Cardinality(DependsOn(c, gaps))]
              S == {i \in DOMAIN gaps : incoming[gaps[i].competency] = 0}
  <1>1. gaps \in Seq(ToSet(gaps)) /\ Sole(gaps) /\ \A x \in ToSet(gaps) : x.weight \in Int
    BY DEF AreGaps
  <1>2. \A c : /\ DependsOn(c, gaps) \ {} = DependsOn(c, gaps)
               /\ Cardinality(DependsOn(c, gaps)) \in Nat
               /\ Cardinality(DependsOn(c, gaps)) = 0 <=> DependsOn(c, gaps) \subseteq {}
    <2>1. \A c : DependsOn(c, gaps) \ {} = DependsOn(c, gaps)
      OBVIOUS
    <2>. QED  BY <2>1, NoneLeft, ZenonT(60)
  <1>3. incoming \in [Names(gaps) -> Nat]
    BY <1>2
  <1>4. PICK free \in Seq(ToSet(gaps)) :
          /\ free = Picked(gaps, S) /\ Sole(free) /\ Names(free) = {gaps[i].competency : i \in S}
    <2>1. S \subseteq DOMAIN gaps
      OBVIOUS
    <2>. HIDE DEF S
    <2>. QED  BY <1>1, <2>1, SolePicked
  <1>5. \A c \in Names(gaps) : c \in Names(free) <=> incoming[c] = 0
    <2>1. \A c \in Names(free) : c \in Names(gaps) /\ incoming[c] = 0
      BY <1>4, NamesAre
    <2>2. ASSUME NEW c \in Names(gaps), incoming[c] = 0 PROVE c \in Names(free)
      <3>1. PICK i \in DOMAIN gaps : gaps[i].competency = c
        BY NamesAre
      <3>2. i \in S
        BY <2>2, <3>1
      <3>. HIDE DEF S
      <3>. QED  BY <1>4, <3>1, <3>2
    <2>. QED  BY <2>1, <2>2
  <1>6. Names(free) \subseteq Names(gaps)
    BY <1>4, NamesAre
  <1>7. PICK q \in Seq(ToSet(gaps)) : q = ByWeight(free) /\ Sole(q) /\ Names(q) = Names(free)
    BY <1>1, <1>4, SoleSorted
  <1>8. Begun(gaps) = [queue |-> q, incoming |-> incoming, ordered |-> <<>>]
    BY <1>4, <1>7 DEF Begun
  <1>9. Names(<<>>) = {} /\ Sole(<<>>) /\ <<>> \in Seq(ToSet(gaps)) /\ Topological(<<>>, gaps)
    BY DEF Names, Sole, Topological
  <1>10. PICK s : /\ s = Begun(gaps) /\ s.queue = q /\ s.incoming = incoming /\ s.ordered = <<>>
                  /\ s \in Rounds(gaps)
    <2>. HIDE DEF incoming
    <2>1. PICK s : s = [queue |-> q, incoming |-> incoming, ordered |-> <<>>]
      OBVIOUS
    <2>2. s \in [queue : Seq(ToSet(gaps)), incoming : [Names(gaps) -> Nat], ordered : Seq(ToSet(gaps))]
      BY <1>3, <1>9, <2>1
    <2>. QED  BY <1>8, <2>1, <2>2 DEF Rounds
  <1>11. \A c \in Names(gaps) :
           /\ c \in Names(q) \cup {} <=> DependsOn(c, gaps) \subseteq {}
           /\ incoming[c] = Cardinality(DependsOn(c, gaps) \ {})
    BY <1>2, <1>5, <1>7
  <1>. HIDE DEF incoming, S
  <1>12. Kahn(s, gaps)
    BY <1>6, <1>7, <1>9, <1>10, <1>11 DEF Kahn
  <1>. QED  BY <1>10, <1>12

(* A round places the head of the queue, and moves to it what waited for   *)
(* that only.                                                              *)
LEMMA PlaceNextKeeps ==
  ASSUME NEW gaps, AreGaps(gaps), NEW s, Kahn(s, gaps)
  PROVE  /\ Kahn(PlaceNext(s, gaps), gaps)
         /\ s.queue = <<>> => PlaceNext(s, gaps) = s
         /\ s.queue # <<>> => Len(PlaceNext(s, gaps).ordered) = Len(s.ordered) + 1
  <1>1. CASE s.queue = <<>>
    BY <1>1 DEF PlaceNext
  <1>2. CASE s.queue # <<>>
    <2>. DEFINE G == ToSet(gaps)
    <2>1. gaps \in Seq(G) /\ Sole(gaps) /\ \A x \in G : x.weight \in Int
      BY DEF AreGaps
    <2>2. PICK queue \in Seq(G), incoming \in [Names(gaps) -> Nat], ordered \in Seq(G) :
            s.queue = queue /\ s.incoming = incoming /\ s.ordered = ordered
      BY DEF Kahn, Rounds
    <2>3. /\ Sole(queue) /\ Sole(ordered) /\ Names(queue) \cap Names(ordered) = {}
          /\ Names(queue) \subseteq Names(gaps) /\ Names(ordered) \subseteq Names(gaps)
          /\ \A c \in Names(gaps) :
               /\ c \in Names(queue) \cup Names(ordered) <=> DependsOn(c, gaps) \subseteq Names(ordered)
               /\ incoming[c] = Cardinality(DependsOn(c, gaps) \ Names(ordered))
          /\ Topological(ordered, gaps)
      BY <2>2 DEF Kahn
    <2>. HIDE DEF G
    <2>4. PICK cur \in G, rest \in Seq(G), x \in Names(queue) :
            /\ cur = Head(queue) /\ rest = Tail(queue) /\ Sole(rest) /\ x = cur.competency
            /\ Names(rest) = Names(queue) \ {x}
      <3>1. /\ Head(queue) \in G /\ Tail(queue) \in Seq(G) /\ Sole(Tail(queue))
            /\ Head(queue).competency \in Names(queue)
            /\ Names(Tail(queue)) = Names(queue) \ {Head(queue).competency}
        BY <1>2, <2>2, <2>3, SoleTail
      <3>. QED  BY <3>1
    <2>5. x \in Names(gaps) /\ x \notin Names(ordered) /\ DependsOn(x, gaps) \subseteq Names(ordered)
      BY <2>3, <2>4
    <2>6. PICK placed \in Seq(G) :
            /\ placed = Append(ordered, cur) /\ Sole(placed) /\ Len(placed) = Len(ordered) + 1
            /\ Names(placed) = Names(ordered) \cup {x}
            /\ DOMAIN placed = 1 .. Len(ordered) + 1 /\ DOMAIN ordered = 1 .. Len(ordered)
            /\ Len(ordered) \in Nat
            /\ placed[Len(ordered) + 1] = cur /\ \A i \in 1 .. Len(ordered) : placed[i] = ordered[i]
      <3>1. cur.competency \notin Names(ordered)
        BY <2>4, <2>5
      <3>2. /\ Append(ordered, cur) \in Seq(G) /\ Sole(Append(ordered, cur))
            /\ Len(Append(ordered, cur)) = Len(ordered) + 1
            /\ Names(Append(ordered, cur)) = Names(ordered) \cup {cur.competency}
            /\ DOMAIN Append(ordered, cur) = 1 .. Len(ordered) + 1
            /\ DOMAIN ordered = 1 .. Len(ordered) /\ Len(ordered) \in Nat
            /\ Append(ordered, cur)[Len(ordered) + 1] = cur
            /\ \A i \in 1 .. Len(ordered) : Append(ordered, cur)[i] = ordered[i]
        BY <2>3, <3>1, SoleAppend
      <3>. QED  BY <2>4, <3>2
    <2>. DEFINE left == [c \in Names(gaps) |-> incoming[c] - (IF x \in DependsOn(c, gaps) THEN 1 ELSE 0)]
                S == {i \in DOMAIN gaps : /\ x \in DependsOn(gaps[i].competency, gaps)
                                          /\ left[gaps[i].competency] = 0}
    <2>7. ASSUME NEW c \in Names(gaps)
          PROVE  left[c] = Cardinality(DependsOn(c, gaps) \ Names(placed)) /\ left[c] \in Nat
      <3>1. PICK D : D = DependsOn(c, gaps) \ Names(ordered) /\ IsFiniteSet(D)
        BY DependsOnIs
      <3>2. DependsOn(c, gaps) \ Names(placed) = D \ {x}
        BY <2>6, <3>1
      <3>3. Cardinality(D) \in Nat /\ Cardinality(D \ {x}) \in Nat
            /\ Cardinality(D \ {x}) = IF x \in D THEN Cardinality(D) - 1 ELSE Cardinality(D)
        BY <3>1, FS_RemoveElement, FS_CardinalityType
      <3>4. x \in D <=> x \in DependsOn(c, gaps)
        BY <2>5, <3>1
      <3>5. incoming[c] = Cardinality(D)
        BY <2>3, <3>1
      <3>6. left[c] = incoming[c] - (IF x \in DependsOn(c, gaps) THEN 1 ELSE 0)
        OBVIOUS
      <3>. HIDE DEF left
      <3>7. left[c] = Cardinality(D \ {x})
        <4>1. CASE x \in D
          BY <3>3, <3>4, <3>5, <3>6, <4>1
        <4>2. CASE x \notin D
          BY <3>3, <3>4, <3>5, <3>6, <4>2
        <4>. QED  BY <4>1, <4>2
      <3>. QED  BY <3>2, <3>3, <3>7
    <2>8. left \in [Names(gaps) -> Nat]
      BY <2>7
    <2>9. PICK free \in Seq(G) :
            /\ free = Picked(gaps, S) /\ Sole(free) /\ Names(free) = {gaps[i].competency : i \in S}
      <3>1. S \subseteq DOMAIN gaps
        OBVIOUS
      <3>. HIDE DEF S
      <3>. QED  BY <2>1, <3>1, SolePicked
    <2>10. \A c \in Names(gaps) :
             left[c] = 0 <=> DependsOn(c, gaps) \subseteq Names(placed)
      BY <2>7, NoneLeft
    <2>. HIDE DEF left
    <2>11. Names(free) = {c \in Names(gaps) : /\ x \in DependsOn(c, gaps)
                                              /\ DependsOn(c, gaps) \subseteq Names(placed)}
      <3>1. \A c \in Names(free) : c \in Names(gaps) /\ x \in DependsOn(c, gaps) /\ left[c] = 0
        BY <2>9, NamesAre
      <3>2. ASSUME NEW c \in Names(gaps), x \in DependsOn(c, gaps), left[c] = 0 PROVE c \in Names(free)
        <4>1. PICK i \in DOMAIN gaps : gaps[i].competency = c
          BY NamesAre
        <4>2. i \in S
          BY <3>2, <4>1
        <4>. HIDE DEF S
        <4>. QED  BY <2>9, <4>1, <4>2
      <3>. HIDE DEF S
      <3>. QED  BY <2>10, <3>1, <3>2
    <2>. HIDE DEF S
    <2>12. Names(free) \cap Names(rest) = {} /\ Names(free) \cap Names(placed) = {}
      <3>1. ASSUME NEW c \in Names(free) PROVE c \notin Names(queue) /\ c \notin Names(ordered)
        <4>1. x \in DependsOn(c, gaps) /\ c \in Names(gaps)
          BY <2>11
        <4>2. ~ (DependsOn(c, gaps) \subseteq Names(ordered))
          BY <2>5, <4>1
        <4>. QED  BY <2>3, <4>1, <4>2
      <3>. QED  BY <2>4, <2>6, <3>1
    <2>13. PICK joined \in Seq(G) :
             joined = rest \o free /\ Sole(joined) /\ Names(joined) = Names(rest) \cup Names(free)
      <3>1. /\ rest \o free \in Seq(G) /\ Sole(rest \o free)
            /\ Names(rest \o free) = Names(rest) \cup Names(free)
        <4>1. Sole(rest) /\ Sole(free) /\ Names(rest) \cap Names(free) = {}
          BY <2>4, <2>9, <2>12, SMTT(60)
        <4>. QED  BY <4>1, SoleJoined
      <3>. QED  BY <3>1
    <2>14. PlaceNext(s, gaps) = [queue |-> joined, incoming |-> left, ordered |-> placed]
      <3>1. left = [c \in Names(gaps) |->
                      s.incoming[c] - (IF cur.competency \in DependsOn(c, gaps) THEN 1 ELSE 0)]
        BY <2>2, <2>4 DEF left
      <3>2. S = {i \in DOMAIN gaps : /\ cur.competency \in DependsOn(gaps[i].competency, gaps)
                                     /\ left[gaps[i].competency] = 0}
        BY <2>4 DEF S
      <3>3. /\ cur = Head(s.queue) /\ joined = Tail(s.queue) \o Picked(gaps, S)
            /\ placed = Append(s.ordered, cur)
        BY <2>2, <2>4, <2>6, <2>9, <2>13
      <3>. QED  BY <1>2, <3>1, <3>2, <3>3 DEF PlaceNext
    <2>15. PICK t : /\ t = PlaceNext(s, gaps) /\ t.queue = joined /\ t.incoming = left /\ t.ordered = placed
                    /\ t \in Rounds(gaps)
      <3>1. PICK t : t = [queue |-> joined, incoming |-> left, ordered |-> placed]
        OBVIOUS
      <3>2. t \in [queue : Seq(G), incoming : [Names(gaps) -> Nat], ordered : Seq(G)]
        BY <2>8, <3>1
      <3>. QED  BY <2>14, <3>1, <3>2 DEF Rounds, G
    <2>16. Names(joined) \cap Names(placed) = {}
      <3>1. Names(rest) \cap Names(placed) = {}
        BY <2>3, <2>4, <2>6
      <3>. QED  BY <2>12, <2>13, <3>1
    <2>17. Names(joined) \subseteq Names(gaps) /\ Names(placed) \subseteq Names(gaps)
      BY <2>3, <2>4, <2>5, <2>6, <2>11, <2>13
    <2>18. ASSUME NEW c \in Names(gaps)
           PROVE  c \in Names(joined) \cup Names(placed) <=> DependsOn(c, gaps) \subseteq Names(placed)
      <3>1. Names(joined) \cup Names(placed) = Names(queue) \cup Names(ordered) \cup Names(free)
        BY <2>4, <2>6, <2>13
      <3>2. c \in Names(queue) \cup Names(ordered) <=> DependsOn(c, gaps) \subseteq Names(ordered)
        BY <2>3
      <3>3. c \in Names(free) <=> x \in DependsOn(c, gaps) /\ DependsOn(c, gaps) \subseteq Names(placed)
        BY <2>11
      <3>. QED  BY <2>6, <3>1, <3>2, <3>3
    <2>19. Topological(placed, gaps)
      <3>. SUFFICES ASSUME NEW j \in DOMAIN placed, NEW d \in DependsOn(placed[j].competency, gaps)
                    PROVE  \E i \in DOMAIN placed : i < j /\ placed[i].competency = d
        BY DEF Topological
      <3>1. CASE j \in DOMAIN ordered
        <4>1. d \in DependsOn(ordered[j].competency, gaps)
          BY <2>6, <3>1
        <4>2. PICK i \in DOMAIN ordered : i < j /\ ordered[i].competency = d
          BY <2>3, <3>1, <4>1 DEF Topological
        <4>. QED  BY <2>6, <4>2
      <3>2. CASE j = Len(ordered) + 1
        <4>1. d \in Names(ordered)
          BY <2>4, <2>5, <2>6, <3>2
        <4>2. PICK i \in DOMAIN ordered : ordered[i].competency = d
          BY <4>1, NamesAre
        <4>3. i \in DOMAIN placed /\ i < j /\ placed[i] = ordered[i]
          BY <2>6, <3>2, <4>2
        <4>. QED  BY <4>2, <4>3
      <3>. QED  BY <2>6, <3>1, <3>2
    <2>20. Kahn(t, gaps)
      BY <2>6, <2>7, <2>13, <2>15, <2>16, <2>17, <2>18, <2>19 DEF Kahn
    <2>. QED  BY <1>2, <2>2, <2>6, <2>15, <2>20
  <1>. QED  BY <1>1, <1>2

(* The loop ends when nothing waits, or after as many rounds as gaps: both *)
(* ways everything is placed, for nothing builds on itself.                *)
LEMMA AllPlaced ==
  ASSUME NEW gaps, AreGaps(gaps), NEW s, Kahn(s, gaps),
         s.queue = <<>> \/ Len(s.ordered) = Len(gaps)
  PROVE  Names(s.ordered) = Names(gaps) /\ Len(s.ordered) = Len(gaps)
  <1>1. gaps \in Seq(ToSet(gaps)) /\ Sole(gaps)
    BY DEF AreGaps
  <1>2. PICK ordered \in Seq(ToSet(gaps)), queue \in Seq(ToSet(gaps)) : ordered = s.ordered /\ queue = s.queue
    BY DEF Kahn, Rounds
  <1>3. /\ Sole(ordered) /\ Names(ordered) \subseteq Names(gaps)
        /\ \A c \in Names(gaps) :
             c \in Names(queue) \cup Names(ordered) <=> DependsOn(c, gaps) \subseteq Names(ordered)
    BY <1>2 DEF Kahn
  <1>4. /\ IsFiniteSet(Names(gaps)) /\ Cardinality(Names(gaps)) = Len(gaps)
        /\ IsFiniteSet(Names(ordered)) /\ Cardinality(Names(ordered)) = Len(ordered)
    BY <1>1, <1>3, SoleCount
  <1>5. CASE queue = <<>>
    <2>1. Names(queue) = {}
      BY <1>5 DEF Names
    <2>2. \A c \in Names(gaps) : BuildsOn(c) = {} => c \in Names(ordered)
      BY <1>3, <2>1, DependsOnIs
    <2>3. \A c \in Names(gaps) : c # "Kubernetes" => c \in Names(ordered)
      <3>. SUFFICES ASSUME NEW c \in Names(gaps), c # "Kubernetes" PROVE c \in Names(ordered)
        OBVIOUS
      <3>1. \A d \in DependsOn(c, gaps) : d \in Names(gaps) /\ BuildsOn(d) = {}
        BY DependsOnIs, BuildsOnIs
      <3>. QED  BY <1>3, <2>1, <2>2, <3>1
    <2>4. \A c \in Names(gaps) : c = "Kubernetes" => c \in Names(ordered)
      <3>. SUFFICES ASSUME NEW c \in Names(gaps), c = "Kubernetes" PROVE c \in Names(ordered)
        OBVIOUS
      <3>1. \A d \in DependsOn(c, gaps) : d \in Names(gaps) /\ d # "Kubernetes"
        BY DependsOnIs, BuildsOnIs
      <3>. QED  BY <1>3, <2>1, <2>3, <3>1
    <2>5. Names(ordered) = Names(gaps)
      BY <1>3, <2>3, <2>4
    <2>. QED  BY <1>2, <1>4, <2>5
  <1>6. CASE Len(ordered) = Len(gaps)
    <2>1. Names(ordered) \in SUBSET Names(gaps) /\ Cardinality(Names(ordered)) = Cardinality(Names(gaps))
      BY <1>3, <1>4, <1>6
    <2>2. Names(ordered) = Names(gaps)
      BY <1>4, <2>1, FS_Subset
    <2>. QED  BY <1>2, <1>6, <2>2
  <1>. QED  BY <1>2, <1>5, <1>6

(* All gaps are placed, each once, behind all that they depend on.         *)
LEMMA PlacedIs ==
  ASSUME NEW gaps, AreGaps(gaps)
  PROVE  /\ Placed(gaps) \in Seq(ToSet(gaps)) /\ Sole(Placed(gaps))
         /\ Names(Placed(gaps)) = Names(gaps) /\ Len(Placed(gaps)) = Len(gaps)
         /\ Topological(Placed(gaps), gaps)
  <1>. DEFINE N == Len(gaps)
              X == {s \in Rounds(gaps) : Kahn(s, gaps)}
              F(g) == [n \in 0 .. N |-> IF n = 0 THEN Begun(gaps) ELSE PlaceNext(g[n - 1], gaps)]
              step == [n \in 1 .. N |-> [s \in X |-> PlaceNext(s, gaps)]]
              good == [n \in 0 .. N |-> {s \in X : s.queue = <<>> \/ Len(s.ordered) = n}]
  <1>1. N \in Nat
    BY LenProperties DEF AreGaps
  <1>2. Begun(gaps) \in X /\ Begun(gaps) \in good[0]
    <2>1. Len(Begun(gaps).ordered) = 0 /\ Kahn(Begun(gaps), gaps)
      BY Begins
    <2>2. Begun(gaps) \in X
      BY <2>1 DEF Kahn
    <2>. HIDE DEF X
    <2>. QED  BY <1>1, <2>1, <2>2
  <1>3. \A s \in X : PlaceNext(s, gaps) \in X
    BY PlaceNextKeeps DEF Kahn
  <1>4. step \in [1 .. N -> [X -> X]]
    <2>. HIDE DEF X, N
    <2>. QED  BY <1>3
  <1>5. ASSUME NEW n \in 1 .. N, NEW x \in X, x \in good[n - 1] PROVE step[n][x] \in good[n]
    <2>1. n - 1 \in 0 .. N /\ n \in 0 .. N
      BY <1>1
    <2>2. PICK y \in X : y = PlaceNext(x, gaps) /\ y = step[n][x]
      <3>. HIDE DEF X, N
      <3>. QED  BY <1>3
    <2>3. x.queue = <<>> \/ Len(x.ordered) = n - 1
      <3>. HIDE DEF X, N
      <3>. QED  BY <1>5, <2>1
    <2>4. Kahn(x, gaps)
      OBVIOUS
    <2>5. y.queue = <<>> \/ Len(y.ordered) = n
      <3>1. CASE x.queue = <<>>
        BY <2>2, <2>4, <3>1, PlaceNextKeeps
      <3>2. CASE x.queue # <<>>
        <4>1. Len(y.ordered) = (n - 1) + 1
          BY <2>2, <2>3, <2>4, <3>2, PlaceNextKeeps
        <4>. QED  BY <1>1, <4>1
      <3>. QED  BY <3>1, <3>2
    <2>. HIDE DEF X, N, step
    <2>. QED  BY <2>1, <2>2, <2>5
  <1>6. Placed(gaps) = (CHOOSE g : g = F(g))[N].ordered
    BY DEF Placed
  <1>. HIDE DEF X, N, good, step
  <1>7. PICK h \in [0 .. N -> X] : h = Steps(N, Begun(gaps), step, h)
    <2>1. PICK M, Y, a, p : M = N /\ Y = X /\ a = Begun(gaps) /\ p = step
      OBVIOUS
    <2>2. M \in Nat /\ a \in Y /\ p \in [1 .. M -> [Y -> Y]]
      BY <1>1, <1>2, <1>4, <2>1, Zenon
    <2>3. \E h \in [0 .. M -> Y] : h = Steps(M, a, p, h)
      BY <2>2, StepsExist
    <2>. QED  BY <2>1, <2>3, Zenon
  <1>8. \A n \in 1 .. N : n - 1 \in 0 .. N /\ n \in 0 .. N /\ n # 0
    BY <1>1
  <1>9. \A n \in 1 .. N : \A s \in X : step[n][s] = PlaceNext(s, gaps)
    BY DEF step
  <1>10. h = F(h)
    <2>1. \A n \in 1 .. N : step[n][h[n - 1]] = PlaceNext(h[n - 1], gaps)
      BY <1>7, <1>8, <1>9
    <2>. QED  BY <1>1, <1>7, <2>1 DEF Steps
  <1>11. PICK u : u = (CHOOSE g : g = F(g)) /\ u = F(u)
    <2>. HIDE DEF F
    <2>. QED  BY <1>10
  <1>12. u[0] = Begun(gaps) /\ \A n \in 1 .. N : u[n] = PlaceNext(u[n - 1], gaps)
    <2>1. \A n \in 0 .. N : u[n] = IF n = 0 THEN Begun(gaps) ELSE PlaceNext(u[n - 1], gaps)
      BY <1>11, Zenon
    <2>2. 0 \in 0 .. N
      BY <1>1
    <2>. QED  BY <1>8, <2>1, <2>2, Zenon
  <1>. HIDE DEF F
  <1>13. \A n \in 1 .. N : u[n - 1] \in X => u[n] = step[n][u[n - 1]]
    BY <1>9, <1>12
  <1>14. \A n \in 0 .. N : u[n] \in X /\ u[n] \in good[n]
    <2>1. PICK M, Y, a, p, f : M = N /\ Y = X /\ a = Begun(gaps) /\ p = step /\ f = good
      OBVIOUS
    <2>2. /\ M \in Nat /\ a \in Y /\ p \in [1 .. M -> [Y -> Y]] /\ a \in f[0]
          /\ u[0] = a
      BY <1>1, <1>2, <1>4, <1>12, <2>1, Zenon
    <2>3. \A n \in 1 .. M : \A x \in Y : x \in f[n - 1] => p[n][x] \in f[n]
      BY <1>5, <2>1, Zenon
    <2>4. \A n \in 1 .. M : u[n - 1] \in Y => u[n] = p[n][u[n - 1]]
      BY <1>13, <2>1, Zenon
    <2>5. MadeBySteps(M, Y, a, p, f, u)
      BY ONLY <2>2, <2>3, <2>4, Zenon DEF MadeBySteps
    <2>6. \A n \in 0 .. M : u[n] \in Y /\ u[n] \in f[n]
      BY <2>5, StepsStay
    <2>. QED  BY <2>1, <2>6, Zenon
  <1>15. N \in 0 .. N
    BY <1>1
  <1>16. PICK s \in X : s = u[N] /\ (s.queue = <<>> \/ Len(s.ordered) = N)
    BY <1>14, <1>15 DEF good
  <1>17. Kahn(s, gaps) /\ s \in Rounds(gaps)
    BY DEF X
  <1>18. Names(s.ordered) = Names(gaps) /\ Len(s.ordered) = Len(gaps)
    BY <1>16, <1>17, AllPlaced DEF N
  <1>19. Placed(gaps) = s.ordered
    BY <1>6, <1>11, <1>16
  <1>20. s.ordered \in Seq(ToSet(gaps)) /\ Sole(s.ordered) /\ Topological(s.ordered, gaps)
    BY <1>17 DEF Kahn, Rounds
  <1>. QED  BY <1>18, <1>19, <1>20

(* A roadmap has a step for each gap, behind those it depends on.          *)
IsRoadmap(steps, gaps) ==
  /\ DOMAIN steps = 1 .. Len(gaps) /\ Len(gaps) \in Nat
  /\ Sole(steps) /\ Names(steps) = Names(gaps)
  /\ \A i \in DOMAIN steps :
       \E g \in ToSet(gaps) : /\ steps[i].competency = g.competency /\ steps[i].hours = g.hours
                              /\ steps[i].dependsOn = DependsOn(g.competency, gaps)
  /\ \A i, j \in DOMAIN steps : steps[i].competency \in steps[j].dependsOn => i < j

(* buildRoadmap never takes the way of a cycle, and returns such a         *)
(* roadmap.                                                                *)
LEMMA RoadmapIs ==
  ASSUME NEW gaps, AreGaps(gaps)
  PROVE  IsRoadmap(BuildRoadmap(gaps), gaps)
  <1>1. PICK ordered \in Seq(ToSet(gaps)) :
          /\ ordered = Placed(gaps) /\ Sole(ordered) /\ Names(ordered) = Names(gaps)
          /\ Len(ordered) = Len(gaps) /\ Topological(ordered, gaps)
    <2>1. /\ Placed(gaps) \in Seq(ToSet(gaps)) /\ Sole(Placed(gaps))
          /\ Names(Placed(gaps)) = Names(gaps) /\ Len(Placed(gaps)) = Len(gaps)
          /\ Topological(Placed(gaps), gaps)
      BY PlacedIs
    <2>. QED  BY <2>1
  <1>2. PICK n \in Nat : /\ n = Len(gaps) /\ DOMAIN ordered = 1 .. n
                         /\ \A i \in 1 .. n : ordered[i] \in ToSet(gaps)
    BY <1>1, LenProperties, ElementOfSeq
  <1>3. PICK steps : steps = BuildRoadmap(gaps)
    OBVIOUS
  <1>4. steps = [i \in 1 .. n |->
                   [competency |-> ordered[i].competency, hours |-> ordered[i].hours,
                    dependsOn |-> DependsOn(ordered[i].competency, gaps)]]
    BY <1>1, <1>2, <1>3 DEF BuildRoadmap
  <1>5. /\ DOMAIN steps = 1 .. n
        /\ \A i \in 1 .. n : /\ steps[i].competency = ordered[i].competency
                             /\ steps[i].hours = ordered[i].hours
                             /\ steps[i].dependsOn = DependsOn(ordered[i].competency, gaps)
    BY <1>4
  <1>6. Sole(steps)
    BY <1>1, <1>2, <1>5 DEF Sole
  <1>7. Names(steps) = Names(gaps)
    <2>1. Names(steps) = Names(ordered)
      BY <1>2, <1>5 DEF Names
    <2>. QED  BY <1>1, <2>1
  <1>8. ASSUME NEW i \in 1 .. n, NEW j \in 1 .. n, steps[i].competency \in steps[j].dependsOn
        PROVE  i < j
    <2>1. ordered[i].competency \in DependsOn(ordered[j].competency, gaps)
      BY <1>5, <1>8
    <2>2. PICK k \in DOMAIN ordered : k < j /\ ordered[k].competency = ordered[i].competency
      BY <1>1, <1>2, <2>1 DEF Topological
    <2>3. k = i
      BY <1>1, <1>2, <2>2 DEF Sole
    <2>. QED  BY <2>2, <2>3
  <1>9. \A i \in 1 .. n :
          \E g \in ToSet(gaps) : /\ steps[i].competency = g.competency /\ steps[i].hours = g.hours
                                 /\ steps[i].dependsOn = DependsOn(g.competency, gaps)
    BY <1>2, <1>5
  <1>. QED  BY <1>2, <1>3, <1>5, <1>6, <1>7, <1>8, <1>9 DEF IsRoadmap

-----------------------------------------------------------------------------
(* The longest way through a roadmap                                       *)

(* The hours until c is reached: its own, and those of the longest way to  *)
(* anything it depends on.                                                 *)
Underlies(c, N) == BuildsOn(c) \cap N
Reached(N, h, f) == [c \in N |-> h[c] + Max({0} \cup {f[d] : d \in Underlies(c, N)})]

(* Only what Kubernetes depends on may depend on more.                     *)
LEMMA BeforeIs ==
  ASSUME NEW c, NEW N
  PROVE  /\ Underlies(c, N) \subseteq N /\ IsFiniteSet(Underlies(c, N)) /\ "Kubernetes" \notin Underlies(c, N)
         /\ c # "Kubernetes" => \A d \in Underlies(c, N) : Underlies(d, N) = {}
  <1>1. IsFiniteSet(BuildsOn(c))
    BY BuildsOnIs
  <1>2. \A D \in SUBSET BuildsOn(c) : IsFiniteSet(D)
    BY <1>1, FS_Subset
  <1>. QED  BY <1>2, BuildsOnIs DEF Underlies

(* The hours are well defined: nothing depends on itself, so three rounds  *)
(* from any hours come to them.                                            *)
LEMMA ReachedExists ==
  ASSUME NEW N, NEW h
  PROVE  \E f : f = Reached(N, h, f)
  <1>1. PICK f0, f1, f2, f3 : /\ f0 = [c \in N |-> 0] /\ f1 = Reached(N, h, f0)
                              /\ f2 = Reached(N, h, f1) /\ f3 = Reached(N, h, f2)
    OBVIOUS
  <1>2. ASSUME NEW f, NEW g, NEW c \in N, \A d \in Underlies(c, N) : f[d] = g[d]
        PROVE  Reached(N, h, f)[c] = Reached(N, h, g)[c]
    <2>1. {f[d] : d \in Underlies(c, N)} = {g[d] : d \in Underlies(c, N)}
      BY <1>2
    <2>. QED  BY <2>1 DEF Reached
  <1>3. \A c \in N : Underlies(c, N) = {} => f1[c] = f2[c]
    BY <1>1, <1>2
  <1>4. \A c \in N : c # "Kubernetes" => f2[c] = f3[c]
    <2>. SUFFICES ASSUME NEW c \in N, c # "Kubernetes" PROVE f2[c] = f3[c]
      OBVIOUS
    <2>1. \A d \in Underlies(c, N) : f1[d] = f2[d]
      BY <1>3, BeforeIs
    <2>. QED  BY <1>1, <1>2, <2>1
  <1>5. ASSUME NEW c \in N PROVE f3[c] = Reached(N, h, f3)[c]
    <2>1. \A d \in Underlies(c, N) : f2[d] = f3[d]
      BY <1>4, BeforeIs
    <2>. QED  BY <1>1, <1>2, <2>1
  <1>6. DOMAIN f3 = N /\ f3 = [c \in N |-> f3[c]]
    BY <1>1 DEF Reached
  <1>7. Reached(N, h, f3) = [c \in N |-> Reached(N, h, f3)[c]]
    BY DEF Reached
  <1>8. f3 = Reached(N, h, f3)
    BY <1>5, <1>6, <1>7
  <1>. QED  BY <1>8

(* What is reached last of what a competency depends on decides.           *)
LEMMA ReachedAt ==
  ASSUME NEW N, NEW h \in [N -> Nat], NEW f, f = Reached(N, h, f), NEW c \in N,
         \A d \in Underlies(c, N) : f[d] \in Nat
  PROVE  /\ f[c] \in Nat /\ f[c] >= h[c]
         /\ \A d \in Underlies(c, N) : f[c] >= h[c] + f[d]
         /\ f[c] = h[c] \/ \E d \in Underlies(c, N) : f[c] = h[c] + f[d]
  <1>1. PICK M : M = {0} \cup {f[d] : d \in Underlies(c, N)}
    OBVIOUS
  <1>2. /\ Max(M) \in Nat /\ \A d \in Underlies(c, N) : f[d] <= Max(M)
        /\ Max(M) = 0 \/ \E d \in Underlies(c, N) : Max(M) = f[d]
    <2>1. PICK D : D = Underlies(c, N) /\ IsFiniteSet(D) /\ \A d \in D : f[d] \in Nat
      BY BeforeIs
    <2>2. 0 \in M /\ (\A d \in D : f[d] \in M) /\ \A y \in M : y = 0 \/ \E d \in D : y = f[d]
      BY <1>1, <2>1
    <2>3. /\ Max(M) \in Nat /\ \A d \in D : f[d] <= Max(M)
          /\ Max(M) = 0 \/ \E d \in D : Max(M) = f[d]
      BY <2>1, <2>2, MaxOver
    <2>. QED  BY <2>1, <2>3
  <1>3. f[c] = h[c] + Max(M)
    <2>1. Reached(N, h, f)[c] = h[c] + Max(M)
      BY <1>1 DEF Reached
    <2>. QED  BY <2>1
  <1>4. PICK x \in Nat, m \in Nat : x = h[c] /\ m = Max(M)
    BY <1>2
  <1>5. f[c] = x + m
    BY <1>3, <1>4
  <1>. QED  BY <1>2, <1>4, <1>5

(* So it is for every competency.                                          *)
LEMMA ReachedIs ==
  ASSUME NEW N, NEW h \in [N -> Nat], NEW f, f = Reached(N, h, f)
  PROVE  /\ DOMAIN f = N
         /\ \A c \in N : /\ f[c] \in Nat /\ f[c] >= h[c]
                         /\ \A d \in Underlies(c, N) : f[c] >= h[c] + f[d]
                         /\ f[c] = h[c] \/ \E d \in Underlies(c, N) : f[c] = h[c] + f[d]
  <1>1. \A c \in N : Underlies(c, N) = {} => f[c] \in Nat
    BY ReachedAt
  <1>2. \A c \in N : c # "Kubernetes" => f[c] \in Nat
    <2>. SUFFICES ASSUME NEW c \in N, c # "Kubernetes" PROVE f[c] \in Nat
      OBVIOUS
    <2>1. \A d \in Underlies(c, N) : f[d] \in Nat
      BY <1>1, BeforeIs
    <2>. QED  BY <2>1, ReachedAt
  <1>3. \A c \in N : \A d \in Underlies(c, N) : f[d] \in Nat
    BY <1>2, BeforeIs
  <1>4. DOMAIN f = N
    BY DEF Reached
  <1>. QED  BY <1>3, <1>4, ReachedAt

(* With fewer gaps, each closed no later, nothing is reached later.        *)
LEMMA ReachedNoLater ==
  ASSUME NEW N, NEW h \in [N -> Nat], NEW f, f = Reached(N, h, f),
         NEW P \in SUBSET N, NEW k \in [P -> Nat], NEW g, g = Reached(P, k, g),
         \A c \in P : k[c] <= h[c]
  PROVE  \A c \in P : g[c] <= f[c]
  <1>1. ASSUME NEW c \in P, \A d \in Underlies(c, P) : g[d] <= f[d] PROVE g[c] <= f[c]
    <2>1. PICK x \in Nat, y \in Nat, z \in Nat, w \in Nat :
            x = g[c] /\ y = f[c] /\ z = k[c] /\ w = h[c] /\ z <= w /\ y >= w
      BY ReachedIs
    <2>2. CASE x = z
      BY <2>1, <2>2
    <2>3. CASE \E d \in Underlies(c, P) : x = z + g[d]
      <3>1. PICK d \in Underlies(c, P) : x = z + g[d]
        BY <2>3
      <3>2. d \in Underlies(c, N) /\ d \in P
        BY DEF Underlies
      <3>3. PICK p \in Nat, q \in Nat : p = g[d] /\ q = f[d] /\ p <= q
        BY <1>1, <3>2, ReachedIs
      <3>4. y >= w + q
        BY <2>1, <3>2, <3>3, ReachedIs
      <3>. QED  BY <2>1, <3>1, <3>3, <3>4
    <2>. QED  BY <2>1, <2>2, <2>3, ReachedIs
  <1>2. \A c \in P : Underlies(c, P) = {} => g[c] <= f[c]
    BY <1>1
  <1>3. \A c \in P : c # "Kubernetes" => g[c] <= f[c]
    <2>. SUFFICES ASSUME NEW c \in P, c # "Kubernetes" PROVE g[c] <= f[c]
      OBVIOUS
    <2>1. \A d \in Underlies(c, P) : g[d] <= f[d]
      BY <1>2, BeforeIs
    <2>. QED  BY <1>1, <2>1
  <1>4. ASSUME NEW c \in P PROVE g[c] <= f[c]
    <2>1. \A d \in Underlies(c, P) : g[d] <= f[d]
      BY <1>3, BeforeIs
    <2>. QED  BY <1>1, <2>1
  <1>. QED  BY <1>4

(* The hours of each competency of a roadmap.                              *)
HoursOf(steps) == [c \in Names(steps) |-> StepOf(steps, c).hours]

(* A roadmap of whole hours.                                               *)
IsTimed(steps, gaps) == IsRoadmap(steps, gaps) /\ \A i \in DOMAIN steps : steps[i].hours \in Nat

(* The step that is looked up by its competency is that step.              *)
LEMMA StepOfIs ==
  ASSUME NEW steps, NEW gaps, IsTimed(steps, gaps), NEW i \in DOMAIN steps
  PROVE  LET c == steps[i].competency
         IN /\ c \in Names(steps) /\ StepOf(steps, c) = steps[i]
            /\ HoursOf(steps)[c] = steps[i].hours
            /\ steps[i].dependsOn = Underlies(c, Names(steps))
  <1>1. PICK c : c = steps[i].competency /\ c \in Names(steps)
    BY NamesAre
  <1>2. Sole(steps) /\ Names(steps) = Names(gaps)
    BY DEF IsTimed, IsRoadmap
  <1>3. (CHOOSE j \in DOMAIN steps : steps[j].competency = c) = i
    BY <1>1, <1>2 DEF Sole
  <1>4. StepOf(steps, c) = steps[i]
    BY <1>3 DEF StepOf
  <1>5. steps[i].dependsOn = DependsOn(c, gaps)
    BY <1>1 DEF IsTimed, IsRoadmap
  <1>. QED  BY <1>1, <1>2, <1>4, <1>5 DEF HoursOf, DependsOn, Underlies

(* The hours are whole numbers.                                            *)
LEMMA HoursAre ==
  ASSUME NEW steps, NEW gaps, IsTimed(steps, gaps)
  PROVE  HoursOf(steps) \in [Names(steps) -> Nat]
  <1>1. ASSUME NEW c \in Names(steps) PROVE StepOf(steps, c).hours \in Nat
    <2>1. PICK i \in DOMAIN steps : steps[i].competency = c
      BY NamesAre
    <2>. QED  BY <2>1, StepOfIs DEF IsTimed
  <1>. QED  BY <1>1 DEF HoursOf

(* The depth first search finds the competency that is reached last.       *)
LEMMA PathIs ==
  ASSUME NEW steps, NEW gaps, IsTimed(steps, gaps), IsFiniteSet(Names(steps))
  PROVE  \E f : /\ f = Reached(Names(steps), HoursOf(steps), f)
                /\ CriticalPathHours(steps) \in Nat
                /\ \A c \in Names(steps) : f[c] <= CriticalPathHours(steps)
                /\ CriticalPathHours(steps) = 0 \/ \E c \in Names(steps) : CriticalPathHours(steps) = f[c]
  <1>. DEFINE N == Names(steps)
              h == HoursOf(steps)
              F(g) == [c \in N |-> StepOf(steps, c).hours
                                    + Max({0} \cup {g[d] : d \in StepOf(steps, c).dependsOn \cap N})]
  <1>1. ASSUME NEW g PROVE F(g) = Reached(N, h, g)
    <2>1. ASSUME NEW c \in N
          PROVE  StepOf(steps, c).hours = h[c] /\ StepOf(steps, c).dependsOn \cap N = Underlies(c, N)
      <3>1. PICK i \in DOMAIN steps : steps[i].competency = c
        BY NamesAre
      <3>. QED  BY <3>1, StepOfIs DEF Underlies
    <2>. HIDE DEF h, N
    <2>. QED  BY <2>1 DEF Reached
  <1>2. PICK f : f = (CHOOSE g : g = F(g)) /\ f = Reached(N, h, f)
    <2>. HIDE DEF F, N, h
    <2>1. \E g : g = F(g)
      BY <1>1, ReachedExists
    <2>2. PICK f : f = (CHOOSE g : g = F(g)) /\ f = F(f)
      BY <2>1
    <2>. QED  BY <1>1, <2>2
  <1>3. CriticalPathHours(steps) = Max({0} \cup {f[c] : c \in N})
    <2>2. CriticalPathHours(steps) = Max({0} \cup {(CHOOSE g : g = F(g))[c] : c \in N})
      BY Zenon DEF CriticalPathHours, Names
    <2>. HIDE DEF F
    <2>. QED  BY <1>2, <2>2
  <1>4. PICK M : /\ M = {0} \cup {f[c] : c \in N}
                 /\ 0 \in M /\ (\A c \in N : f[c] \in M) /\ \A y \in M : y = 0 \/ \E c \in N : y = f[c]
    <2>. HIDE DEF N
    <2>1. PICK M : M = {0} \cup {f[c] : c \in N}
      OBVIOUS
    <2>2. 0 \in M /\ (\A c \in N : f[c] \in M) /\ \A y \in M : y = 0 \/ \E c \in N : y = f[c]
      BY <2>1
    <2>. QED  BY <2>1, <2>2
  <1>5. \A c \in N : f[c] \in Nat
    BY <1>2, HoursAre, ReachedIs
  <1>6. /\ Max(M) \in Nat /\ \A c \in N : f[c] <= Max(M)
        /\ Max(M) = 0 \/ \E c \in N : Max(M) = f[c]
    <2>1. PICK D : D = N /\ IsFiniteSet(D) /\ \A c \in D : f[c] \in Nat
      BY <1>5
    <2>2. 0 \in M /\ (\A c \in D : f[c] \in M) /\ \A y \in M : y = 0 \/ \E c \in D : y = f[c]
      BY <1>4, <2>1
    <2>3. /\ Max(M) \in Nat /\ \A c \in D : f[c] <= Max(M)
          /\ Max(M) = 0 \/ \E c \in D : Max(M) = f[c]
      BY <2>1, <2>2, MaxOver
    <2>. QED  BY <2>1, <2>3
  <1>7. CriticalPathHours(steps) = Max(M)
    BY <1>3, <1>4
  <1>. QED  BY <1>2, <1>6, <1>7

-----------------------------------------------------------------------------
(* Chains                                                                  *)

(* Chains of two                                                           *)
LEMMA PairOf ==
  ASSUME NEW a, NEW b
  PROVE  DOMAIN <<a, b>> = {1, 2} /\ <<a, b>>[1] = a /\ <<a, b>>[2] = b
  OBVIOUS

(* and of three.                                                           *)
LEMMA TripleOf ==
  ASSUME NEW a, NEW b, NEW c
  PROVE  /\ DOMAIN <<a, b, c>> = {1, 2, 3}
         /\ <<a, b, c>>[1] = a /\ <<a, b, c>>[2] = b /\ <<a, b, c>>[3] = c
  OBVIOUS

(* Their sums                                                              *)
LEMMA SumUpTo3 ==
  ASSUME NEW v, v[1] \in Nat
  PROVE  /\ SumOf({1}, v) = v[1]
         /\ v[2] \in Nat => SumOf({1, 2}, v) = v[2] + v[1]
         /\ v[2] \in Nat /\ v[3] \in Nat => SumOf({1, 2, 3}, v) = v[3] + (v[2] + v[1])
  <1>1. IsFiniteSet({1}) /\ IsFiniteSet({1, 2}) /\ IsFiniteSet({1, 2, 3})
    <2>1. PICK Z : Z = {1, 2, 3, 4} /\ IsFiniteSet(Z)
      BY FourAreFinite
    <2>2. \A S \in SUBSET Z : IsFiniteSet(S)
      BY <2>1, FS_Subset
    <2>. QED  BY <2>1, <2>2
  <1>2. SumOf({1}, v) = v[1]
    <2>1. {1} \ {1} = {} /\ \A x \in {1} : v[x] \in Nat
      OBVIOUS
    <2>2. SumOf({1}, v) = v[1] + SumOf({1} \ {1}, v)
      BY <1>1, <2>1, SumWithout
    <2>. QED  BY <2>1, <2>2, SumOfNone
  <1>3. ASSUME v[2] \in Nat PROVE SumOf({1, 2}, v) = v[2] + v[1]
    <2>1. {1, 2} \ {2} = {1} /\ 2 \in {1, 2} /\ \A x \in {1, 2} : v[x] \in Nat
      BY <1>3
    <2>2. SumOf({1, 2}, v) = v[2] + SumOf({1, 2} \ {2}, v)
      BY <1>1, <2>1, SumWithout
    <2>. QED  BY <1>2, <2>1, <2>2
  <1>4. ASSUME v[2] \in Nat, v[3] \in Nat PROVE SumOf({1, 2, 3}, v) = v[3] + (v[2] + v[1])
    <2>1. {1, 2, 3} \ {3} = {1, 2} /\ 3 \in {1, 2, 3} /\ \A x \in {1, 2, 3} : v[x] \in Nat
      BY <1>4
    <2>2. SumOf({1, 2, 3}, v) = v[3] + SumOf({1, 2, 3} \ {3}, v)
      BY <1>1, <2>1, SumWithout
    <2>. QED  BY <1>3, <1>4, <2>1, <2>2
  <1>. QED  BY <1>2, <1>3, <1>4

(* are the hours of their steps.                                           *)
LEMMA ChainsAre ==
  ASSUME NEW s, \A i \in DOMAIN s : s[i].hours \in Nat
  PROVE  /\ \A i \in DOMAIN s : ChainHours(s, <<i>>) = s[i].hours
         /\ \A i, j \in DOMAIN s : ChainHours(s, <<i, j>>) = s[j].hours + s[i].hours
         /\ \A i, j, k \in DOMAIN s :
              ChainHours(s, <<i, j, k>>) = s[k].hours + (s[j].hours + s[i].hours)
  <1>1. IsFiniteSet({1}) /\ IsFiniteSet({1, 2}) /\ IsFiniteSet({1, 2, 3})
    <2>1. PICK Z : Z = {1, 2, 3, 4} /\ IsFiniteSet(Z)
      BY FourAreFinite
    <2>2. \A S \in SUBSET Z : IsFiniteSet(S)
      BY <2>1, FS_Subset
    <2>. QED  BY <2>1, <2>2
  <1>2. ASSUME NEW i \in DOMAIN s PROVE ChainHours(s, <<i>>) = s[i].hours
    <2>1. DOMAIN <<i>> = {1} /\ <<i>>[1] = i
      OBVIOUS
    <2>2. PICK v : v = [x \in {1} |-> s[<<i>>[x]].hours]
      OBVIOUS
    <2>3. ChainHours(s, <<i>>) = SumOf({1}, v)
      BY <1>1, <2>1, <2>2, ChainIsSum
    <2>4. v[1] = s[i].hours
      BY <2>1, <2>2
    <2>. QED  BY <2>3, <2>4, SumUpTo3
  <1>3. ASSUME NEW i \in DOMAIN s, NEW j \in DOMAIN s PROVE ChainHours(s, <<i, j>>) = s[j].hours + s[i].hours
    <2>1. DOMAIN <<i, j>> = {1, 2} /\ <<i, j>>[1] = i /\ <<i, j>>[2] = j
      BY PairOf
    <2>2. PICK v : v = [x \in {1, 2} |-> s[<<i, j>>[x]].hours]
      OBVIOUS
    <2>3. ChainHours(s, <<i, j>>) = SumOf({1, 2}, v)
      BY <1>1, <2>1, <2>2, ChainIsSum
    <2>4. v[1] = s[i].hours /\ v[2] = s[j].hours
      BY <2>1, <2>2
    <2>. QED  BY <2>3, <2>4, SumUpTo3
  <1>4. ASSUME NEW i \in DOMAIN s, NEW j \in DOMAIN s, NEW k \in DOMAIN s
        PROVE ChainHours(s, <<i, j, k>>) = s[k].hours + (s[j].hours + s[i].hours)
    <2>1. /\ DOMAIN <<i, j, k>> = {1, 2, 3}
          /\ <<i, j, k>>[1] = i /\ <<i, j, k>>[2] = j /\ <<i, j, k>>[3] = k
      BY TripleOf
    <2>2. PICK v : v = [x \in {1, 2, 3} |-> s[<<i, j, k>>[x]].hours]
      OBVIOUS
    <2>3. ChainHours(s, <<i, j, k>>) = SumOf({1, 2, 3}, v)
      BY <1>1, <2>1, <2>2, ChainIsSum
    <2>4. v[1] = s[i].hours /\ v[2] = s[j].hours /\ v[3] = s[k].hours
      BY <2>1, <2>2
    <2>. QED  BY <2>3, <2>4, SumUpTo3
  <1>. QED  BY <1>2, <1>3, <1>4

(* The step i leads to the step j.                                         *)
LeadsTo(s, i, j) == s[i].competency \in s[j].dependsOn

(* When a step is reached, by its place in the roadmap; behind two more a  *)
(* chain ends.                                                             *)
LEMMA ReachedSteps ==
  ASSUME NEW s, NEW gaps, IsTimed(s, gaps), NEW f, f = Reached(Names(s), HoursOf(s), f)
  PROVE  \A j \in DOMAIN s :
           LET v(i) == f[s[i].competency]
           IN /\ v(j) \in Nat /\ v(j) >= s[j].hours
              /\ \A i \in DOMAIN s : LeadsTo(s, i, j) => v(j) >= s[j].hours + v(i)
              /\ v(j) = s[j].hours \/ \E i \in DOMAIN s : LeadsTo(s, i, j) /\ v(j) = s[j].hours + v(i)
              /\ \A i, k \in DOMAIN s : LeadsTo(s, i, j) /\ LeadsTo(s, k, i) => v(k) = s[k].hours
  <1>1. PICK N, h : N = Names(s) /\ h = HoursOf(s)
    OBVIOUS
  <1>2. h \in [N -> Nat] /\ f = Reached(N, h, f)
    BY <1>1, HoursAre
  <1>3. \A j \in DOMAIN s : /\ s[j].competency \in N /\ h[s[j].competency] = s[j].hours
                            /\ s[j].dependsOn = Underlies(s[j].competency, N)
    BY <1>1, StepOfIs
  <1>4. ASSUME NEW j \in DOMAIN s, NEW c, c = s[j].competency
        PROVE  /\ f[c] \in Nat /\ f[c] >= s[j].hours
               /\ \A i \in DOMAIN s : LeadsTo(s, i, j) => f[c] >= s[j].hours + f[s[i].competency]
               /\ \/ f[c] = s[j].hours
                  \/ \E i \in DOMAIN s : LeadsTo(s, i, j) /\ f[c] = s[j].hours + f[s[i].competency]
               /\ Underlies(c, N) = {} => f[c] = s[j].hours
    <2>1. c \in N /\ h[c] = s[j].hours /\ s[j].dependsOn = Underlies(c, N)
      BY <1>3, <1>4
    <2>2. /\ f[c] \in Nat /\ f[c] >= h[c]
          /\ \A d \in Underlies(c, N) : f[c] >= h[c] + f[d]
          /\ f[c] = h[c] \/ \E d \in Underlies(c, N) : f[c] = h[c] + f[d]
      BY <1>2, <2>1, ReachedIs
    <2>3. \A i \in DOMAIN s : LeadsTo(s, i, j) => s[i].competency \in Underlies(c, N)
      BY <2>1 DEF LeadsTo
    <2>4. ASSUME NEW d \in Underlies(c, N) PROVE \E i \in DOMAIN s : LeadsTo(s, i, j) /\ s[i].competency = d
      <3>1. PICK i \in DOMAIN s : s[i].competency = d
        BY <1>1, NamesAre DEF Underlies
      <3>. QED  BY <2>1, <3>1 DEF LeadsTo
    <2>5. ASSUME NEW d \in Underlies(c, N), f[c] = h[c] + f[d]
          PROVE  \E i \in DOMAIN s : LeadsTo(s, i, j) /\ f[c] = s[j].hours + f[s[i].competency]
      <3>1. PICK i \in DOMAIN s : LeadsTo(s, i, j) /\ s[i].competency = d
        BY <2>4
      <3>. QED  BY <2>1, <2>5, <3>1
    <2>. QED  BY <2>1, <2>2, <2>3, <2>5
  <1>5. ASSUME NEW j \in DOMAIN s, NEW i \in DOMAIN s, NEW k \in DOMAIN s, LeadsTo(s, i, j), LeadsTo(s, k, i)
        PROVE  f[s[k].competency] = s[k].hours
    <2>1. /\ s[i].competency \in Underlies(s[j].competency, N)
          /\ s[k].competency \in Underlies(s[i].competency, N)
      BY <1>3, <1>5 DEF LeadsTo
    <2>2. s[i].competency # "Kubernetes"
      BY <2>1, BeforeIs
    <2>3. Underlies(s[k].competency, N) = {}
      BY <2>1, <2>2, BeforeIs
    <2>. QED  BY <1>4, <2>3
  <1>. QED  BY <1>4, <1>5

(* The chains, by their lengths.                                           *)
LEMMA InChains ==
  ASSUME NEW s
  PROVE  /\ \A i \in DOMAIN s : <<i>> \in Chains(s)
         /\ \A i, j \in DOMAIN s : LeadsTo(s, i, j) => <<i, j>> \in Chains(s)
         /\ \A i, j, k \in DOMAIN s : LeadsTo(s, i, j) /\ LeadsTo(s, j, k) => <<i, j, k>> \in Chains(s)
         /\ \A ch \in Chains(s) :
              \/ \E i \in DOMAIN s : ch = <<i>>
              \/ \E i, j \in DOMAIN s : LeadsTo(s, i, j) /\ ch = <<i, j>>
              \/ \E i, j, k \in DOMAIN s : LeadsTo(s, i, j) /\ LeadsTo(s, j, k) /\ ch = <<i, j, k>>
  BY DEF Chains, LeadsTo

(* The competency that is reached last is at the end of the longest chain, *)
(* and no chain is longer.                                                 *)
LEMMA LongestChain ==
  ASSUME NEW s, NEW gaps, IsTimed(s, gaps), IsFiniteSet(Names(s))
  PROVE  CriticalPathHours(s) = Max({0} \cup {ChainHours(s, ch) : ch \in Chains(s)})
  <1>1. PICK f : /\ f = Reached(Names(s), HoursOf(s), f)
                 /\ CriticalPathHours(s) \in Nat
                 /\ \A c \in Names(s) : f[c] <= CriticalPathHours(s)
                 /\ CriticalPathHours(s) = 0 \/ \E c \in Names(s) : CriticalPathHours(s) = f[c]
    BY PathIs
  <1>2. PICK m \in Nat : m = CriticalPathHours(s)
    BY <1>1
  <1>3. PICK v : v = [j \in DOMAIN s |-> f[s[j].competency]]
    OBVIOUS
  <1>4. \A j \in DOMAIN s :
          /\ v[j] \in Nat /\ v[j] >= s[j].hours /\ s[j].hours \in Nat /\ v[j] <= m
          /\ \A i \in DOMAIN s : LeadsTo(s, i, j) => v[j] >= s[j].hours + v[i]
          /\ v[j] = s[j].hours \/ \E i \in DOMAIN s : LeadsTo(s, i, j) /\ v[j] = s[j].hours + v[i]
          /\ \A i, k \in DOMAIN s : LeadsTo(s, i, j) /\ LeadsTo(s, k, i) => v[k] = s[k].hours
    <2>1. \A j \in DOMAIN s : v[j] = f[s[j].competency] /\ s[j].competency \in Names(s) /\ s[j].hours \in Nat
      BY <1>3, NamesAre DEF IsTimed
    <2>2. \A j \in DOMAIN s : v[j] <= m
      BY <1>1, <1>2, <2>1
    <2>3. \A j \in DOMAIN s :
          /\ f[s[j].competency] \in Nat /\ f[s[j].competency] >= s[j].hours
          /\ \A i \in DOMAIN s : LeadsTo(s, i, j) => f[s[j].competency] >= s[j].hours + f[s[i].competency]
          /\ \/ f[s[j].competency] = s[j].hours
              \/ \E i \in DOMAIN s : /\ LeadsTo(s, i, j)
                                     /\ f[s[j].competency] = s[j].hours + f[s[i].competency]
          /\ \A i, k \in DOMAIN s : LeadsTo(s, i, j) /\ LeadsTo(s, k, i) => f[s[k].competency] = s[k].hours
      BY <1>1, ReachedSteps
    <2>. QED  BY <2>1, <2>2, <2>3
  <1>5. m = 0 \/ \E j \in DOMAIN s : m = v[j]
    <2>1. ASSUME NEW c \in Names(s), m = f[c] PROVE \E j \in DOMAIN s : m = v[j]
      <3>1. PICK j \in DOMAIN s : s[j].competency = c
        BY NamesAre
      <3>. QED  BY <1>3, <2>1, <3>1
    <2>. QED  BY <1>1, <1>2, <2>1
  <1>6. PICK M : M = {0} \cup {ChainHours(s, ch) : ch \in Chains(s)}
    OBVIOUS
  <1>7. \A i, j, k \in DOMAIN s :
          /\ ChainHours(s, <<i>>) = s[i].hours
          /\ ChainHours(s, <<i, j>>) = s[j].hours + s[i].hours
          /\ ChainHours(s, <<i, j, k>>) = s[k].hours + (s[j].hours + s[i].hours)
    BY <1>4, ChainsAre, ZenonT(60)
  <1>8. ASSUME NEW ch \in Chains(s) PROVE ChainHours(s, ch) \in Nat /\ ChainHours(s, ch) <= m
    <2>1. ASSUME NEW i \in DOMAIN s, ch = <<i>> PROVE ChainHours(s, ch) \in Nat /\ ChainHours(s, ch) <= m
      <3>1. ChainHours(s, ch) = s[i].hours
        BY <1>7, <2>1
      <3>2. v[i] >= s[i].hours /\ v[i] <= m /\ v[i] \in Nat /\ s[i].hours \in Nat
        BY <1>4
      <3>. QED  BY <3>1, <3>2
    <2>2. ASSUME NEW i \in DOMAIN s, NEW j \in DOMAIN s, LeadsTo(s, i, j), ch = <<i, j>>
          PROVE  ChainHours(s, ch) \in Nat /\ ChainHours(s, ch) <= m
      <3>1. ChainHours(s, ch) = s[j].hours + s[i].hours
        BY <1>7, <2>2
      <3>2. v[j] >= s[j].hours + v[i]
        BY <1>4, <2>2
      <3>. QED  BY <1>4, <3>1, <3>2
    <2>3. ASSUME NEW i \in DOMAIN s, NEW j \in DOMAIN s, NEW k \in DOMAIN s,
                 LeadsTo(s, i, j), LeadsTo(s, j, k), ch = <<i, j, k>>
          PROVE  ChainHours(s, ch) \in Nat /\ ChainHours(s, ch) <= m
      <3>1. ChainHours(s, ch) = s[k].hours + (s[j].hours + s[i].hours)
        BY <1>7, <2>3
      <3>2. v[j] >= s[j].hours + v[i] /\ v[k] >= s[k].hours + v[j]
        BY <1>4, <2>3
      <3>. QED  BY <1>4, <3>1, <3>2
    <2>. QED  BY <2>1, <2>2, <2>3, InChains
  <1>9. m \in M
    <2>1. CASE m = 0
      BY <1>6, <2>1
    <2>2. ASSUME NEW k \in DOMAIN s, m = v[k] PROVE m \in M
      <3>1. CASE v[k] = s[k].hours
        <4>1. m = ChainHours(s, <<k>>) /\ <<k>> \in Chains(s)
          BY <1>7, <2>2, <3>1, InChains
        <4>. QED  BY <1>6, <4>1
      <3>2. ASSUME NEW j \in DOMAIN s, LeadsTo(s, j, k), v[k] = s[k].hours + v[j] PROVE m \in M
        <4>1. CASE v[j] = s[j].hours
          <5>1. m = ChainHours(s, <<j, k>>) /\ <<j, k>> \in Chains(s)
            BY <1>7, <2>2, <3>2, <4>1, InChains
          <5>. QED  BY <1>6, <5>1
        <4>2. ASSUME NEW i \in DOMAIN s, LeadsTo(s, i, j), v[j] = s[j].hours + v[i] PROVE m \in M
          <5>1. v[i] = s[i].hours
            BY <1>4, <3>2, <4>2
          <5>2. m = ChainHours(s, <<i, j, k>>) /\ <<i, j, k>> \in Chains(s)
            BY <1>7, <2>2, <3>2, <4>2, <5>1, InChains, ZenonT(60)
          <5>. QED  BY <1>6, <5>2
        <4>. QED  BY <1>4, <4>1, <4>2
      <3>. QED  BY <1>4, <3>1, <3>2
    <2>. QED  BY <1>5, <2>1, <2>2
  <1>10. M \subseteq Int /\ \A y \in M : m >= y
    BY <1>2, <1>6, <1>8
  <1>. QED  BY <1>2, <1>6, <1>9, <1>10, MaxIs

-----------------------------------------------------------------------------
(* The analysis                                                            *)

(* The gaps of an analysis by name, and its items and gaps as lists.       *)
GapNames(l, t) == {c \in DOMAIN Pack : ItemOf(l, t, c).kind = "ACTIONABLE_GAP"}
ItemsOf(o, l, t) == [i \in DOMAIN o |-> ItemOf(l, t, o[i])]
GapsOf(o, l, t) ==
  Picked(ItemsOf(o, l, t), {i \in DOMAIN o : ItemsOf(o, l, t)[i].kind = "ACTIONABLE_GAP"})

(* The fields of an analysis.                                              *)
LEMMA AnalysisIs ==
  ASSUME NEW o, NEW l, NEW t
  PROVE  LET a == Analysis(o, l, t)
         IN /\ a.of = l /\ a.tuning = t /\ a.fit = FitScore(ItemsOf(o, l, t))
            /\ a.steps = BuildRoadmap(GapsOf(o, l, t)) /\ a.path = CriticalPathHours(a.steps)
            /\ a.months = Months(a.path) /\ a.realistic = Hours(a.steps)
            /\ a.optimistic = (Hours(a.steps) * OptimisticPercent(t)) \div 10
  <1>1. PICK items : items = ItemsOf(o, l, t)
    OBVIOUS
  <1>2. items = [i \in DOMAIN o |-> Item(Requirement(o[i]), l, ScoreOf(l), t)] /\ DOMAIN items = DOMAIN o
    BY <1>1 DEF ItemsOf, ItemOf
  <1>3. PICK steps : steps = BuildRoadmap(GapsOf(o, l, t))
    OBVIOUS
  <1>4. Analysis(o, l, t) =
          [of |-> l, tuning |-> t, fit |-> FitScore(items), steps |-> steps,
           realistic |-> Hours(steps), optimistic |-> (Hours(steps) * OptimisticPercent(t)) \div 10,
           path |-> CriticalPathHours(steps), months |-> Months(CriticalPathHours(steps))]
    BY <1>1, <1>2, <1>3, Zenon DEF Analysis, ComputeAnalysis, ScoreOf, GapsOf
  <1>5. PICK p, m, h, q, f : /\ p = CriticalPathHours(steps) /\ m = Months(p) /\ h = Hours(steps)
                             /\ q = (h * OptimisticPercent(t)) \div 10 /\ f = FitScore(items)
    OBVIOUS
  <1>6. PICK a : a = [of |-> l, tuning |-> t, fit |-> f, steps |-> steps, realistic |-> h,
                      optimistic |-> q, path |-> p, months |-> m]
    OBVIOUS
  <1>7. a = Analysis(o, l, t)
    BY <1>4, <1>5, <1>6
  <1>8. /\ a.of = l /\ a.tuning = t /\ a.fit = f /\ a.steps = steps /\ a.realistic = h
        /\ a.optimistic = q /\ a.path = p /\ a.months = m
    BY <1>6
  <1>. QED  BY <1>1, <1>3, <1>5, <1>7, <1>8

(* The rows of a role are its pack, each once.                             *)
LEMMA OrderIs ==
  ASSUME NEW o \in Orders
  PROVE  /\ Len(o) \in Nat /\ DOMAIN o = 1 .. Len(o)
         /\ \A i \in DOMAIN o : o[i] \in DOMAIN Pack
         /\ \A c \in DOMAIN Pack : \E i \in DOMAIN o : o[i] = c
         /\ \A i, j \in DOMAIN o : o[i] = o[j] => i = j
  <1>1. o \in Seq(DOMAIN Pack) /\ ToSet(o) = DOMAIN Pack /\ \A i, j \in DOMAIN o : o[i] = o[j] => i = j
    BY ScoringAssumption
  <1>2. Len(o) \in Nat /\ DOMAIN o = 1 .. Len(o)
    BY <1>1, LenProperties
  <1>. QED  BY <1>1, <1>2 DEF ToSet

(* The gaps of an analysis, whatever the order of the rows.                *)
LEMMA GapsAre ==
  ASSUME NEW o \in Orders, NEW l, HasLevels(l), NEW t \in Tunings
  PROVE  /\ AreGaps(GapsOf(o, l, t)) /\ Names(GapsOf(o, l, t)) = GapNames(l, t)
         /\ \A g \in ToSet(GapsOf(o, l, t)) :
              g.competency \in GapNames(l, t) /\ g = ItemOf(l, t, g.competency)
  <1>. DEFINE items == ItemsOf(o, l, t)
              S == {i \in DOMAIN o : items[i].kind = "ACTIONABLE_GAP"}
              T == {ItemOf(l, t, c) : c \in DOMAIN Pack}
  <1>1. \A c \in DOMAIN Pack : ItemOf(l, t, c).competency = c /\ ItemOf(l, t, c).weight \in Nat
    BY ItemIs
  <1>2. \A i \in DOMAIN o : items[i] = ItemOf(l, t, o[i]) /\ items[i] \in T /\ items[i].competency = o[i]
    BY <1>1, OrderIs DEF ItemsOf
  <1>3. DOMAIN items = DOMAIN o
    BY DEF ItemsOf
  <1>4. items \in Seq(T)
    <2>1. PICK n \in Nat : n = Len(o) /\ DOMAIN o = 1 .. n
      BY OrderIs
    <2>2. items \in [1 .. n -> T]
      <3>1. items = [i \in 1 .. n |-> ItemOf(l, t, o[i])]
        BY <2>1 DEF ItemsOf
      <3>2. \A i \in 1 .. n : ItemOf(l, t, o[i]) \in T
        BY <2>1, OrderIs
      <3>. HIDE DEF items, T
      <3>. QED  BY <3>1, <3>2
    <2>. HIDE DEF items, T
    <2>. QED  BY <2>2, IsASeq
  <1>5. Sole(items)
    BY <1>2, <1>3, OrderIs DEF Sole
  <1>6. S \subseteq DOMAIN items
    BY <1>3
  <1>. HIDE DEF items
  <1>7. PICK gaps \in Seq(T) :
          /\ gaps = Picked(items, S) /\ Sole(gaps) /\ Names(gaps) = {items[i].competency : i \in S}
          /\ ToSet(gaps) = {items[i] : i \in S}
    <2>. HIDE DEF S, T
    <2>. QED  BY <1>4, <1>5, <1>6, SolePicked
  <1>8. GapsOf(o, l, t) = gaps
    BY <1>7 DEF GapsOf, items
  <1>9. ASSUME NEW g \in ToSet(gaps)
        PROVE  /\ g.competency \in GapNames(l, t) /\ g = ItemOf(l, t, g.competency) /\ g.weight \in Int
    <2>1. PICK i \in S : g = items[i]
      BY <1>7
    <2>2. g.competency = o[i] /\ g = ItemOf(l, t, o[i]) /\ o[i] \in DOMAIN Pack /\ g.kind = "ACTIONABLE_GAP"
      BY <1>2, <2>1, OrderIs
    <2>. QED  BY <1>1, <2>2 DEF GapNames
  <1>10. Names(gaps) = GapNames(l, t)
    <2>1. ASSUME NEW c \in Names(gaps) PROVE c \in GapNames(l, t)
      <3>1. PICK i \in DOMAIN gaps : gaps[i].competency = c
        BY NamesAre
      <3>. QED  BY <1>9, <3>1 DEF ToSet
    <2>2. ASSUME NEW c \in GapNames(l, t) PROVE c \in Names(gaps)
      <3>1. PICK i \in DOMAIN o : o[i] = c
        BY OrderIs DEF GapNames
      <3>2. i \in S /\ items[i].competency = c
        BY <1>2, <3>1 DEF GapNames
      <3>. QED  BY <1>7, <3>2
    <2>. QED  BY <2>1, <2>2
  <1>11. gaps \in Seq(ToSet(gaps))
    <2>1. PICK n \in Nat : n = Len(gaps) /\ DOMAIN gaps = 1 .. n
      BY <1>7, LenProperties
    <2>2. gaps \in [1 .. n -> ToSet(gaps)]
      <3>1. gaps \in [1 .. n -> T]
        BY <1>7, <2>1, LenProperties
      <3>2. \A i \in 1 .. n : gaps[i] \in ToSet(gaps)
        BY <2>1 DEF ToSet
      <3>. QED  BY <3>1, <3>2
    <2>. QED  BY <2>2, IsASeq
  <1>12. AreGaps(gaps)
    BY <1>7, <1>9, <1>11 DEF AreGaps
  <1>. QED  BY <1>8, <1>9, <1>10, <1>12

(* The steps of an analysis.                                               *)
LEMMA StepsAre ==
  ASSUME NEW o \in Orders, NEW l, HasLevels(l), NEW t \in Tunings, NEW s, s = Analysis(o, l, t).steps
  PROVE  /\ IsTimed(s, GapsOf(o, l, t)) /\ Names(s) = GapNames(l, t) /\ IsFiniteSet(Names(s))
         /\ IsFiniteSet(DOMAIN s)
         /\ \A i \in DOMAIN s : s[i].hours = ItemOf(l, t, s[i].competency).hours /\ s[i].hours > 0
         /\ HoursOf(s) = [c \in GapNames(l, t) |-> ItemOf(l, t, c).hours]
  <1>1. PICK gaps : gaps = GapsOf(o, l, t)
    OBVIOUS
  <1>2. /\ AreGaps(gaps) /\ Names(gaps) = GapNames(l, t)
        /\ \A g \in ToSet(gaps) : g.competency \in GapNames(l, t) /\ g = ItemOf(l, t, g.competency)
    BY <1>1, GapsAre
  <1>3. s = BuildRoadmap(gaps)
    BY <1>1, AnalysisIs
  <1>4. IsRoadmap(s, gaps)
    BY <1>2, <1>3, RoadmapIs
  <1>5. ASSUME NEW i \in DOMAIN s
        PROVE  /\ s[i].hours = ItemOf(l, t, s[i].competency).hours
               /\ s[i].hours \in Nat /\ s[i].hours > 0
    <2>1. PICK g \in ToSet(gaps) : s[i].competency = g.competency /\ s[i].hours = g.hours
      BY <1>4 DEF IsRoadmap
    <2>2. g = ItemOf(l, t, g.competency) /\ g.competency \in DOMAIN Pack /\ g.kind = "ACTIONABLE_GAP"
      BY <1>2 DEF GapNames
    <2>3. g.hours \in Nat \ {0}
      BY <2>2, ItemIs
    <2>. QED  BY <2>1, <2>2, <2>3
  <1>6. IsTimed(s, gaps)
    BY <1>4, <1>5 DEF IsTimed
  <1>7. Names(s) = GapNames(l, t)
    BY <1>2, <1>4 DEF IsRoadmap
  <1>8. IsFiniteSet(Names(s))
    <2>1. GapNames(l, t) \in SUBSET DOMAIN Pack
      BY DEF GapNames
    <2>. QED  BY <1>7, <2>1, ScoringAssumption, FS_Subset
  <1>9. IsFiniteSet(DOMAIN s)
    <2>1. PICK n \in Nat : DOMAIN s = 1 .. n
      BY <1>4 DEF IsRoadmap
    <2>. QED  BY <2>1, FS_Interval
  <1>10. ASSUME NEW c \in Names(s) PROVE StepOf(s, c).hours = ItemOf(l, t, c).hours
    <2>1. PICK i \in DOMAIN s : s[i].competency = c
      BY NamesAre
    <2>2. StepOf(s, c) = s[i]
      BY <1>6, <2>1, StepOfIs
    <2>. QED  BY <1>5, <2>1, <2>2
  <1>11. HoursOf(s) = [c \in GapNames(l, t) |-> ItemOf(l, t, c).hours]
    BY <1>7, <1>10 DEF HoursOf
  <1>. QED  BY <1>1, <1>5, <1>6, <1>7, <1>8, <1>9, <1>11

(* The hours at best, in tenths, are less than ten times all hours.        *)
LEMMA TunedHours ==
  ASSUME NEW n \in Nat, NEW t \in Tunings
  PROVE  (n * OptimisticPercent(t)) \div 10 <= 10 * n
  <1>1. PICK p \in Nat : p = OptimisticPercent(t) /\ p <= 75
    BY DEF OptimisticPercent, Tunings
  <1>2. n * p <= n * 75
    BY <1>1, Product
  <1>3. PICK m \in Nat : m = n * p /\ m <= 75 * n
    BY <1>1, <1>2, Products
  <1>4. PICK q \in Int : q = m \div 10 /\ 10 * q <= m
    BY Quotient
  <1>5. q <= 10 * n
    BY <1>3, <1>4
  <1>. QED  BY <1>1, <1>3, <1>4, <1>5

(* A quotient grows with what is divided.                                  *)
LEMMA QuotientUp ==
  ASSUME NEW m \in Nat, NEW n \in Nat, m <= n, NEW d \in Nat \ {0}
  PROVE  m \div d \in Nat /\ n \div d \in Nat /\ m \div d <= n \div d
  <1>1. PICK q \in Int : q = m \div d /\ d * q <= m /\ m < d * q + d
    BY Quotient
  <1>2. PICK r \in Int : r = n \div d /\ d * r <= n /\ n < d * r + d
    BY Quotient
  <1>3. ASSUME NEW x \in Int, NEW y \in Nat, y < d * x + d PROVE x >= 0
    <2>1. ASSUME x < 0 PROVE FALSE
      <3>1. d * x <= d * (-1) /\ d * (-1) = -d
        BY <2>1, Product
      <3>2. PICK z \in Int : z = d * x
        OBVIOUS
      <3>. QED  BY <1>3, <3>1, <3>2
    <2>. QED  BY <2>1
  <1>4. q >= 0 /\ r >= 0
    BY <1>1, <1>2, <1>3
  <1>5. ASSUME q > r PROVE FALSE
    <2>1. d * (r + 1) <= d * q /\ d * (r + 1) = d * r + d
      BY <1>5, Product
    <2>2. PICK a \in Int, b \in Int : a = d * q /\ b = d * r
      OBVIOUS
    <2>. QED  BY <1>1, <1>2, <2>1, <2>2
  <1>. QED  BY <1>1, <1>2, <1>4, <1>5

(* The items of an analysis.                                               *)
LEMMA ItemsAre ==
  ASSUME NEW o \in Orders, NEW l, HasLevels(l), NEW t \in Tunings, NEW items, items = ItemsOf(o, l, t)
  PROVE  /\ DOMAIN items = DOMAIN o /\ IsFiniteSet(DOMAIN items)
         /\ \A i \in DOMAIN items :
              /\ o[i] \in DOMAIN Pack /\ items[i] = ItemOf(l, t, o[i])
              /\ items[i].weight \in Nat /\ items[i].match \in 0 .. 1000
              /\ items[i].weight = Weight(Requirement(o[i]), t)
              /\ items[i].kind = "EXCLUDED_AS_IRRELEVANT" <=> Excluded(Requirement(o[i]))
  <1>1. DOMAIN items = DOMAIN o /\ \A i \in DOMAIN o : items[i] = ItemOf(l, t, o[i]) /\ o[i] \in DOMAIN Pack
    BY OrderIs DEF ItemsOf
  <1>2. PICK n \in Nat : DOMAIN o = 1 .. n
    BY OrderIs
  <1>3. IsFiniteSet(DOMAIN items)
    BY <1>1, <1>2, FS_Interval
  <1>4. \A c \in DOMAIN Pack :
          LET e == ItemOf(l, t, c)
          IN /\ e.weight \in Nat /\ e.match \in 0 .. 1000 /\ e.weight = Weight(Requirement(c), t)
             /\ e.kind = "EXCLUDED_AS_IRRELEVANT" <=> Excluded(Requirement(c))
    BY ItemIs
  <1>. QED  BY <1>1, <1>3, <1>4

(* What an analysis is of: a fit of at most 1000, and no more hours at     *)
(* best than at all.                                                       *)
LEMMA AnalysisTyped ==
  ASSUME NEW o \in Orders, NEW l, HasLevels(l), NEW t \in Tunings
  PROVE  LET a == Analysis(o, l, t)
         IN a.fit \in 0 .. 1000 /\ a.optimistic <= 10 * a.realistic
  <1>1. PICK a : a = Analysis(o, l, t)
    OBVIOUS
  <1>2. a.fit \in 0 .. 1000
    <2>1. PICK items : items = ItemsOf(o, l, t)
      OBVIOUS
    <2>2. /\ IsFiniteSet(DOMAIN items)
          /\ \A i \in DOMAIN items : items[i].weight \in Nat /\ items[i].match \in 0 .. 1000
      BY <2>1, ItemsAre
    <2>3. FitScore(items) \in 0 .. 1000
      BY <2>2, FitIs
    <2>. QED  BY <1>1, <2>1, <2>3, AnalysisIs
  <1>3. PICK s : s = a.steps
    OBVIOUS
  <1>4. IsFiniteSet(DOMAIN s) /\ IsTimed(s, GapsOf(o, l, t))
    BY <1>1, <1>3, StepsAre
  <1>5. PICK n \in Nat : n = Hours(s)
    <2>1. PICK v : v = [i \in DOMAIN s |-> s[i].hours]
      OBVIOUS
    <2>2. \A i \in DOMAIN s : v[i] \in Nat
      BY <1>4, <2>1 DEF IsTimed
    <2>3. SumOf(DOMAIN s, v) \in Nat
      BY <1>4, <2>2, SumIs
    <2>4. Hours(s) = SumOf(DOMAIN s, v)
      BY <1>4, <2>1, HoursIsSum
    <2>. QED  BY <2>3, <2>4
  <1>6. a.realistic = n /\ a.optimistic = (n * OptimisticPercent(t)) \div 10
    BY <1>1, <1>3, <1>5, AnalysisIs
  <1>7. (n * OptimisticPercent(t)) \div 10 <= 10 * n
    BY TunedHours
  <1>. QED  BY <1>1, <1>2, <1>6, <1>7

-----------------------------------------------------------------------------
(* What counts, by competency instead of by row.                           *)
Considered == {c \in DOMAIN Pack : ~ Excluded(Requirement(c))}
WeightsOf(l, t) == [c \in Considered |-> ItemOf(l, t, c).weight]
MatchesOf(l, t) == [c \in Considered |-> ItemOf(l, t, c).match * ItemOf(l, t, c).weight]

(* A fit does not depend on the order of the rows.                         *)
LEMMA FitOfAnyOrder ==
  ASSUME NEW o \in Orders, NEW l, HasLevels(l), NEW t \in Tunings
  PROVE  /\ IsFiniteSet(Considered)
         /\ \A c \in Considered : WeightsOf(l, t)[c] \in Nat /\ MatchesOf(l, t)[c] \in Nat
         /\ LET w == SumOf(Considered, WeightsOf(l, t))
                m == SumOf(Considered, MatchesOf(l, t))
            IN FitScore(ItemsOf(o, l, t)) = IF w = 0 THEN 0 ELSE (2 * m + w) \div (2 * w)
  <1>1. PICK D, v, u : D = Considered /\ v = WeightsOf(l, t) /\ u = MatchesOf(l, t)
    OBVIOUS
  <1>2. IsFiniteSet(D)
    <2>1. D \in SUBSET DOMAIN Pack
      BY <1>1 DEF Considered
    <2>. QED  BY <2>1, ScoringAssumption, FS_Subset
  <1>3. ASSUME NEW c \in D
        PROVE  v[c] \in Nat /\ u[c] \in Nat /\ v[c] = ItemOf(l, t, c).weight
               /\ u[c] = ItemOf(l, t, c).match * ItemOf(l, t, c).weight
    <2>1. PICK e : e = ItemOf(l, t, c)
      OBVIOUS
    <2>2. e.weight \in Nat /\ e.match \in Nat
      <3>1. c \in DOMAIN Pack
        BY <1>1 DEF Considered
      <3>2. e.weight \in Nat /\ e.match \in 0 .. 1000
        BY <2>1, <3>1, ItemIs
      <3>. QED  BY <3>2
    <2>3. e.match * e.weight \in Nat
      BY <2>2, Products
    <2>. QED  BY <1>1, <2>1, <2>2, <2>3 DEF WeightsOf, MatchesOf
  <1>4. PICK items : items = ItemsOf(o, l, t)
    OBVIOUS
  <1>5. /\ DOMAIN items = DOMAIN o /\ IsFiniteSet(DOMAIN items)
        /\ \A i \in DOMAIN items :
              /\ o[i] \in DOMAIN Pack /\ items[i] = ItemOf(l, t, o[i])
              /\ items[i].kind = "EXCLUDED_AS_IRRELEVANT" <=> Excluded(Requirement(o[i]))
    BY <1>4, ItemsAre
  <1>6. PICK C : /\ C = {i \in DOMAIN items : items[i].kind # "EXCLUDED_AS_IRRELEVANT"}
                 /\ C \subseteq DOMAIN items
    OBVIOUS
  <1>7. IsFiniteSet(C)
    BY <1>5, <1>6, FS_Subset
  <1>8. PICK p : p = [i \in C |-> o[i]]
    OBVIOUS
  <1>9. p \in [C -> D] /\ \A i \in C : p[i] = o[i] /\ o[i] \in D /\ items[i] = ItemOf(l, t, o[i])
    BY <1>1, <1>5, <1>6, <1>8 DEF Considered
  <1>10. \A i, j \in C : p[i] = p[j] => i = j
    BY <1>5, <1>6, <1>9, OrderIs
  <1>11. ASSUME NEW c \in D PROVE \E i \in C : p[i] = c
    <2>1. c \in DOMAIN Pack /\ ~ Excluded(Requirement(c))
      BY <1>1 DEF Considered
    <2>2. PICK i \in DOMAIN o : o[i] = c
      BY <2>1, OrderIs
    <2>3. i \in C
      BY <1>5, <1>6, <2>1, <2>2
    <2>. QED  BY <1>9, <2>2, <2>3
  <1>12. PICK x, y : x = [i \in C |-> items[i].weight] /\ y = [i \in C |-> items[i].match * items[i].weight]
    OBVIOUS
  <1>13. \A i \in C : x[i] = v[p[i]] /\ y[i] = u[p[i]]
    BY <1>3, <1>9, <1>12
  <1>14. SumOf(C, x) = SumOf(D, v) /\ SumOf(C, y) = SumOf(D, u)
    <2>1. \A c \in D : v[c] \in Nat /\ u[c] \in Nat
      BY <1>3
    <2>2. SumOf(C, x) = SumOf(D, v)
      BY <1>2, <1>7, <1>9, <1>10, <1>11, <1>13, <2>1, SumInAnyOrder
    <2>3. SumOf(C, y) = SumOf(D, u)
      BY <1>2, <1>7, <1>9, <1>10, <1>11, <1>13, <2>1, SumInAnyOrder
    <2>. QED  BY <2>2, <2>3
  <1>15. TotalWeight(C, items) = SumOf(D, v) /\ TotalMatch(C, items) = SumOf(D, u)
    BY <1>7, <1>12, <1>14, TotalIsSum, MatchedIsSum
  <1>16. PICK w, m : w = SumOf(D, v) /\ m = SumOf(D, u)
    OBVIOUS
  <1>17. FitScore(items) = IF w = 0 THEN 0 ELSE (2 * m + w) \div (2 * w)
    BY <1>6, <1>15, <1>16 DEF FitScore, TotalWeight, TotalMatch
  <1>. QED  BY <1>1, <1>2, <1>3, <1>4, <1>16, <1>17

(* Raised levels fit no worse under the same tuning.                       *)
LEMMA FitMore ==
  ASSUME NEW o \in Orders, NEW p \in Orders, NEW k, NEW l, HasLevels(k), HasLevels(l), AtLeast(l, k),
         NEW t \in Tunings
  PROVE  Analysis(o, k, t).fit <= Analysis(p, l, t).fit
  <1>1. PICK D, v, x, y : /\ D = Considered /\ v = WeightsOf(l, t)
                          /\ x = MatchesOf(k, t) /\ y = MatchesOf(l, t)
    OBVIOUS
  <1>2. WeightsOf(k, t) = v
    <2>1. \A c \in DOMAIN Pack : ItemOf(k, t, c).weight = ItemOf(l, t, c).weight
      BY ItemIs
    <2>. QED  BY <1>1, <2>1 DEF WeightsOf, Considered
  <1>3. /\ IsFiniteSet(D) /\ \A c \in D : v[c] \in Nat /\ x[c] \in Nat /\ y[c] \in Nat
        /\ FitScore(ItemsOf(o, k, t)) = IF SumOf(D, v) = 0 THEN 0
                                        ELSE (2 * SumOf(D, x) + SumOf(D, v)) \div (2 * SumOf(D, v))
        /\ FitScore(ItemsOf(p, l, t)) = IF SumOf(D, v) = 0 THEN 0
                                        ELSE (2 * SumOf(D, y) + SumOf(D, v)) \div (2 * SumOf(D, v))
    BY <1>1, <1>2, FitOfAnyOrder
  <1>4. ASSUME NEW c \in D PROVE x[c] <= y[c]
    <2>1. c \in DOMAIN Pack
      BY <1>1 DEF Considered
    <2>2. PICK d, e : d = ItemOf(k, t, c) /\ e = ItemOf(l, t, c)
      OBVIOUS
    <2>3. PICK w \in Nat, a \in Nat, b \in Nat : /\ w = d.weight /\ w = e.weight
                                                 /\ a = d.match /\ b = e.match /\ a <= b
      <3>1. /\ ItemOf(k, t, c).weight = Weight(Requirement(c), t)
            /\ ItemOf(l, t, c).weight = Weight(Requirement(c), t)
        BY <2>1, ItemIs
      <3>2. Weight(Requirement(c), t) \in Nat
        BY <2>1, WeightIs
      <3>3. PICK a, b : a = ItemOf(k, t, c).match /\ b = ItemOf(l, t, c).match
        OBVIOUS
      <3>4. a \in 0 .. 1000 /\ b \in 0 .. 1000
        BY <2>1, <3>3, ItemIs
      <3>5. a <= b
        BY <2>1, <3>3, RaisedItem
      <3>6. a = d.match /\ b = e.match
        BY <2>2, <3>3
      <3>7. d.weight \in Nat /\ d.weight = e.weight
        BY <2>2, <3>1, <3>2
      <3>8. a \in Nat /\ b \in Nat
        BY ONLY <3>4
      <3>. QED  BY ONLY <3>5, <3>6, <3>7, <3>8
    <2>4. w * a <= w * b /\ w * a = a * w /\ w * b = b * w
      BY <2>3, Product
    <2>5. x[c] = a * w /\ y[c] = b * w
      BY <1>1, <2>2, <2>3 DEF MatchesOf
    <2>. QED  BY <2>4, <2>5
  <1>5. PICK w \in Nat, m \in Nat, n \in Nat : w = SumOf(D, v) /\ m = SumOf(D, x) /\ n = SumOf(D, y) /\ m <= n
    <2>1. SumOf(D, v) \in Nat /\ SumOf(D, x) \in Nat /\ SumOf(D, y) \in Nat
      BY <1>3, SumIs
    <2>2. SumOf(D, x) <= SumOf(D, y)
      <3>1. D \in SUBSET D /\ \A c \in D : y[c] \in Nat /\ x[c] \in Nat /\ x[c] <= y[c]
        BY <1>3, <1>4
      <3>. QED  BY <1>3, <3>1, SumOfFewer
    <2>. QED  BY <2>1, <2>2
  <1>6. w # 0 => (2 * m + w) \div (2 * w) <= (2 * n + w) \div (2 * w)
    <2>. SUFFICES ASSUME w # 0 PROVE (2 * m + w) \div (2 * w) <= (2 * n + w) \div (2 * w)
      OBVIOUS
    <2>1. PICK a \in Nat, b \in Nat, d \in Nat \ {0} : a = 2 * m + w /\ b = 2 * n + w /\ d = 2 * w /\ a <= b
      BY <1>5
    <2>2. a \div d <= b \div d
      BY <2>1, QuotientUp
    <2>. QED  BY <2>1, <2>2
  <1>7. FitScore(ItemsOf(o, k, t)) <= FitScore(ItemsOf(p, l, t))
    <2>1. /\ FitScore(ItemsOf(o, k, t)) = IF w = 0 THEN 0 ELSE (2 * m + w) \div (2 * w)
          /\ FitScore(ItemsOf(p, l, t)) = IF w = 0 THEN 0 ELSE (2 * n + w) \div (2 * w)
      BY <1>3, <1>5
    <2>. QED  BY <1>6, <2>1
  <1>. QED  BY <1>7, AnalysisIs

-----------------------------------------------------------------------------
(* More hours take no fewer months.                                        *)
LEMMA MonthsMore ==
  ASSUME NEW m \in Nat, NEW n \in Nat, m <= n
  PROVE  Months(m) <= Months(n)
  <1>1. PICK a \in Nat, b \in Nat, d \in Nat \ {0} :
          /\ a = 200 * m + 43 * WeeklyHours /\ b = 200 * n + 43 * WeeklyHours
          /\ d = 2 * 43 * WeeklyHours /\ a <= b
    BY DEF WeeklyHours
  <1>2. a \div d <= b \div d
    BY <1>1, QuotientUp
  <1>. QED  BY <1>1, <1>2 DEF Months

(* Raised levels leave no new gap, and no longer way.                      *)
LEMMA PathNoLonger ==
  ASSUME NEW o \in Orders, NEW p \in Orders, NEW k, NEW l, HasLevels(k), HasLevels(l), AtLeast(l, k),
         NEW t \in Tunings, NEW u \in Tunings
  PROVE  LET a == Analysis(o, k, t)
             b == Analysis(p, l, u)
         IN Names(b.steps) \subseteq Names(a.steps) /\ b.path <= a.path /\ b.months <= a.months
  <1>1. PICK a, b : a = Analysis(o, k, t) /\ b = Analysis(p, l, u)
    OBVIOUS
  <1>2. PICK r, s : r = a.steps /\ s = b.steps
    OBVIOUS
  <1>3. PICK N, P : N = Names(r) /\ P = Names(s)
    OBVIOUS
  <1>4. /\ N = GapNames(k, t) /\ IsFiniteSet(N) /\ IsTimed(r, GapsOf(o, k, t))
        /\ HoursOf(r) = [c \in GapNames(k, t) |-> ItemOf(k, t, c).hours]
    BY <1>1, <1>2, <1>3, StepsAre
  <1>5. /\ P = GapNames(l, u) /\ IsFiniteSet(P) /\ IsTimed(s, GapsOf(p, l, u))
        /\ HoursOf(s) = [c \in GapNames(l, u) |-> ItemOf(l, u, c).hours]
    BY <1>1, <1>2, <1>3, StepsAre
  <1>6. P \subseteq N /\ \A c \in P : HoursOf(s)[c] <= HoursOf(r)[c]
    <2>1. \A c \in P : c \in N /\ ItemOf(l, u, c).hours <= ItemOf(k, t, c).hours
      BY <1>4, <1>5, RaisedItem DEF GapNames
    <2>. QED  BY <1>4, <1>5, <2>1
  <1>7. PICK f : /\ f = Reached(N, HoursOf(r), f) /\ CriticalPathHours(r) \in Nat
                 /\ \A c \in N : f[c] <= CriticalPathHours(r)
    <2>1. PICK f : /\ f = Reached(Names(r), HoursOf(r), f) /\ CriticalPathHours(r) \in Nat
                   /\ \A c \in Names(r) : f[c] <= CriticalPathHours(r)
      BY <1>3, <1>4, PathIs
    <2>. QED  BY <1>3, <2>1
  <1>8. PICK g : /\ g = Reached(P, HoursOf(s), g) /\ CriticalPathHours(s) \in Nat
                 /\ CriticalPathHours(s) = 0 \/ \E c \in P : CriticalPathHours(s) = g[c]
    <2>1. PICK g : /\ g = Reached(Names(s), HoursOf(s), g) /\ CriticalPathHours(s) \in Nat
                   /\ CriticalPathHours(s) = 0 \/ \E c \in Names(s) : CriticalPathHours(s) = g[c]
      BY <1>3, <1>5, PathIs
    <2>. QED  BY <1>3, <2>1
  <1>9. \A c \in P : g[c] <= f[c] /\ g[c] \in Nat /\ f[c] \in Nat
    <2>1. HoursOf(r) \in [N -> Nat] /\ HoursOf(s) \in [P -> Nat]
      BY <1>3, <1>4, <1>5, HoursAre
    <2>2. \A c \in P : g[c] <= f[c]
      BY <1>6, <1>7, <1>8, <2>1, ReachedNoLater
    <2>3. \A c \in N : f[c] \in Nat
      BY <1>7, <2>1, ReachedIs
    <2>4. \A c \in P : g[c] \in Nat
      BY <1>8, <2>1, ReachedIs
    <2>. QED  BY <1>6, <2>2, <2>3, <2>4
  <1>10. PICK m \in Nat, n \in Nat : m = CriticalPathHours(s) /\ n = CriticalPathHours(r) /\ m <= n
    BY <1>6, <1>7, <1>8, <1>9
  <1>11. b.path = m /\ a.path = n /\ b.months = Months(m) /\ a.months = Months(n)
    BY <1>1, <1>2, <1>10, AnalysisIs
  <1>. QED  BY <1>1, <1>2, <1>3, <1>6, <1>10, <1>11, MonthsMore

(* The row that is stored is the analysis with its confidence.             *)
Stored(r) ==
  /\ HasLevels(r.of)
  /\ \E o \in Orders, t \in Tuning, cf \in {"CRITICAL", "LOW", "HIGH"} :
       r = Put(Analysis(o, r.of, t), "confidence", cf)

(* Storing changes no field of the analysis.                               *)
LEMMA StoredIs ==
  ASSUME NEW o, NEW l, NEW t, NEW cf, NEW r, r = Put(Analysis(o, l, t), "confidence", cf)
  PROVE  LET a == Analysis(o, l, t)
         IN /\ r.of = l /\ r.tuning = t /\ r.fit = a.fit /\ r.steps = a.steps /\ r.path = a.path
            /\ r.months = a.months /\ r.realistic = a.realistic /\ r.optimistic = a.optimistic
            /\ r # NoResult
  <1>1. PICK a : a = Analysis(o, l, t)
    OBVIOUS
  <1>2. DOMAIN a = {"of", "tuning", "fit", "steps", "realistic", "optimistic", "path", "months"}
    BY <1>1 DEF Analysis, ComputeAnalysis, ScoreOf
  <1>3. r = [x \in DOMAIN a \cup {"confidence"} |-> IF x = "confidence" THEN cf ELSE a[x]]
    BY <1>1 DEF Put
  <1>4. /\ r.of = a.of /\ r.tuning = a.tuning /\ r.fit = a.fit /\ r.steps = a.steps /\ r.path = a.path
        /\ r.months = a.months /\ r.realistic = a.realistic /\ r.optimistic = a.optimistic
    BY <1>2, <1>3
  <1>5. r # NoResult
    <2>1. "fit" \in DOMAIN r
      BY <1>2, <1>3
    <2>2. "fit" \notin DOMAIN NoResult
      BY DEF NoResult
    <2>. QED  BY <2>1, <2>2
  <1>6. a.of = l /\ a.tuning = t
    BY <1>1, AnalysisIs
  <1>. QED  BY <1>1, <1>4, <1>5, <1>6

(* What is stored was computed from some order of the rows.                *)
LEMMA StoredAs ==
  ASSUME NEW r, Stored(r)
  PROVE  \E o, l, t, cf : /\ o \in Orders /\ t \in Tuning /\ HasLevels(l)
                          /\ r = Put(Analysis(o, l, t), "confidence", cf)
  <1>1. PICK o \in Orders, t \in Tuning, cf \in {"CRITICAL", "LOW", "HIGH"} :
          r = Put(Analysis(o, r.of, t), "confidence", cf)
    BY DEF Stored
  <1>2. PICK l : l = r.of
    OBVIOUS
  <1>3. HasLevels(l) /\ r = Put(Analysis(o, l, t), "confidence", cf)
    BY <1>1, <1>2 DEF Stored
  <1>. QED  BY <1>1, <1>3

(* What the task holds: the levels read, then also the rows.               *)
TaskInv ==
  \/ task = NoTask
  \/ task.at = "requirements" /\ HasLevels(task.levels)
  \/ task.at = "compute" /\ HasLevels(task.levels)
     /\ task.order \in Orders /\ task.transfers \in Transfers

(* What holds in every state: levels are ones to choose from, and what is  *)
(* stored was computed from such levels, a tuning and an order of the      *)
(* rows, whatever was saved and tuned meanwhile.                           *)
ScoringInv ==
  /\ DOMAIN levels = Competency /\ HasLevels(levels)
  /\ tuning \in Tuning /\ vacancies \in {NoSnapshot} \cup Nat
  /\ TaskInv
  /\ result = NoResult \/ Stored(result)

(* It holds in the beginning,                                              *)
LEMMA ScoringBegins == ScoringInit => ScoringInv
  BY ScoringAssumption DEF ScoringInit, ScoringInv, HasLevels, TaskInv

(* and every action keeps it.                                              *)
LEMMA ScoringStepKeeps == ScoringInv /\ [ScoringNext]_scoringVars => ScoringInv'
  <1>. SUFFICES ASSUME ScoringInv, [ScoringNext]_scoringVars PROVE ScoringInv'
    OBVIOUS
  <1>0. /\ DOMAIN levels = Competency /\ HasLevels(levels)
        /\ tuning \in Tuning /\ vacancies \in {NoSnapshot} \cup Nat
        /\ TaskInv /\ (result = NoResult \/ Stored(result))
    BY DEF ScoringInv
  <1>1. CASE SaveCompetencies
    <2>1. PICK c, v : c \in Competency /\ v \in Choice[c] \ {levels[c]} /\ levels' = [levels EXCEPT ![c] = v]
      BY <1>1 DEF SaveCompetencies
    <2>2. UNCHANGED <<tuning, vacancies, task, result>>
      BY <1>1 DEF SaveCompetencies
    <2>3. DOMAIN levels' = Competency /\ HasLevels(levels')
      BY <1>0, <2>1 DEF HasLevels
    <2>. QED  BY <1>0, <2>2, <2>3 DEF ScoringInv, TaskInv
  <1>2. CASE SetActiveProfile
    <2>1. tuning' \in Tuning /\ UNCHANGED <<levels, vacancies, task, result>>
      BY <1>2 DEF SetActiveProfile
    <2>. QED  BY <1>0, <2>1 DEF ScoringInv, TaskInv
  <1>3. CASE LoadProfile
    <2>1. /\ task' = [at |-> "requirements", levels |-> levels]
          /\ UNCHANGED <<levels, tuning, vacancies, result>>
      BY <1>3 DEF LoadProfile
    <2>2. task'.at = "requirements" /\ task'.levels = levels
      BY <2>1
    <2>. QED  BY <1>0, <2>1, <2>2 DEF ScoringInv, TaskInv
  <1>4. CASE LoadInputs
    <2>1. PICK o \in Orders, e \in Transfers :
            task' = [at |-> "compute", levels |-> task.levels, order |-> o, transfers |-> e]
      BY <1>4 DEF LoadInputs
    <2>2. /\ UNCHANGED <<levels, tuning, result>>
          /\ vacancies' \in {NoSnapshot} \cup Nat /\ task.at = "requirements"
      BY <1>0, <1>4 DEF LoadInputs
    <2>3. HasLevels(task.levels)
      BY <1>0, <2>2 DEF TaskInv, NoTask
    <2>4. task'.at = "compute" /\ task'.levels = task.levels /\ task'.order = o /\ task'.transfers = e
      BY <2>1
    <2>. QED  BY <1>0, <2>2, <2>3, <2>4 DEF ScoringInv, TaskInv
  <1>5. CASE ComputeAndSave
    <2>1. /\ task.at = "compute" /\ task' = NoTask /\ UNCHANGED <<levels, tuning, vacancies>>
          /\ result' = Put(ComputeAnalysis(task.order, task.transfers, task.levels, tuning),
                           "confidence", Confidence(vacancies))
      BY <1>5 DEF ComputeAndSave
    <2>2. HasLevels(task.levels) /\ task.order \in Orders /\ task.transfers \in Transfers
      BY <1>0, <2>1 DEF TaskInv, NoTask
    <2>3. Stored(result')
      <3>1. PICK o, l, t, cf : /\ o = task.order /\ l = task.levels /\ t = tuning
                               /\ cf = Confidence(vacancies)
                               /\ result' = Put(Analysis(o, l, t), "confidence", cf)
        BY <2>1, <2>2, AnyTransfers
      <3>2. o \in Orders /\ HasLevels(l) /\ t \in Tuning /\ cf \in {"CRITICAL", "LOW", "HIGH"}
        BY <1>0, <2>2, <3>1 DEF Confidence
      <3>3. PICK r : r = result'
        OBVIOUS
      <3>4. r.of = l
        BY <3>1, <3>3, StoredIs
      <3>5. r = Put(Analysis(o, r.of, t), "confidence", cf)
        BY <3>1, <3>3, <3>4
      <3>6. Stored(r)
        BY <3>2, <3>4, <3>5, Zenon DEF Stored
      <3>. QED  BY <3>3, <3>6
    <2>. QED  BY <1>0, <2>1, <2>3 DEF ScoringInv, TaskInv
  <1>6. CASE UNCHANGED scoringVars
    BY <1>0, <1>6 DEF scoringVars, ScoringInv, TaskInv
  <1>. QED  BY <1>1, <1>2, <1>3, <1>4, <1>5, <1>6 DEF ScoringNext

(* Every analysis is one of levels that may be chosen, under a tuning the  *)
(* administrator may choose, from the rows in an order the database        *)
(* returns them in, whatever is saved or tuned while it runs.              *)
THEOREM ScoringInvariant == ScoringSpec => []ScoringInv
  <1>1. ScoringInit => ScoringInv
    BY ScoringBegins
  <1>2. ScoringInv /\ [ScoringNext]_scoringVars => ScoringInv'
    BY ScoringStepKeeps
  <1>. QED  BY <1>1, <1>2, PTL DEF ScoringSpec

(* The tuning profiles are those of the configuration.                     *)
LEMMA TuningIs == Tuning \subseteq Tunings
  BY ScoringAssumption DEF Tunings

(* Levels, tuning and task keep their types, a fit is at most 1000, and    *)
(* the hours at best are no more than all hours (computeAnalysis).         *)
THEOREM ScoringTypes == ScoringSpec => []ScoringTypeOK
  <1>1. ASSUME ScoringInv PROVE ScoringTypeOK
    <2>1. \A c \in Competency : levels[c] \in Choice[c]
      BY <1>1 DEF ScoringInv, HasLevels
    <2>2. task # NoTask => \A c \in Competency : task.levels[c] \in Choice[c]
      BY <1>1 DEF ScoringInv, TaskInv, HasLevels
    <2>3. ASSUME result # NoResult
          PROVE  result.fit \in 0 .. 1000 /\ result.optimistic <= 10 * result.realistic
      <3>1. PICK o, l, t, cf : /\ o \in Orders /\ t \in Tuning /\ HasLevels(l)
                           /\ result = Put(Analysis(o, l, t), "confidence", cf)
        BY <1>1, <2>3, StoredAs DEF ScoringInv
      <3>2. PICK a : a = Analysis(o, l, t)
        OBVIOUS
      <3>3. result.fit = a.fit /\ result.optimistic = a.optimistic /\ result.realistic = a.realistic
        BY <3>1, <3>2, StoredIs
      <3>4. a.fit \in 0 .. 1000 /\ a.optimistic <= 10 * a.realistic
        BY <3>1, <3>2, TuningIs, AnalysisTyped
      <3>. QED  BY <3>3, <3>4
    <2>. QED  BY <1>1, <2>1, <2>2, <2>3 DEF ScoringTypeOK, ScoringInv
  <1>. QED  BY <1>1, ScoringInvariant, PTL

(* The steps of a stored analysis are the roadmap of its gaps: each once,  *)
(* behind all it depends on, with some hours of its own (buildRoadmap).    *)
LEMMA SoundRoadmap == ScoringInv => RoadmapRespectsDependencies
  <1>. SUFFICES ASSUME ScoringInv, result # NoResult
                PROVE  LET s == result.steps
                       IN /\ \A i, j \in DOMAIN s : s[i].competency \in s[j].dependsOn => i < j
                          /\ \A i, j \in DOMAIN s : s[i].competency = s[j].competency => i = j
                          /\ \A i \in DOMAIN s : s[i].hours > 0
    BY DEF RoadmapRespectsDependencies
  <1>1. PICK o, l, t, cf : /\ o \in Orders /\ t \in Tuning /\ HasLevels(l)
                       /\ result = Put(Analysis(o, l, t), "confidence", cf)
    BY StoredAs DEF ScoringInv
  <1>2. PICK s : s = Analysis(o, l, t).steps
    OBVIOUS
  <1>3. result.steps = s
    BY <1>1, <1>2, StoredIs
  <1>4. IsTimed(s, GapsOf(o, l, t)) /\ \A i \in DOMAIN s : s[i].hours > 0
    BY <1>1, <1>2, TuningIs, StepsAre
  <1>. QED  BY <1>3, <1>4 DEF IsTimed, IsRoadmap, Sole

(* The hours of a stored analysis are those of its longest chain.          *)
LEMMA SoundPath == ScoringInv => CriticalPathIsLongestChain
  <1>. SUFFICES ASSUME ScoringInv, result # NoResult
                PROVE  result.path = Max({0} \cup
                                           {ChainHours(result.steps, ch) : ch \in Chains(result.steps)})
    BY DEF CriticalPathIsLongestChain
  <1>1. PICK o, l, t, cf : /\ o \in Orders /\ t \in Tuning /\ HasLevels(l)
                       /\ result = Put(Analysis(o, l, t), "confidence", cf)
    BY StoredAs DEF ScoringInv
  <1>2. PICK s : s = Analysis(o, l, t).steps
    OBVIOUS
  <1>3. result.steps = s /\ result.path = CriticalPathHours(s)
    BY <1>1, <1>2, StoredIs, AnalysisIs
  <1>4. IsTimed(s, GapsOf(o, l, t)) /\ IsFiniteSet(Names(s))
    BY <1>1, <1>2, TuningIs, StepsAre
  <1>. QED  BY <1>3, <1>4, LongestChain

(* A roadmap lists every gap once, behind what it builds on, for any pack  *)
(* of requirements, levels and order of the rows (buildRoadmap).           *)
THEOREM RoadmapInOrder == ScoringSpec => []RoadmapRespectsDependencies
  BY SoundRoadmap, ScoringInvariant, PTL

(* The months promised come from the longest chain of steps that build on  *)
(* each other (computeCriticalPathHours).                                  *)
THEOREM PathIsLongest == ScoringSpec => []CriticalPathIsLongestChain
  BY SoundPath, ScoringInvariant, PTL

(* The names of the steps.                                                 *)
LEMMA StepNames ==
  ASSUME NEW s
  PROVE  {x.competency : x \in ToSet(s)} = Names(s)
  BY DEF ToSet, Names

(* No raised level hurts: in the next analysis there is no new gap, no     *)
(* longer way and under the same tuning no lower fit, whatever order the   *)
(* rows come in (computeAnalysis).                                         *)
THEOREM RaisedIsNoWorse == ScoringSpec => [][RaisedLevelsHurtNothing]_result
  <1>1. ASSUME ScoringInv, [ScoringNext]_scoringVars PROVE [RaisedLevelsHurtNothing]_result
    <2>. SUFFICES ASSUME result # NoResult, result' # result, AtLeast(result'.of, result.of)
                  PROVE  /\ {s.competency : s \in ToSet(result'.steps)} \subseteq
                              {s.competency : s \in ToSet(result.steps)}
                         /\ result'.path <= result.path /\ result'.months <= result.months
                         /\ result'.tuning = result.tuning => result'.fit >= result.fit
      BY DEF RaisedLevelsHurtNothing
    <2>1. ComputeAndSave
      BY <1>1 DEF ScoringNext, scoringVars, SaveCompetencies, SetActiveProfile, LoadProfile, LoadInputs
    <2>2. PICK o, k, t, cf : /\ o \in Orders /\ t \in Tuning /\ HasLevels(k)
                         /\ result = Put(Analysis(o, k, t), "confidence", cf)
      BY <1>1, StoredAs DEF ScoringInv
    <2>3. PICK p, l, u, cg : /\ p = task.order /\ l = task.levels /\ u = tuning
                             /\ result' = Put(Analysis(p, l, u), "confidence", cg)
      <3>1. /\ HasLevels(task.levels) /\ task.transfers \in Transfers
            /\ result' = Put(ComputeAnalysis(task.order, task.transfers, task.levels, tuning),
                             "confidence", Confidence(vacancies))
        BY <1>1, <2>1 DEF ScoringInv, TaskInv, NoTask, ComputeAndSave
      <3>. QED  BY <3>1, AnyTransfers
    <2>4. p \in Orders /\ HasLevels(l) /\ u \in Tuning
      BY <1>1, <2>1, <2>3 DEF ScoringInv, TaskInv, NoTask, ComputeAndSave
    <2>5. t \in Tunings /\ u \in Tunings
      BY <2>2, <2>4, TuningIs
    <2>6. PICK a, b : a = Analysis(o, k, t) /\ b = Analysis(p, l, u)
      OBVIOUS
    <2>7. /\ result.of = k /\ result.tuning = t /\ result.fit = a.fit /\ result.steps = a.steps
          /\ result.path = a.path /\ result.months = a.months
      BY <2>2, <2>6, StoredIs
    <2>8. /\ result'.of = l /\ result'.tuning = u /\ result'.fit = b.fit /\ result'.steps = b.steps
          /\ result'.path = b.path /\ result'.months = b.months
      BY <2>3, <2>6, StoredIs
    <2>9. AtLeast(l, k)
      BY <2>7, <2>8
    <2>10. Names(b.steps) \subseteq Names(a.steps) /\ b.path <= a.path /\ b.months <= a.months
      BY <2>2, <2>4, <2>5, <2>6, <2>9, PathNoLonger
    <2>11. u = t => a.fit <= b.fit
      BY <2>2, <2>4, <2>5, <2>6, <2>9, FitMore
    <2>12. u = t => b.fit >= a.fit
      <3>1. a.fit \in 0 .. 1000 /\ b.fit \in 0 .. 1000
        BY <2>2, <2>4, <2>5, <2>6, AnalysisTyped
      <3>. QED  BY <2>11, <3>1
    <2>. QED  BY <2>7, <2>8, <2>10, <2>12, StepNames
  <1>. QED  BY <1>1, ScoringInvariant, PTL DEF ScoringSpec

=============================================================================
