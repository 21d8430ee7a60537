----------------------------- MODULE RulesProofs -----------------------------
(***************************************************************************)
(* Theorems about LeadRules: what the rules make of every record, every    *)
(* pair of leads, every answer of the LLM and every clock.                 *)
(***************************************************************************)
EXTENDS LeadRules, FiniteSetTheorems, TLAPS

\* A signal the type column takes.
Typed(S) == \A s \in S : s.type \in SignalTypes

\* A pattern list and a default that build_classifier accepts yield no other
\* type, whatever the text.
LEMMA ClassifyTyped ==
  ASSUME NEW q, Builds(q), NEW p
  PROVE  Typed(Classify(BuildClassifier(q), p))
<1> DEFINE k == BuildClassifier(q)
<1>1. Typed(k.default)
  <2>1. CASE ~q.keep_unclassified
    BY <2>1 DEF BuildClassifier, Typed
  <2>2. CASE q.keep_unclassified
    <3> DEFINE t == IF q.default_type = "" THEN "general_interest" ELSE q.default_type
    <3>1. k.default = {Signal(t, q.default_strength)}
      BY <2>2 DEF BuildClassifier
    <3>2. t \in SignalTypes
      BY <2>2 DEF Builds, SignalTypes
    <3> HIDE DEF k, t
    <3> QED BY <3>1, <3>2 DEF Typed, Signal
  <2> QED BY <2>1, <2>2
<1>2. ASSUME NEW i \in DOMAIN k.patterns PROVE k.patterns[i].signal.type \in SignalTypes
  <2>1. CASE q.patterns = {}
    <3>1. k.patterns = DefaultPatterns
      BY <2>1 DEF BuildClassifier
    <3> QED BY <1>2, <3>1 DEF DefaultPatterns, Signal, SignalTypes
  <2>2. CASE q.patterns # {}
    <3>1. k.patterns \in q.patterns
      BY <2>2 DEF BuildClassifier
    <3> QED BY <1>2, <3>1 DEF Builds
  <2> QED BY <2>1, <2>2
<1> HIDE DEF k
<1> DEFINE matches == {i \in DOMAIN k.patterns : k.patterns[i].re \in p.hits}
           firsts == {j \in matches : \A l \in matches : j <= l}
<1>3. Classify(k, p) = IF matches = {} THEN k.default ELSE {k.patterns[i].signal : i \in firsts}
  BY DEF Classify
<1>4. firsts \subseteq DOMAIN k.patterns
  OBVIOUS
<1> HIDE DEF matches, firsts
<1>5. Typed({k.patterns[i].signal : i \in firsts})
  BY <1>2, <1>4 DEF Typed
<1>6. Typed(Classify(k, p))
  BY <1>1, <1>3, <1>5
<1> QED BY <1>6 DEF k

\* Every lead an adapter keeps has a signal the database knows: the normalize
\* methods under build_classifier.
THEOREM KeptLeadsAreTyped ==
  ASSUME NEW q, Builds(q), NEW p, p.adapter \in Sources, NEW x \in Normalize(p, q)
  PROVE  x.signal.type \in SignalTypes
<1> DEFINE S == Classify(BuildClassifier(q), p)
<1>1. Typed(S)
  BY ClassifyTyped
<1>2. Typed(OrWeak(S, 40)) /\ Typed(OrWeak(S, 20))
  BY <1>1 DEF OrWeak, Typed, Signal, SignalTypes
<1> HIDE DEF S
<1>3. CASE p.adapter \in {"hackernews", "reddit", "google_cse"}
  <2>1. x \in HackerNews(p, q) \/ x \in Reddit(p, q) \/ x \in GoogleCSE(p, q)
    BY <1>3 DEF Normalize
  <2> QED BY <1>1, <2>1 DEF HackerNews, Reddit, GoogleCSE, Lead, Typed, S
<1>4. CASE p.adapter = "linkedin"
  <2>1. x \in LinkedIn(p, q)
    BY <1>4 DEF Normalize
  <2> QED BY <1>1, <2>1 DEF LinkedIn, LinkedInJob, LinkedInPost, Lead, Signal, SignalTypes, Typed, S
<1>5. CASE p.adapter \in {"hnhiring", "remoteok", "funding", "wellfound"}
  <2>1. x \in HNHiring(p) \/ x \in RemoteOK(p, q) \/ x \in Funding(p) \/ x \in Wellfound(p)
    BY <1>5 DEF Normalize
  <2> QED BY <2>1 DEF HNHiring, RemoteOK, Funding, Wellfound, Lead, Signal, SignalTypes
<1>6. CASE p.adapter \in {"producthunt", "rss"}
  <2>1. x \in ProductHunt(p, q) \/ x \in RssMulti(p, q)
    BY <1>6 DEF Normalize
  <2> QED BY <1>2, <2>1 DEF ProductHunt, RssMulti, Lead, Typed, S
<1> QED BY <1>3, <1>4, <1>5, <1>6 DEF Sources

-----------------------------------------------------------------------------
\* A signal within the bounds of its column.
InRange(S) == \A s \in S : s.strength \in 0..100

LEMMA ClassifyInRange ==
  ASSUME NEW q, Bounded(q), NEW p
  PROVE  InRange(Classify(BuildClassifier(q), p))
<1> DEFINE k == BuildClassifier(q)
<1>1. InRange(k.default)
  <2>1. CASE ~q.keep_unclassified
    BY <2>1 DEF BuildClassifier, InRange
  <2>2. CASE q.keep_unclassified
    <3> DEFINE t == IF q.default_type = "" THEN "general_interest" ELSE q.default_type
    <3>1. k.default = {Signal(t, q.default_strength)}
      BY <2>2 DEF BuildClassifier
    <3> HIDE DEF k, t
    <3> QED BY <3>1 DEF InRange, Signal, Bounded
  <2> QED BY <2>1, <2>2
<1>2. ASSUME NEW i \in DOMAIN k.patterns PROVE k.patterns[i].signal.strength \in 0..100
  <2>1. CASE q.patterns = {}
    <3>1. k.patterns = DefaultPatterns
      BY <2>1 DEF BuildClassifier
    <3> QED BY <1>2, <3>1 DEF DefaultPatterns, Signal
  <2>2. CASE q.patterns # {}
    <3>1. k.patterns \in q.patterns
      BY <2>2 DEF BuildClassifier
    <3> QED BY <1>2, <3>1 DEF Bounded
  <2> QED BY <2>1, <2>2
<1> HIDE DEF k
<1> DEFINE matches == {i \in DOMAIN k.patterns : k.patterns[i].re \in p.hits}
           firsts == {j \in matches : \A l \in matches : j <= l}
<1>3. Classify(k, p) = IF matches = {} THEN k.default ELSE {k.patterns[i].signal : i \in firsts}
  BY DEF Classify
<1>4. firsts \subseteq DOMAIN k.patterns
  OBVIOUS
<1> HIDE DEF matches, firsts
<1>5. InRange({k.patterns[i].signal : i \in firsts})
  BY <1>2, <1>4 DEF InRange
<1>6. InRange(Classify(k, p))
  BY <1>1, <1>3, <1>5
<1> QED BY <1>6 DEF k

\* The strength of a lead stays within its bounds, and its date is that of the
\* record it was made of, or none: the normalize methods for a valid request.
THEOREM KeptLeadsInRange ==
  ASSUME NEW q, Bounded(q), NEW p, p.adapter \in Sources, NEW x \in Normalize(p, q)
  PROVE  x.signal.strength \in 0..100 /\ x.posted_at \in {p.hour, Undated}
<1> DEFINE S == Classify(BuildClassifier(q), p)
<1>1. InRange(S)
  BY ClassifyInRange
<1>2. InRange(OrWeak(S, 40)) /\ InRange(OrWeak(S, 20))
  BY <1>1 DEF OrWeak, InRange, Signal
<1> HIDE DEF S
<1>3. CASE p.adapter \in {"hackernews", "reddit", "google_cse"}
  <2>1. x \in HackerNews(p, q) \/ x \in Reddit(p, q) \/ x \in GoogleCSE(p, q)
    BY <1>3 DEF Normalize
  <2> QED BY <1>1, <2>1 DEF HackerNews, Reddit, GoogleCSE, Lead, InRange, S
<1>4. CASE p.adapter = "linkedin"
  <2>1. x \in LinkedIn(p, q)
    BY <1>4 DEF Normalize
  <2> QED BY <1>1, <2>1 DEF LinkedIn, LinkedInJob, LinkedInPost, Lead, Signal, InRange, S
<1>5. CASE p.adapter \in {"hnhiring", "remoteok", "funding", "wellfound"}
  <2>1. x \in HNHiring(p) \/ x \in RemoteOK(p, q) \/ x \in Funding(p) \/ x \in Wellfound(p)
    BY <1>5 DEF Normalize
  <2>2. FundingStrength(p) \in 0..100
    BY DEF FundingStrength
  <2> HIDE DEF FundingStrength
  <2> QED BY <2>1, <2>2 DEF HNHiring, RemoteOK, Funding, Wellfound, Lead, Signal
<1>6. CASE p.adapter \in {"producthunt", "rss"}
  <2>1. x \in ProductHunt(p, q) \/ x \in RssMulti(p, q)
    BY <1>6 DEF Normalize
  <2> QED BY <1>2, <2>1 DEF ProductHunt, RssMulti, Lead, InRange, S
<1> QED BY <1>3, <1>4, <1>5, <1>6 DEF Sources

-----------------------------------------------------------------------------
\* A lead without a date, or with one after day 0.
Dated(x) == x.posted_at = Undated \/ (x.posted_at \in Nat /\ x.posted_at >= 24)

\* Two leads with one hash tell of one thing: the same company, or the same
\* person when neither names a company, with one signal on one day (or both
\* without a date), or the same url: compute_dedup_hash.
THEOREM SameHashSameLead ==
  ASSUME NEW x, NEW y, Dated(x), Dated(y), Identity(x) = Identity(y)
  PROVE  \/ /\ x.signal.type = y.signal.type
            /\ x.posted_at = Undated <=> y.posted_at = Undated
            /\ x.posted_at # Undated => x.posted_at \div 24 = y.posted_at \div 24
            /\ \/ x.company_domain # <<>> /\ x.company_domain = y.company_domain
               \/ /\ x.company_domain = y.company_domain
                  /\ x.person_name # <<>> /\ x.person_name = y.person_name
         \/ x.url = y.url /\ <<>> = x.company_domain /\ <<>> = x.person_name
<1>1. \/ /\ x.company_domain # <<>> /\ x.company_domain = y.company_domain
         /\ x.signal.type = y.signal.type /\ DayBucket(x) = DayBucket(y)
      \/ /\ x.company_domain = <<>> /\ y.company_domain = <<>>
         /\ x.person_name # <<>> /\ x.person_name = y.person_name
         /\ x.signal.type = y.signal.type /\ DayBucket(x) = DayBucket(y)
      \/ x.company_domain = <<>> /\ x.person_name = <<>> /\ x.url = y.url
  BY DEF Identity
<1>2. ASSUME NEW z, Dated(z)
      PROVE  IF z.posted_at = Undated THEN DayBucket(z) = 0
             ELSE DayBucket(z) = z.posted_at \div 24 /\ z.posted_at \div 24 >= 1
  BY <1>2 DEF Dated, DayBucket, Undated
<1>3. DayBucket(x) = DayBucket(y) =>
        /\ x.posted_at = Undated <=> y.posted_at = Undated
        /\ x.posted_at # Undated => x.posted_at \div 24 = y.posted_at \div 24
  BY <1>2
<1> QED BY <1>1, <1>3

-----------------------------------------------------------------------------
LEMMA WeightedSum ==
  ASSUME NEW a \in Answer, NEW stack \in 0..100, NEW recency \in 0..100
  PROVE  /\ Weighted(a, stack, recency) \in Nat
         /\ \A r \in 0..recency : Weighted(a, stack, r) <= Weighted(a, stack, recency)
<1>1. a.strength \in Nat /\ a.icp \in Nat /\ a.urgency \in Nat /\ a.dm \in Nat
  BY DEF Answer
<1> QED BY <1>1 DEF Weighted

LEMMA StackMatchInRange ==
  ASSUME NEW extracted, NEW skills
  PROVE  StackMatch(extracted, skills) \in 0..100
<1> DEFINE R(n) == {k \in 1..100 : k * k * Cardinality(skills) <= n}
<1>1. ASSUME NEW n PROVE Cardinality(R(n)) \in 0..100
  <2>1. R(n) \subseteq 1..100
    OBVIOUS
  <2> HIDE DEF R
  <2>2. IsFiniteSet(1..100) /\ Cardinality(1..100) = 100
    <3>1. 1 \in Int /\ 100 \in Int
      OBVIOUS
    <3>2. IsFiniteSet(1..100)
      BY <3>1, FS_Interval
    <3>3. Cardinality(1..100) = IF 1 > 100 THEN 0 ELSE 100 - 1 + 1
      BY <3>1, FS_Interval, Zenon
    <3> QED BY <3>2, <3>3
  <2>3. Cardinality(R(n)) <= 100 /\ Cardinality(R(n)) \in Nat
    BY <2>1, <2>2, FS_Subset, FS_CardinalityType
  <2> QED BY <2>3
<1>2. Cardinality(R(Cardinality(extracted \cap skills) * 10000)) \in 0..100
  BY <1>1
<1> QED BY <1>2 DEF StackMatch

LEMMA RecencyInRange ==
  ASSUME NEW hour \in Int, NEW now \in Int
  PROVE  Recency(hour, now) \in 0..100
BY DEF Recency, Undated

\* A final score is between 0 and 100 points, and at most 15 for a lead the LLM
\* would skip, whatever its freshness and the skills: compute_final_score.
THEOREM ScoreInRange ==
  ASSUME NEW a \in Answer, NEW hour \in Int, NEW now \in Int, NEW skills
  PROVE  /\ FinalScore(a, hour, now, skills) \in Points
         /\ a.skip => FinalScore(a, hour, now, skills) <= 1500
<1>1. StackMatch(a.stack, skills) \in 0..100 /\ Recency(hour, now) \in 0..100
  BY StackMatchInRange, RecencyInRange DEF Answer
<1> DEFINE raw == Weighted(a, StackMatch(a.stack, skills), Recency(hour, now))
<1>2. raw \in Nat
  BY <1>1, WeightedSum
<1>3. FinalScore(a, hour, now, skills) =
        IF a.skip /\ raw > 1500 THEN 1500 ELSE IF raw > 10000 THEN 10000 ELSE raw
  BY DEF FinalScore
<1> HIDE DEF raw
<1> QED BY <1>2, <1>3 DEF Points

\* A lead that has become older scores no higher for the same answer.
THEOREM FresherScoresHigher ==
  ASSUME NEW a \in Answer, NEW hour \in Int, NEW now \in Int, NEW later \in Int, now <= later,
         NEW skills
  PROVE  FinalScore(a, hour, later, skills) <= FinalScore(a, hour, now, skills)
<1>1. StackMatch(a.stack, skills) \in 0..100
  BY StackMatchInRange DEF Answer
<1>2. Recency(hour, later) \in 0..100 /\ Recency(hour, now) \in 0..100
  BY RecencyInRange
<1>3. Recency(hour, later) <= Recency(hour, now)
  BY DEF Recency, Undated
<1> DEFINE raw(n) == Weighted(a, StackMatch(a.stack, skills), Recency(hour, n))
<1>4. raw(later) \in Nat /\ raw(now) \in Nat /\ raw(later) <= raw(now)
  <2>1. Recency(hour, later) \in 0..Recency(hour, now)
    BY <1>2, <1>3
  <2> QED BY <1>1, <1>2, <2>1, WeightedSum
<1>5. \A n \in Int : FinalScore(a, hour, n, skills) =
        IF a.skip /\ raw(n) > 1500 THEN 1500 ELSE IF raw(n) > 10000 THEN 10000 ELSE raw(n)
  BY DEF FinalScore
<1> HIDE DEF raw
<1> QED BY <1>4, <1>5 DEF FinalScore

-----------------------------------------------------------------------------
\* A cost counts for the day it is incurred in unless the local clock and UTC
\* disagree about the date at that moment: get_daily_llm_cost.
THEOREM DayIsLocal ==
  ASSUME NEW now \in Nat, NEW zone \in -12..14
  PROVE  CountsToday(now, now, zone) <=> (now % 24) + zone \in 0..23
BY DEF CountsToday
=============================================================================
