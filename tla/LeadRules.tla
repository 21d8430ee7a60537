------------------------------ MODULE LeadRules ------------------------------
(***************************************************************************)
(* The rules without state: which signal a text carries, which lead an     *)
(* adapter makes of a record of its source, when two leads are the same,   *)
(* what a classified lead scores, and which day a cost belongs to.         *)
(*                                                                         *)
(* A record of a source ("post") is what the patterns, selectors and       *)
(* parsers find in it:                                                     *)
(*   hits    the patterns its text matches     titled, worded  non-empty   *)
(*   words   queries its title contains        dev     a developer's role  *)
(*   round   the funding round of its title    kind    job or post         *)
(*   ids     its id fields in the order they are tried                     *)
(*   url, domain, person, hour                                             *)
(* Names are sequences of tokens, <<>> for a missing or empty one, people  *)
(* up to case; time is counted in hours.  What may be absent is a set of   *)
(* at most one element, the code's None being {}.                          *)
(***************************************************************************)
EXTENDS Integers, Sequences, FiniteSets

\* The adapters, which are the sources of the leads.
Sources == {"hackernews", "reddit", "google_cse", "linkedin", "hnhiring", "remoteok",
            "producthunt", "rss", "funding", "wellfound"}

Undated == -1

SignalTypes == {"hiring", "pain_point", "tool_evaluation", "budget_mention", "expansion",
                "tech_stack_change", "compliance_need", "funding", "general_interest"}

Signal(t, s) == [type |-> t, strength |-> s]

-----------------------------------------------------------------------------
\* SignalClassifier

DefaultPatterns == <<
  [re |-> "hiring",   signal |-> Signal("hiring", 60)],
  [re |-> "pain",     signal |-> Signal("pain_point", 70)],
  [re |-> "evaluat",  signal |-> Signal("tool_evaluation", 80)],
  [re |-> "budget",   signal |-> Signal("budget_mention", 50)],
  [re |-> "growth",   signal |-> Signal("expansion", 55)],
  [re |-> "migrat",   signal |-> Signal("tech_stack_change", 75)],
  [re |-> "comply",   signal |-> Signal("compliance_need", 65)],
  [re |-> "raised",   signal |-> Signal("funding", 85)],
  [re |-> "recommend", signal |-> Signal("general_interest", 30)] >>

\* A request: its patterns (none given is not the same as an empty list), its
\* fallback for unclassified texts, and the queries an adapter filters with.
DefaultRequest == [patterns |-> {}, keep_unclassified |-> FALSE, default_type |-> "",
                   default_strength |-> 50, queries |-> {}]

\* build_classifier: a default type without keep_unclassified has no effect.
BuildClassifier(q) ==
  [patterns |-> IF q.patterns = {} THEN DefaultPatterns ELSE CHOOSE s \in q.patterns : TRUE,
   default |-> IF ~q.keep_unclassified THEN {}
               ELSE {Signal(IF q.default_type = "" THEN "general_interest" ELSE q.default_type,
                            q.default_strength)}]

\* The bounds ScrapeRequest validates.
Bounded(q) ==
  /\ \A s \in q.patterns : \A i \in DOMAIN s : s[i].signal.strength \in 0..100
  /\ q.default_strength \in 0..100

\* SignalType(s) raises for a name it does not know.
Builds(q) ==
  /\ \A s \in q.patterns : \A i \in DOMAIN s : s[i].signal.type \in SignalTypes
  /\ q.keep_unclassified => q.default_type \in SignalTypes \cup {""}

\* The first pattern that matches, in the order of the list.
Classify(k, p) ==
  LET matches == {i \in DOMAIN k.patterns : k.patterns[i].re \in p.hits}
  IN IF matches = {} THEN k.default
     ELSE {k.patterns[i].signal : i \in {j \in matches : \A l \in matches : j <= l}}

-----------------------------------------------------------------------------
\* SourceAdapter.normalize

FirstOf(names) == IF \E i \in DOMAIN names : names[i] # <<>>
  THEN names[CHOOSE i \in DOMAIN names : names[i] # <<>> /\ \A j \in 1..i - 1 : names[j] = <<>>]
  ELSE <<>>

Lead(p, id, url, s, domain, person, hour) ==
  [source |-> p.adapter, source_id |-> id, url |-> url, signal |-> s,
   company_domain |-> domain, person_name |-> person, posted_at |-> hour]

ItemUrl(p) == <<"item">> \o p.ids[1]

\* A variant that keeps a text without a signal, as the column would allow.
HackerNews_KeepAll(p, q) ==
  {Lead(p, p.ids[1], FirstOf(<<p.url, ItemUrl(p)>>), s, p.domain, p.person, p.hour) :
     s \in IF Classify(BuildClassifier(q), p) = {} THEN {Signal("none", 0)}
                                                  ELSE Classify(BuildClassifier(q), p)}

HackerNews(p, q) ==
  {Lead(p, p.ids[1], FirstOf(<<p.url, ItemUrl(p)>>), s, p.domain, p.person, p.hour) :
     s \in Classify(BuildClassifier(q), p)}

\* The id in the link, else the id of the feed entry, which RssFetcher takes
\* from the entry or from its link.
Reddit(p, q) ==
  {Lead(p, FirstOf(p.ids \o <<p.url>>), p.url, s, p.domain, p.person, p.hour) :
     s \in Classify(BuildClassifier(q), p)}

\* A search result has no author and no date.
GoogleCSE(p, q) ==
  {Lead(p, p.url, p.url, s, p.domain, <<>>, Undated) : s \in Classify(BuildClassifier(q), p)}

LinkedInJob(p) ==
  IF p.titled
    THEN {Lead(p, FirstOf(p.ids \o <<p.url>>), p.url, Signal("hiring", 80), <<>>, <<>>, p.hour)}
    ELSE {}

LinkedInPost(p, q) ==
  {Lead(p, FirstOf(<<p.ids[1], p.url>>), p.url, s, <<>>, p.person, p.hour) :
     s \in IF p.worded THEN Classify(BuildClassifier(q), p) ELSE {}}

LinkedIn(p, q) == IF p.kind = "post" THEN LinkedInPost(p, q) ELSE LinkedInJob(p)

HNHiring(p) ==
  IF p.worded
    THEN {Lead(p, p.ids[1], ItemUrl(p), Signal("hiring", 90), p.domain, p.person, p.hour)}
    ELSE {}

\* The titles the request asks for, or developers' roles when it names none.
RemoteOK(p, q) ==
  IF IF q.queries # {} THEN q.queries \cap p.words # {} ELSE p.dev
    THEN {Lead(p, FirstOf(p.ids \o <<p.url>>), p.url, Signal("hiring", 70),
               p.domain, p.person, p.hour)}
    ELSE {}

\* Launches and the user's own feeds are kept as weak leads.
OrWeak(S, strength) == IF S = {} THEN {Signal("general_interest", strength)} ELSE S

ProductHunt(p, q) ==
  {Lead(p, FirstOf(p.ids \o <<p.url>>), p.url, s, <<>>, <<>>, p.hour) :
     s \in OrWeak(Classify(BuildClassifier(q), p), 40)}

RssMulti(p, q) ==
  {Lead(p, FirstOf(p.ids \o <<p.url>>), p.url, s, p.domain, p.person, p.hour) :
     s \in OrWeak(Classify(BuildClassifier(q), p), 20)}

FundingStrength(p) == CASE p.round = "series" -> 90 [] p.round = "seed" -> 80 [] OTHER -> 70

Funding(p) ==
  {Lead(p, FirstOf(p.ids \o <<p.url>>), p.url, Signal("funding", FundingStrength(p)),
        p.domain, <<>>, p.hour)}

\* A card without a link has an empty url and an empty source_id; the parser
\* never fills in a domain.
Wellfound(p) ==
  IF p.titled THEN {Lead(p, p.url, p.url, Signal("hiring", 75), <<>>, <<>>, Undated)} ELSE {}

Normalize(p, q) ==
  CASE p.adapter = "hackernews" -> HackerNews(p, q)
    [] p.adapter = "reddit" -> Reddit(p, q)
    [] p.adapter = "google_cse" -> GoogleCSE(p, q)
    [] p.adapter = "linkedin" -> LinkedIn(p, q)
    [] p.adapter = "hnhiring" -> HNHiring(p)
    [] p.adapter = "remoteok" -> RemoteOK(p, q)
    [] p.adapter = "producthunt" -> ProductHunt(p, q)
    [] p.adapter = "rss" -> RssMulti(p, q)
    [] p.adapter = "funding" -> Funding(p)
    [] p.adapter = "wellfound" -> Wellfound(p)

-----------------------------------------------------------------------------
\* compute_dedup_hash, the digest taken as the identity it digests

\* A lead without a date falls into the bucket of day 0.
DayBucket(x) == IF x.posted_at = Undated THEN 0 ELSE x.posted_at \div 24

Identity_NoDay(x) ==
  IF x.company_domain # <<>> THEN <<"co", x.company_domain, x.signal.type, 0>>
  ELSE IF x.person_name # <<>> THEN <<"p", x.person_name, x.signal.type, 0>>
  ELSE <<"u", x.url, "", 0>>

Identity(x) ==
  IF x.company_domain # <<>> THEN <<"co", x.company_domain, x.signal.type, DayBucket(x)>>
  ELSE IF x.person_name # <<>> THEN <<"p", x.person_name, x.signal.type, DayBucket(x)>>
  ELSE <<"u", x.url, "", 0>>

-----------------------------------------------------------------------------
\* compute_final_score, in hundredths of a point; percents are rounded down.

\* The LLM's answer, as ClassifyStage validates it.
Answer == [strength : 0..100, icp : 0..100, urgency : 0..100, dm : 0..100,
           stack : SUBSET STRING, skip : BOOLEAN]

StackMatch(extracted, skills) ==
  LET overlap == Cardinality(extracted \cap skills)
  IN IF skills = {} THEN 50
     ELSE IF overlap = 0 THEN 10
     ELSE Cardinality({k \in 1..100 : k * k * Cardinality(skills) <= overlap * 10000})

Recency(hour, now) ==
  IF hour = Undated THEN 50
  ELSE IF now <= hour THEN 100
  ELSE IF now - hour >= 72 THEN 0
  ELSE (100 * (72 - (now - hour))) \div 72

Weighted(a, stack, recency) ==
  20 * a.strength + 25 * a.icp + 15 * a.urgency + 15 * a.dm + 15 * stack + 10 * recency

\* What a score may be.
Points == 0..10000

FinalScore(a, hour, now, skills) ==
  LET raw == Weighted(a, StackMatch(a.stack, skills), Recency(hour, now))
  IN IF a.skip /\ raw > 1500 THEN 1500 ELSE IF raw > 10000 THEN 10000 ELSE raw

-----------------------------------------------------------------------------
\* get_daily_llm_cost: the date is the local one, the day it stands for the UTC
\* day of that name.  zone is the offset of the local clock.
CountsToday(called, now, zone) ==
  LET day == (now + zone) \div 24
  IN 24 * day <= called /\ called < 24 * day + 24
=============================================================================
