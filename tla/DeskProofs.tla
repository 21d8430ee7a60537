----------------------------- MODULE DeskProofs -----------------------------
(***************************************************************************)
(* Theorems about LeadDesk, for any posts, requests and lists, any answers *)
(* of the LLM and any number of pipeline executions.                       *)
(***************************************************************************)
EXTENDS LeadDesk, RulesProofs, SequenceTheorems, WellFoundedInduction, TLAPS

-----------------------------------------------------------------------------
(* Numbers, and orders of a set.                                           *)

\* Every set of numbers has a least.
LEMMA LeastNumber ==
  ASSUME NEW S \in SUBSET Nat, S # {}
  PROVE  \E m \in S : \A n \in S : m <= n
<1>1. PICK m \in S : \A n \in S : <<n, m>> \notin OpToRel(<, Nat)
  BY NatLessThanWellFounded, WFMin
<1>2. \A n \in S : ~(n < m)
  BY <1>1 DEF OpToRel
<1> QED BY <1>2

\* An order of a finite set meets each of its elements once.
LEMMA Orders ==
  ASSUME NEW S, IsFiniteSet(S), NEW k \in SetToSeqs(S)
  PROVE  /\ Cardinality(S) \in Nat /\ k \in [1..Cardinality(S) -> S]
         /\ k \in Seq(S) /\ Len(k) = Cardinality(S) /\ DOMAIN k = 1..Cardinality(S)
         /\ \A m, n \in DOMAIN k : k[m] = k[n] => m = n
         /\ \A x \in S : \E n \in DOMAIN k : k[n] = x
<1> DEFINE c == Cardinality(S)
<1>1. c \in Nat
  BY FS_CardinalityType
<1>2. k \in [1..c -> S] /\ \A i, j \in 1..c : i # j => k[i] # k[j]
  BY DEF SetToSeqs
<1>3. IsFiniteSet(1..c) /\ Cardinality(1..c) = c
  <2> HIDE DEF c
  <2> QED BY <1>1, FS_Interval
<1>4. k \in Injection(1..c, S)
  <2> HIDE DEF c
  <2>1. \A i, j \in 1..c : k[i] = k[j] => i = j
    BY <1>2
  <2>2. k \in [1..c -> S] /\ DOMAIN k = 1..c
    BY <1>2
  <2> QED BY <2>1, <2>2, Zenon DEF Injection, IsInjective
<1>5. k \in Surjection(1..c, S)
  <2>1. Cardinality(1..c) = Cardinality(S) <=> k \in Surjection(1..c, S)
    BY <1>4, FS_Injection
  <2> QED BY <1>3, <2>1
<1>6. \A x \in S : \E n \in 1..c : k[n] = x
  BY <1>5 DEF Surjection
<1> HIDE DEF c
<1>7. k \in Seq(S) /\ Len(k) = c /\ DOMAIN k = 1..c
  BY <1>1, <1>2
<1> QED BY <1>1, <1>2, <1>6, <1>7 DEF c

\* A set of positions is no larger than what it is a part of.
LEMMA Positions ==
  ASSUME NEW n \in Nat, NEW S \in SUBSET (1..n)
  PROVE  IsFiniteSet(S) /\ Cardinality(S) \in Nat /\ Cardinality(S) <= n
<1>1. IsFiniteSet(1..n) /\ Cardinality(1..n) = n
  BY FS_Interval
<1> QED BY <1>1, FS_Subset, FS_CardinalityType

-----------------------------------------------------------------------------
(* Types.                                                                  *)

AllPosts == UNION {m.posts : m \in Markets}
AllRequests == UNION {m.requests : m \in Markets}
AllLists == UNION {m.lists : m \in Markets}
Statuses == {"new", "enriching", "budget_paused", "scored"}

GoodLead(x) ==
  /\ x.signal.type \in SignalTypes /\ x.signal.strength \in 0..100
  /\ x.posted_at \in Int /\ Dated(x)

\* What the adapters make of the posts for the requests.
LeadSet == {x \in {LeadOf(p, q) : p \in AllPosts, q \in AllRequests} : GoodLead(x)}

RowType == [lead : LeadSet, post : AllPosts, batch : Nat, fetched_at : Nat, status : Statuses,
            score : SUBSET Points, enrichment : SUBSET Answers, raced : BOOLEAN]

WorkType == [pc : {"off", "claim", "classify", "upsert", "score"}, lead : Nat,
             answer : SUBSET Answers, score : Points]

StatsType == [kind : {"stats"}, counts : Seq(Nat)]
DetailType == [kind : {"detail"}, lead : Nat, parts : SUBSET {"row", "enrichment"},
               status : Statuses \cup {"unread"}, score : SUBSET Points,
               enrichment : SUBSET Answers]
PagesType == [kind : {"pages"}, size : Nat \ {0},
              sort_by : {"fetched_at", "signal_strength", "posted_at", "score"},
              sort_order : {l.sort_order : l \in AllLists}, source : {l.source : l \in AllLists},
              page : Nat \ {0}, total : SUBSET Nat, seen : SUBSET Nat, old : Nat,
              stale : BOOLEAN, done : BOOLEAN]

TableTyped ==
  /\ market \in Markets /\ clock \in StartHour..EndHour
  /\ table \in Seq(RowType) /\ offered \subseteq LeadSet

WorkTyped ==
  /\ work \in [Pipelines -> WorkType]
  /\ \A w \in Pipelines : IF work[w].pc = "off" THEN work[w] = Off ELSE work[w].lead \in 1..Len(table)

AskTyped == ask \in {Quiet} \cup StatsType \cup DetailType \cup PagesType

\* A lead of a post is good, whatever the request.
LEMMA LeadGood ==
  ASSUME NEW m \in Markets, NEW p \in m.posts, NEW q \in m.requests, Builds(q), Normalize(p, q) # {}
  PROVE  LeadOf(p, q) \in LeadSet /\ p \in AllPosts
<1>1. LeadOf(p, q) \in Normalize(p, q)
  BY DEF LeadOf
<1> DEFINE x == LeadOf(p, q)
<1>2. /\ p.adapter \in Sources /\ p.hour \in Int /\ (p.hour = Undated \/ p.hour >= 24)
      /\ Bounded(q)
  BY MarketAssumption
<1> HIDE DEF x
<1>3. x.signal.type \in SignalTypes
  BY <1>1, <1>2, KeptLeadsAreTyped DEF x
<1>4. x.signal.strength \in 0..100 /\ x.posted_at \in {p.hour, Undated}
  BY <1>1, <1>2, KeptLeadsInRange DEF x
<1>5. GoodLead(x)
  BY <1>2, <1>3, <1>4 DEF GoodLead, Dated, Undated
<1>6. p \in AllPosts /\ q \in AllRequests
  BY DEF AllPosts, AllRequests
<1> QED BY <1>5, <1>6 DEF LeadSet, x

-----------------------------------------------------------------------------
(* Steps on the table.                                                     *)

\* A row as insert_leads leaves it.
New(r) == r.status = "new" /\ r.score = {} /\ r.enrichment = {} /\ r.raced = FALSE

Appended ==
  /\ table' \in Seq(RowType) /\ Len(table) <= Len(table')
  /\ \A i \in 1..Len(table) : table'[i] = table[i]
  /\ \A i \in 1..Len(table') : i > Len(table) => New(table'[i])

DistinctRows(t) ==
  \A i, j \in 1..Len(t) : i # j => /\ Identity(t[i].lead) # Identity(t[j].lead)
                                   /\ SourceKey(t[i]) # SourceKey(t[j])

\* Every lead offered has a row with its hash.
Covered(t, X) == \A x \in X : \E i \in 1..Len(t) : Identity(t[i].lead) = Identity(x)

\* The number of the next batch is one.
LEMMA BatchNumber ==
  ASSUME TableTyped
  PROVE  NextBatch \in Nat
<1> DEFINE f == [i \in 1..Len(table) |-> table[i].batch]
<1>1. Len(table) \in Nat /\ DOMAIN table = 1..Len(table)
  BY LenProperties DEF TableTyped
<1>2. f \in Surjection(1..Len(table), Batches)
  BY <1>1 DEF Surjection, Batches, ToSet
<1>3. IsFiniteSet(Batches)
  BY <1>1, <1>2, FS_Interval, FS_Surjection
<1> QED BY <1>3, FS_CardinalityType DEF NextBatch

\* A row of the batch.
LEMMA RowTyped ==
  ASSUME TableTyped, NEW x \in LeadSet, NEW p \in AllPosts, NEW b \in Nat
  PROVE  Row(x, p, b) \in RowType /\ New(Row(x, p, b)) /\ Row(x, p, b).lead = x
<1>1. clock \in Nat
  BY ClockAssumption DEF TableTyped
<1> QED BY <1>1 DEF Row, RowType, New, Statuses

\* What a concatenation holds.
LEMMA Joined ==
  ASSUME NEW T, NEW s \in Seq(T), NEW t \in Seq(T), NEW u, u = s \o t
  PROVE  /\ u \in Seq(T) /\ Len(u) = Len(s) + Len(t) /\ Len(s) \in Nat /\ Len(t) \in Nat
         /\ DOMAIN u = 1..Len(u)
         /\ \A i \in 1..Len(s) : u[i] = s[i]
         /\ \A i \in 1..Len(t) : u[Len(s) + i] = t[i]
         /\ \A i \in 1..Len(u) : i > Len(s) => i - Len(s) \in 1..Len(t) /\ u[i] = t[i - Len(s)]
<1>1. Len(s) \in Nat /\ Len(t) \in Nat
  BY LenProperties
<1>2. /\ u \in Seq(T) /\ Len(u) = Len(s) + Len(t)
      /\ \A i \in 1..Len(s) + Len(t) : u[i] = IF i <= Len(s) THEN s[i] ELSE t[i - Len(s)]
  BY ConcatProperties
<1>3. DOMAIN u = 1..Len(u)
  BY <1>2, LenProperties
<1>4. \A i \in 1..Len(s) : u[i] = s[i]
  BY <1>1, <1>2
<1>5. \A i \in 1..Len(t) : u[Len(s) + i] = t[i]
  BY <1>1, <1>2
<1>6. \A i \in 1..Len(u) : i > Len(s) => i - Len(s) \in 1..Len(t) /\ u[i] = t[i - Len(s)]
  BY <1>1, <1>2
<1> QED BY <1>1, <1>2, <1>3, <1>4, <1>5, <1>6

\* What a scrape does to the table.
LEMMA StoreRows ==
  ASSUME TableTyped, DistinctRows(table), Covered(table, offered),
         NEW S \in SUBSET market.posts, NEW posts \in SetToSeqs(S), NEW q \in market.requests,
         StoreBatch(posts, q)
  PROVE  /\ Appended /\ TableTyped' /\ DistinctRows(table') /\ Covered(table', offered')
<1>1. IsFiniteSet(S)
  BY MarketAssumption, FS_Subset DEF TableTyped
<1>2. /\ \A i \in DOMAIN posts : posts[i] \in S
      /\ DOMAIN posts \subseteq Nat /\ IsFiniteSet(DOMAIN posts)
  <2>1. Cardinality(S) \in Nat /\ posts \in [1..Cardinality(S) -> S] /\ DOMAIN posts = 1..Cardinality(S)
    BY <1>1, Orders
  <2> QED BY <2>1, FS_Interval
<1> DEFINE kept == Kept(posts, q)
           fresh == Fresh(posts, q)
           x(i) == LeadOf(posts[i], q)
<1>3. \A i \in kept : i \in DOMAIN posts /\ x(i) \in LeadSet /\ posts[i] \in AllPosts
  BY <1>2, LeadGood DEF Kept, TableTyped, StoreBatch
<1>4. /\ fresh \subseteq kept /\ kept \subseteq DOMAIN posts
      /\ \A i \in kept : i \in fresh <=>
           /\ \A r \in ToSet(table) : Identity(r.lead) # Identity(x(i))
           /\ \A j \in kept : j < i => Identity(x(j)) # Identity(x(i))
  BY DEF Fresh, Kept
<1>5. IsFiniteSet(fresh)
  BY <1>2, <1>4, FS_Subset
<1> DEFINE rows(k) == [n \in DOMAIN k |-> Row(x(k[n]), posts[k[n]], NextBatch)]
<1>6. PICK k \in SetToSeqs(fresh) :
        /\ \A i, j \in DOMAIN (table \o rows(k)) :
             SourceKey((table \o rows(k))[i]) = SourceKey((table \o rows(k))[j]) => i = j
        /\ table' = table \o rows(k)
  BY DEF StoreBatch
<1>7. offered' = offered \cup {x(i) : i \in kept} /\ market' = market /\ clock' = clock
  BY DEF StoreBatch
<1>8. /\ \A n \in DOMAIN k : k[n] \in fresh
      /\ DOMAIN k = 1..Len(k) /\ Len(k) \in Nat
      /\ \A m, n \in DOMAIN k : k[m] = k[n] => m = n
      /\ \A i \in fresh : \E n \in DOMAIN k : k[n] = i
  BY <1>5, Orders
<1> DEFINE rs == rows(k)
<1> HIDE DEF kept, fresh
<1>9. \A n \in DOMAIN k : /\ rs[n] \in RowType /\ New(rs[n]) /\ rs[n].lead = x(k[n])
  BY <1>3, <1>4, <1>8, BatchNumber, RowTyped
<1>10. rs \in [1..Len(k) -> RowType]
  BY <1>8, <1>9
<1>11. rs \in Seq(RowType) /\ Len(rs) = Len(k)
  <2> HIDE DEF rs
  <2> QED BY <1>8, <1>10
<1>12. table' = table \o rs /\ table \in Seq(RowType)
  BY <1>6 DEF TableTyped
<1>13. \A i, j \in DOMAIN table' : SourceKey(table'[i]) = SourceKey(table'[j]) => i = j
  BY <1>6
<1> HIDE DEF rs, rows, x
<1>14. /\ table' \in Seq(RowType) /\ Len(table') = Len(table) + Len(k) /\ Len(table) \in Nat
       /\ DOMAIN table' = 1..Len(table')
       /\ \A i \in 1..Len(table) : table'[i] = table[i]
       /\ \A n \in 1..Len(k) : table'[Len(table) + n] = rs[n]
       /\ \A i \in 1..Len(table') : i > Len(table) => i - Len(table) \in 1..Len(k) /\ table'[i] = rs[i - Len(table)]
  <2>a. table' \in Seq(RowType)
    BY <1>11, <1>12, Joined
  <2>b. Len(table') = Len(table) + Len(rs)
    BY <1>11, <1>12, ConcatProperties
  <2>1. table' \in Seq(RowType) /\ Len(table') = Len(table) + Len(rs) /\ Len(table) \in Nat
    BY <1>12, <2>a, <2>b, LenProperties
  <2>2. DOMAIN table' = 1..Len(table')
    BY <1>11, <1>12, Joined
  <2>3. \A i \in 1..Len(table) : table'[i] = table[i]
    BY <1>11, <1>12, Joined
  <2>4. \A i \in 1..Len(rs) : table'[Len(table) + i] = rs[i]
    BY <1>11, <1>12, Joined
  <2>5. \A i \in 1..Len(table') :
          i > Len(table) => i - Len(table) \in 1..Len(rs) /\ table'[i] = rs[i - Len(table)]
    BY <1>11, <1>12, Joined
  <2> QED BY <1>11, <2>1, <2>2, <2>3, <2>4, <2>5
<1>15. Appended
  BY <1>8, <1>9, <1>14 DEF Appended
<1>16. TableTyped'
  <2>1. offered' \subseteq LeadSet
    BY <1>3, <1>7 DEF TableTyped
  <2> QED BY <1>7, <1>14, <2>1 DEF TableTyped
<1>17. \A i \in 1..Len(table) : table[i] \in ToSet(table)
  BY LenProperties, <1>12 DEF ToSet
<1>18. ASSUME NEW i \in 1..Len(table'), NEW j \in 1..Len(table'), i < j
       PROVE  Identity(table'[i].lead) # Identity(table'[j].lead)
  <2>1. CASE j <= Len(table)
    BY <1>14, <1>18, <2>1 DEF DistinctRows
  <2>2. CASE j > Len(table)
    <3>1. j - Len(table) \in DOMAIN k /\ table'[j].lead = x(k[j - Len(table)])
      BY <1>8, <1>9, <1>14, <2>2
    <3> DEFINE n == k[j - Len(table)]
    <3>2. n \in fresh /\ n \in kept
      BY <1>4, <1>8, <3>1
    <3>3. CASE i <= Len(table)
      <4>1. table'[i] \in ToSet(table)
        BY <1>14, <1>17, <3>3
      <4> QED BY <1>4, <3>1, <3>2, <4>1
    <3>4. CASE i > Len(table)
      <4>1. i - Len(table) \in DOMAIN k /\ table'[i].lead = x(k[i - Len(table)])
        BY <1>8, <1>9, <1>14, <3>4
      <4> DEFINE m == k[i - Len(table)]
      <4>2. m \in fresh /\ m \in kept /\ m # n
        <5>1. m \in fresh /\ m \in kept
          BY <1>4, <1>8, <4>1
        <5>2. i \in Int /\ j \in Int /\ Len(table) \in Int
          BY <1>14
        <5>3. i - Len(table) # j - Len(table)
          BY <1>18, <5>2
        <5>4. m # n
          BY <1>8, <3>1, <4>1, <5>3
        <5> QED BY <5>1, <5>4
      <4>3. m \in Nat /\ n \in Nat
        BY <1>2, <1>4, <3>2, <4>2
      <4> HIDE DEF m, n
      <4>4. m < n \/ n < m
        BY <4>2, <4>3
      <4>5. Identity(x(m)) # Identity(x(n))
        BY <1>4, <3>2, <4>2, <4>4
      <4> QED BY <3>1, <4>1, <4>5 DEF m, n
    <3> QED BY <3>3, <3>4, <1>14
  <2> QED BY <2>1, <2>2, <1>14
<1>19. DistinctRows(table')
  BY <1>13, <1>14, <1>18 DEF DistinctRows
<1>20. Covered(table', offered')
  <2>1. ASSUME NEW i \in kept PROVE \E j \in 1..Len(table') : Identity(table'[j].lead) = Identity(x(i))
    <3> DEFINE same == {j \in kept : Identity(x(j)) = Identity(x(i))}
    <3>1. same # {} /\ same \subseteq Nat
      BY <1>2, <1>4
    <3>2. PICK m \in same : \A n \in same : m <= n
      <4> HIDE DEF same
      <4> QED BY <3>1, LeastNumber
    <3>3. m \in kept /\ Identity(x(m)) = Identity(x(i)) /\ m \in Nat
      BY <3>1, <3>2
    <3>4. \A j \in kept : j < m => Identity(x(j)) # Identity(x(m))
      <4>1. \A j \in kept : j \in Nat
        BY <1>2, <1>4
      <4> QED BY <3>2, <3>3, <4>1
    <3>5. CASE m \in fresh
      <4>1. PICK n \in 1..Len(k) : k[n] = m
        BY <1>8, <3>5
      <4>2. Len(table) + n \in 1..Len(table') /\ table'[Len(table) + n].lead = x(m)
        BY <1>8, <1>9, <1>14, <4>1
      <4> QED BY <3>3, <4>2
    <3>6. CASE m \notin fresh
      <4>1. PICK r \in ToSet(table) : Identity(r.lead) = Identity(x(m))
        BY <1>4, <3>3, <3>4, <3>6
      <4>2. PICK j \in 1..Len(table) : r = table[j]
        BY LenProperties, <1>12 DEF ToSet
      <4> QED BY <1>14, <1>8, <3>3, <4>1, <4>2
    <3> QED BY <3>5, <3>6
  <2>2. ASSUME NEW y \in offered PROVE \E j \in 1..Len(table') : Identity(table'[j].lead) = Identity(y)
    BY <1>8, <1>14 DEF Covered
  <2> QED BY <1>7, <2>1, <2>2 DEF Covered
<1> QED BY <1>15, <1>16, <1>19, <1>20

-----------------------------------------------------------------------------
(* Steps of a pipeline execution.                                          *)

\* What an execution does to its row.
Revised(i, r) ==
  /\ table' = [table EXCEPT ![i] = r]
  /\ r \in RowType /\ r.lead = table[i].lead /\ r.batch = table[i].batch
  /\ r.fetched_at = table[i].fetched_at /\ (table[i].raced => r.raced)

\* What no step takes back.
Extended ==
  /\ table' \in Seq(RowType) /\ Len(table) <= Len(table')
  /\ \A i \in 1..Len(table) :
       /\ table'[i].lead = table[i].lead /\ table'[i].batch = table[i].batch
       /\ table'[i].fetched_at = table[i].fetched_at
       /\ table[i].raced => table'[i].raced

\* What an execution leaves alone.
LEMMA RevisedRows ==
  ASSUME TableTyped, NEW i \in 1..Len(table), NEW r, Revised(i, r)
  PROVE  /\ Extended /\ Len(table') = Len(table) /\ table'[i] = r
         /\ \A j \in 1..Len(table) : j # i => table'[j] = table[j]
<1>1. Len(table) \in Nat /\ DOMAIN table = 1..Len(table) /\ table \in [1..Len(table) -> RowType]
  BY LenProperties DEF TableTyped
<1>2. table' \in [1..Len(table) -> RowType] /\ table'[i] = r
      /\ \A j \in 1..Len(table) : j # i => table'[j] = table[j]
  BY <1>1 DEF Revised
<1>3. table' \in Seq(RowType) /\ Len(table') = Len(table)
  BY <1>1, <1>2
<1>4. ASSUME NEW j \in 1..Len(table)
      PROVE  /\ table'[j].lead = table[j].lead /\ table'[j].batch = table[j].batch
             /\ table'[j].fetched_at = table[j].fetched_at
             /\ table[j].raced => table'[j].raced
  BY <1>2 DEF Revised
<1> QED BY <1>1, <1>2, <1>3, <1>4 DEF Extended

\* An answer with the score it was given.
Scores(E, S, x) ==
  \E a \in Answers : \E now \in StartHour..EndHour :
    E = {a} /\ S = {FinalScore(a, x.posted_at, now, Skills)}

\* What the pipeline has made of a row.
GoodRow(r) ==
  /\ r.status = "scored" => r.score # {}
  /\ ~r.raced => /\ r.score # {} => r.status = "scored"
                 /\ r.status = "scored" => Scores(r.enrichment, r.score, r.lead)

\* What an execution knows of its row.
Knows(x, r) ==
  /\ ~r.raced => r.status # "scored"
  /\ x.pc \in {"upsert", "score"} => Scores(x.answer, {x.score}, r.lead)
  /\ x.pc = "score" /\ ~r.raced => r.enrichment = x.answer

PipeInv ==
  /\ \A i \in 1..Len(table) : GoodRow(table[i])
  /\ \A w \in Pipelines : work[w].pc # "off" => Knows(work[w], table[work[w].lead])
  /\ \A v, w \in Pipelines : v # w /\ work[v].pc # "off" /\ work[w].lead = work[v].lead
       => table[work[v].lead].raced

\* The score of an answer, whenever it is given.
LEMMA ScoreBounds ==
  ASSUME NEW a \in Answers, NEW hour \in Int, NEW now \in StartHour..EndHour
  PROVE  /\ FinalScore(a, hour, now, Skills) \in Points
         /\ a.skip => FinalScore(a, hour, now, Skills) <= 1500
<1>1. a \in Answer
  BY AnswerAssumption
<1>2. now \in Int
  BY ClockAssumption
<1> QED BY <1>1, <1>2, ScoreInRange

\* What was scored.
LEMMA ScoresTyped ==
  ASSUME NEW E, NEW S, NEW x \in LeadSet, Scores(E, S, x)
  PROVE  /\ E \subseteq Answers /\ S \subseteq Points
         /\ \A a \in E, s \in S : a.skip => s <= 1500
<1>1. PICK a \in Answers, now \in StartHour..EndHour :
        E = {a} /\ S = {FinalScore(a, x.posted_at, now, Skills)}
  BY DEF Scores
<1> DEFINE hour == x.posted_at
           f == FinalScore(a, hour, now, Skills)
<1>2. hour \in Int
  BY DEF LeadSet, GoodLead
<1>3. E = {a} /\ S = {f}
  BY <1>1, Zenon
<1> HIDE DEF hour
<1>4. f \in Points /\ (a.skip => f <= 1500)
  BY <1>2, ScoreBounds
<1> HIDE DEF f
<1> QED BY <1>3, <1>4

\* A step of one execution on one row keeps what the pipelines know.
LEMMA PipeKept ==
  ASSUME TableTyped, WorkTyped, PipeInv, NEW w \in Pipelines, NEW i \in 1..Len(table),
         NEW r, Revised(i, r), NEW x \in WorkType, work' = [work EXCEPT ![w] = x],
         x.pc = "off" => x = Off, x.pc # "off" => x.lead = i,
         GoodRow(r), x.pc # "off" => Knows(x, r),
         \A v \in Pipelines \ {w} : work[v].lead = i => r.raced,
         \A v \in Pipelines \ {w} : work[v].lead = i => Knows(work[v], r)
  PROVE  WorkTyped' /\ PipeInv'
<1>1. /\ Extended /\ Len(table') = Len(table) /\ table'[i] = r
      /\ \A j \in 1..Len(table) : j # i => table'[j] = table[j]
  BY RevisedRows
<1>2. work'[w] = x /\ \A v \in Pipelines \ {w} : work'[v] = work[v]
  BY DEF WorkTyped
<1>3. WorkTyped'
  BY <1>1, <1>2 DEF WorkTyped
<1>4. \A j \in 1..Len(table') : GoodRow(table'[j])
  BY <1>1 DEF PipeInv
<1>5. ASSUME NEW v \in Pipelines, work'[v].pc # "off" PROVE Knows(work'[v], table'[work'[v].lead])
  <2>1. CASE v = w
    BY <1>1, <1>2, <1>5, <2>1
  <2>2. CASE v # w /\ work[v].lead = i
    BY <1>1, <1>2, <2>2
  <2>3. CASE v # w /\ work[v].lead # i
    BY <1>1, <1>2, <1>5, <2>3 DEF PipeInv, WorkTyped
  <2> QED BY <2>1, <2>2, <2>3
<1>6. ASSUME NEW u \in Pipelines, NEW v \in Pipelines, u # v, work'[u].pc # "off",
             work'[v].lead = work'[u].lead
      PROVE  table'[work'[u].lead].raced
  <2>0. Off.lead = 0 /\ i # 0
    BY DEF Off
  <2>1. CASE u = w
    BY <1>1, <1>2, <1>6, <2>1
  <2>2. CASE v = w /\ x.pc # "off"
    BY <1>1, <1>2, <1>6, <2>2
  <2>3. CASE v = w /\ x.pc = "off"
    <3>1. work[u].lead \in 1..Len(table) /\ work'[v].lead = 0
      BY <1>2, <1>6, <2>0, <2>3 DEF WorkTyped
    <3> QED BY <1>2, <1>6, <2>3, <3>1
  <2>4. CASE u # w /\ v # w
    <3>1. table[work[u].lead].raced /\ work[u].lead \in 1..Len(table)
      BY <1>2, <1>6, <2>4 DEF PipeInv, WorkTyped
    <3>2. work[u].lead = i => r.raced
      BY <2>4
    <3> QED BY <1>1, <1>2, <2>4, <3>1, <3>2
  <2> QED BY <2>1, <2>2, <2>3, <2>4
<1>7. PipeInv'
  <2>1. \A v \in Pipelines : work'[v].pc # "off" => Knows(work'[v], table'[work'[v].lead])
    BY <1>5
  <2>2. \A u, v \in Pipelines : u # v /\ work'[u].pc # "off" /\ work'[v].lead = work'[u].lead
          => table'[work'[u].lead].raced
    BY <1>6
  <2> QED BY <1>4, <2>1, <2>2 DEF PipeInv, GoodRow, Knows, Scores
<1> QED BY <1>3, <1>7

\* A row that is scored, and never shared, is final.
Final ==
  \A j \in 1..Len(table) : ~table'[j].raced /\ table[j].status = "scored" => table'[j] = table[j]

RowsInv ==
  /\ TableTyped /\ DistinctRows(table) /\ Covered(table, offered)
  /\ WorkTyped /\ PipeInv

\* What every step on the table keeps.
Follows == Extended /\ Final /\ RowsInv'

\* A step of one execution on one row.
LEMMA RowStep ==
  ASSUME RowsInv, NEW w \in Pipelines, NEW i \in 1..Len(table),
         NEW r, Revised(i, r), NEW x \in WorkType, work' = [work EXCEPT ![w] = x],
         x.pc = "off" => x = Off, x.pc # "off" => x.lead = i,
         GoodRow(r), x.pc # "off" => Knows(x, r), ~r.raced => table[i].status # "scored",
         \A v \in Pipelines \ {w} : work[v].lead = i => r.raced,
         UNCHANGED <<market, clock, offered>>
  PROVE  Follows
<1>1. /\ Extended /\ Len(table') = Len(table) /\ table'[i] = r
      /\ \A j \in 1..Len(table) : j # i => table'[j] = table[j]
  BY RevisedRows DEF RowsInv
<1>2. ASSUME NEW v \in Pipelines \ {w}, work[v].lead = i PROVE Knows(work[v], r)
  <2>1. work[v].pc # "off"
    BY <1>2 DEF RowsInv, WorkTyped, Off
  <2>2. Knows(work[v], table[i])
    BY <1>2, <2>1 DEF RowsInv, PipeInv
  <2> QED BY <1>2, <2>2 DEF Knows, Scores, Revised
<1>3. WorkTyped' /\ PipeInv'
  BY <1>2, PipeKept DEF RowsInv
<1>4. TableTyped'
  BY <1>1 DEF RowsInv, TableTyped, Extended
<1>5. \A j \in 1..Len(table') : table'[j].lead = table[j].lead
  BY <1>1 DEF Extended
<1>6. DistinctRows(table') /\ Covered(table', offered')
  BY <1>1, <1>5 DEF RowsInv, DistinctRows, Covered, SourceKey
<1>7. Final
  BY <1>1 DEF Final
<1> QED BY <1>1, <1>3, <1>4, <1>6, <1>7 DEF Follows, RowsInv

\* What an execution under way finds.
LEMMA AtWork ==
  ASSUME RowsInv, NEW w \in Pipelines, work[w].pc # "off"
  PROVE  /\ work[w] \in WorkType /\ work[w].lead \in 1..Len(table)
         /\ table[work[w].lead] \in RowType /\ GoodRow(table[work[w].lead])
         /\ Knows(work[w], table[work[w].lead])
         /\ \A v \in Pipelines \ {w} : work[v].lead = work[w].lead => table[work[w].lead].raced
<1>1. work[w] \in WorkType /\ work[w].lead \in 1..Len(table)
  BY DEF RowsInv, WorkTyped
<1>2. table[work[w].lead] \in RowType
  BY <1>1, ElementOfSeq DEF RowsInv, TableTyped
<1> QED BY <1>1, <1>2 DEF RowsInv, PipeInv

\* An execution that is over.
LEMMA OffTyped == Off \in WorkType /\ Off.pc = "off" /\ Off.lead = 0
<1>1. 0 \in Points
  BY DEF Points
<1> QED BY <1>1 DEF Off, WorkType

\* What each step of an execution keeps: the guard,
LEMMA CheckKeeps ==
  ASSUME RowsInv, NEW w \in Pipelines, NEW i \in DOMAIN table, Check(w, i)
  PROVE  Follows
<1>1. /\ i \in 1..Len(table) /\ table[i] \in RowType /\ GoodRow(table[i]) /\ Len(table) \in Nat
      /\ table[i].status # "scored" /\ work \in [Pipelines -> WorkType]
  BY ElementOfSeq, LenProperties DEF RowsInv, TableTyped, WorkTyped, PipeInv, Check
<1> DEFINE b == table[i].raced \/ \E v \in Pipelines : work[v].lead = i
           r == [table[i] EXCEPT !.raced = b]
           x1 == [Off EXCEPT !.pc = "claim"]
           x == [x1 EXCEPT !.lead = i]
<1>2. table' = [table EXCEPT ![i] = r] /\ work' = [work EXCEPT ![w] = x]
  BY <1>1 DEF Check
<1>3. b \in BOOLEAN /\ (table[i].raced => b) /\ \A v \in Pipelines : work[v].lead = i => b
  BY <1>1 DEF RowType
<1> HIDE DEF b
<1>4. /\ r \in RowType /\ r.lead = table[i].lead /\ r.batch = table[i].batch
      /\ r.fetched_at = table[i].fetched_at /\ r.status = table[i].status /\ r.score = table[i].score
      /\ r.enrichment = table[i].enrichment /\ r.raced = b
  BY <1>1, <1>3 DEF RowType
<1> HIDE DEF r
<1>5. x1 \in WorkType /\ x1.pc = "claim"
  BY OffTyped DEF WorkType
<1> HIDE DEF x1
<1>6. x \in WorkType /\ x.pc = "claim" /\ x.lead = i
  BY <1>1, <1>5 DEF WorkType
<1> HIDE DEF x
<1>7. Revised(i, r) /\ GoodRow(r) /\ Knows(x, r)
  BY <1>1, <1>2, <1>3, <1>4, <1>6 DEF Revised, GoodRow, Knows
<1>8. UNCHANGED <<market, clock, offered>>
  BY DEF Check
<1>9. /\ \A v \in Pipelines \ {w} : work[v].lead = i => r.raced
      /\ x.pc # "off" /\ (~r.raced => table[i].status # "scored")
  BY <1>1, <1>3, <1>4, <1>6
<1> QED BY <1>1, <1>2, <1>4, <1>6, <1>7, <1>8, <1>9, RowStep

\* the claim,
LEMMA ClaimKeeps ==
  ASSUME RowsInv, NEW w \in Pipelines, Claim(w)
  PROVE  Follows
<1> DEFINE i == work[w].lead
           r == [table[i] EXCEPT !.status = "enriching"]
           x == [work[w] EXCEPT !.pc = "classify"]
<1>1. /\ work[w] \in WorkType /\ i \in 1..Len(table) /\ table[i] \in RowType /\ GoodRow(table[i])
      /\ Knows(work[w], table[i]) /\ work[w].pc = "claim"
      /\ \A v \in Pipelines \ {w} : work[v].lead = i => table[i].raced
  BY AtWork DEF Claim
<1>2. table' = [table EXCEPT ![i] = r] /\ work' = [work EXCEPT ![w] = x]
  BY DEF Claim
<1>3. /\ r \in RowType /\ r.lead = table[i].lead /\ r.batch = table[i].batch
      /\ r.fetched_at = table[i].fetched_at /\ r.status = "enriching" /\ r.score = table[i].score
      /\ r.raced = table[i].raced
  BY <1>1 DEF RowType, Statuses
<1>4. x \in WorkType /\ x.pc = "classify" /\ x.lead = i
  BY <1>1 DEF WorkType
<1>5. UNCHANGED <<market, clock, offered>>
  BY DEF Claim
<1> HIDE DEF r, x
<1>6. Revised(i, r) /\ GoodRow(r) /\ Knows(x, r) /\ (~r.raced => table[i].status # "scored")
  BY <1>1, <1>2, <1>3, <1>4 DEF Revised, GoodRow, Knows
<1> HIDE DEF i
<1> QED BY <1>1, <1>2, <1>3, <1>4, <1>5, <1>6, RowStep

\* the pause,
LEMMA PauseKeeps ==
  ASSUME RowsInv, NEW w \in Pipelines, Pause(w)
  PROVE  Follows
<1> DEFINE i == work[w].lead
           r == [table[i] EXCEPT !.status = "budget_paused"]
<1>1. /\ i \in 1..Len(table) /\ table[i] \in RowType /\ GoodRow(table[i])
      /\ Knows(work[w], table[i])
      /\ \A v \in Pipelines \ {w} : work[v].lead = i => table[i].raced
  BY AtWork DEF Pause
<1>2. table' = [table EXCEPT ![i] = r] /\ work' = [work EXCEPT ![w] = Off]
  BY DEF Pause
<1>3. /\ r \in RowType /\ r.lead = table[i].lead /\ r.batch = table[i].batch
      /\ r.fetched_at = table[i].fetched_at /\ r.status = "budget_paused" /\ r.score = table[i].score
      /\ r.raced = table[i].raced
  BY <1>1 DEF RowType, Statuses
<1>5. UNCHANGED <<market, clock, offered>>
  BY DEF Pause
<1> HIDE DEF r
<1>6. Revised(i, r) /\ GoodRow(r) /\ (~r.raced => table[i].status # "scored")
  BY <1>1, <1>2, <1>3 DEF Revised, GoodRow, Knows
<1> HIDE DEF i
<1> QED BY <1>1, <1>2, <1>3, <1>5, <1>6, OffTyped, RowStep

\* A step that leaves the row as it is.
LEMMA SameRow ==
  ASSUME RowsInv, NEW i \in 1..Len(table), table' = table
  PROVE  Revised(i, table[i])
<1>1. table[i] \in RowType /\ table = [table EXCEPT ![i] = table[i]]
  BY ElementOfSeq, LenProperties DEF RowsInv, TableTyped
<1> QED BY <1>1 DEF Revised

\* A step of an execution that leaves its row alone.
LEMMA SameRowStep ==
  ASSUME RowsInv, NEW w \in Pipelines, work[w].pc # "off",
         NEW x \in WorkType, work' = [work EXCEPT ![w] = x],
         x.pc = "off" => x = Off, x.pc # "off" => x.lead = work[w].lead,
         x.pc # "off" => Knows(x, table[work[w].lead]),
         UNCHANGED <<market, clock, table, offered>>
  PROVE  Follows
<1> DEFINE i == work[w].lead
           r == table[i]
<1>1. /\ i \in 1..Len(table) /\ GoodRow(r) /\ Knows(work[w], r)
      /\ \A v \in Pipelines \ {w} : work[v].lead = i => r.raced
  BY AtWork
<1>2. Revised(i, r)
  BY <1>1, SameRow
<1>3. ~r.raced => r.status # "scored"
  BY <1>1 DEF Knows
<1>4. r = table[i] /\ (x.pc # "off" => x.lead = i /\ Knows(x, r))
  OBVIOUS
<1> HIDE DEF i, r
<1> QED BY <1>1, <1>2, <1>3, <1>4, RowStep

\* the answer,
LEMMA ClassifiedKeeps ==
  ASSUME RowsInv, NEW w \in Pipelines, Classified(w)
  PROVE  Follows
<1> DEFINE i == work[w].lead
<1>1. /\ work[w] \in WorkType /\ i \in 1..Len(table) /\ table[i] \in RowType /\ GoodRow(table[i])
      /\ Knows(work[w], table[i])
      /\ \A v \in Pipelines \ {w} : work[v].lead = i => table[i].raced
  BY AtWork DEF Classified
<1>2. PICK a \in Answers :
        work' = [work EXCEPT ![w].pc = "upsert", ![w].answer = {a},
                  ![w].score = FinalScore(a, table[i].lead.posted_at, clock, Skills)]
  BY DEF Classified
<1> DEFINE hour == table[i].lead.posted_at
           f == FinalScore(a, hour, clock, Skills)
<1>3. clock \in StartHour..EndHour /\ work \in [Pipelines -> WorkType] /\ hour \in Int
  <2> DEFINE y == table[i].lead
  <2>1. y \in LeadSet
    BY <1>1 DEF RowType
  <2>2. hour \in Int
    <3> HIDE DEF y
    <3>1. y.posted_at \in Int
      BY <2>1 DEF LeadSet, GoodLead
    <3> QED BY <3>1 DEF y
  <2> QED BY <2>2 DEF RowsInv, TableTyped, WorkTyped
<1>4. f \in Points
  <2> HIDE DEF hour
  <2> QED BY <1>3, ScoreBounds
<1> DEFINE x1 == [work[w] EXCEPT !.pc = "upsert"]
           x2 == [x1 EXCEPT !.answer = {a}]
           x == [x2 EXCEPT !.score = f]
<1>5. work' = [work EXCEPT ![w] = x]
  BY <1>2, <1>3
<1>6. Scores({a}, {f}, table[i].lead)
  BY <1>3 DEF Scores
<1> HIDE DEF f
<1>7. x1 \in WorkType /\ x1.pc = "upsert" /\ x1.lead = i
  BY <1>1 DEF WorkType
<1> HIDE DEF x1
<1>8. x2 \in WorkType /\ x2.pc = "upsert" /\ x2.lead = i /\ x2.answer = {a}
  BY <1>7 DEF WorkType
<1> HIDE DEF x2
<1>9. x \in WorkType /\ x.pc = "upsert" /\ x.lead = i /\ x.answer = {a} /\ x.score = f
  BY <1>4, <1>8 DEF WorkType
<1> HIDE DEF x
<1>10. UNCHANGED <<market, clock, table, offered>>
  BY DEF Classified
<1>11. Knows(x, table[i])
  BY <1>1, <1>6, <1>9 DEF Knows
<1>12. work[w].pc # "off" /\ x.pc # "off" /\ x.lead = work[w].lead /\ Knows(x, table[work[w].lead])
  BY <1>9, <1>11 DEF Classified
<1> HIDE DEF i
<1> QED BY <1>5, <1>9, <1>10, <1>12, SameRowStep

\* the first transaction of the persist stage,
LEMMA UpsertEnrichmentKeeps ==
  ASSUME RowsInv, NEW w \in Pipelines, UpsertEnrichment(w)
  PROVE  Follows
<1> DEFINE i == work[w].lead
           r == [table[i] EXCEPT !.enrichment = work[w].answer]
           x == [work[w] EXCEPT !.pc = "score"]
<1>1. /\ work[w] \in WorkType /\ i \in 1..Len(table) /\ table[i] \in RowType /\ GoodRow(table[i])
      /\ Knows(work[w], table[i]) /\ work[w].pc = "upsert"
      /\ \A v \in Pipelines \ {w} : work[v].lead = i => table[i].raced
  BY AtWork DEF UpsertEnrichment
<1>2. table' = [table EXCEPT ![i] = r] /\ work' = [work EXCEPT ![w] = x]
  BY DEF UpsertEnrichment
<1>3. /\ r \in RowType /\ r.lead = table[i].lead /\ r.batch = table[i].batch
      /\ r.fetched_at = table[i].fetched_at /\ r.status = table[i].status /\ r.score = table[i].score
      /\ r.raced = table[i].raced /\ r.enrichment = work[w].answer
  BY <1>1 DEF RowType, WorkType
<1>4. /\ x \in WorkType /\ x.pc = "score" /\ x.lead = i /\ x.answer = work[w].answer
      /\ x.score = work[w].score
  BY <1>1 DEF WorkType
<1>5. UNCHANGED <<market, clock, offered>>
  BY DEF UpsertEnrichment
<1> HIDE DEF r, x
<1>6. Revised(i, r) /\ GoodRow(r) /\ Knows(x, r) /\ (~r.raced => table[i].status # "scored")
  BY <1>1, <1>2, <1>3, <1>4 DEF Revised, GoodRow, Knows
<1> HIDE DEF i
<1> QED BY <1>1, <1>2, <1>3, <1>4, <1>5, <1>6, RowStep

\* the second one,
LEMMA UpdateScoresKeeps ==
  ASSUME RowsInv, NEW w \in Pipelines, UpdateScores(w)
  PROVE  Follows
<1> DEFINE i == work[w].lead
           s == {work[w].score}
           r1 == [table[i] EXCEPT !.score = s]
           r == [r1 EXCEPT !.status = "scored"]
<1>1. /\ work[w] \in WorkType /\ i \in 1..Len(table) /\ table[i] \in RowType /\ GoodRow(table[i])
      /\ Knows(work[w], table[i]) /\ work[w].pc = "score"
      /\ \A v \in Pipelines \ {w} : work[v].lead = i => table[i].raced
  BY AtWork DEF UpdateScores
<1>2. table' = [table EXCEPT ![i] = r] /\ work' = [work EXCEPT ![w] = Off]
  <2>1. table' = [table EXCEPT ![i].score = s, ![i].status = "scored"]
    BY DEF UpdateScores
  <2>2. table \in Seq(RowType)
    BY DEF RowsInv, TableTyped
  <2> QED BY <1>1, <2>1, <2>2 DEF UpdateScores
<1>3. s \in SUBSET Points /\ s # {}
  BY <1>1 DEF WorkType
<1>4. Scores(work[w].answer, s, table[i].lead) /\ (~table[i].raced => table[i].enrichment = work[w].answer)
  BY <1>1 DEF Knows
<1> HIDE DEF s
<1>5. /\ r1 \in RowType /\ r1.lead = table[i].lead /\ r1.batch = table[i].batch
      /\ r1.fetched_at = table[i].fetched_at /\ r1.score = s
      /\ r1.raced = table[i].raced /\ r1.enrichment = table[i].enrichment
  BY <1>1, <1>3 DEF RowType
<1> HIDE DEF r1
<1>6. /\ r \in RowType /\ r.lead = table[i].lead /\ r.batch = table[i].batch
      /\ r.fetched_at = table[i].fetched_at /\ r.score = s /\ r.status = "scored"
      /\ r.raced = table[i].raced /\ r.enrichment = table[i].enrichment
  BY <1>5 DEF RowType, Statuses
<1>7. UNCHANGED <<market, clock, offered>>
  BY DEF UpdateScores
<1> HIDE DEF r
<1>8. Revised(i, r) /\ GoodRow(r) /\ (~r.raced => table[i].status # "scored")
  BY <1>1, <1>2, <1>3, <1>4, <1>6 DEF Revised, GoodRow, Knows
<1>9. i \in 1..Len(table) /\ \A v \in Pipelines \ {w} : work[v].lead = i => r.raced
  BY <1>1, <1>6
<1> HIDE DEF i
<1> QED BY <1>2, <1>7, <1>8, <1>9, OffTyped, RowStep

\* and the end of an execution that breaks off.
LEMMA BreakKeeps ==
  ASSUME RowsInv, NEW w \in Pipelines, Break(w)
  PROVE  Follows
<1>1. work[w].pc # "off"
  BY DEF Break, RowsInv, WorkTyped
<1>2. work' = [work EXCEPT ![w] = Off] /\ UNCHANGED <<market, clock, table, offered>>
  BY DEF Break
<1> QED BY <1>1, <1>2, OffTyped, SameRowStep

\* A scrape that stores its batch.
LEMMA ScrapeKeeps ==
  ASSUME RowsInv, Scrape
  PROVE  Follows
<1>1. PICK S \in SUBSET market.posts : \E posts \in SetToSeqs(S), q \in market.requests :
        StoreBatch(posts, q)
  BY DEF Scrape
<1>a. PICK posts \in SetToSeqs(S), q \in market.requests : StoreBatch(posts, q)
  BY <1>1
<1>2. Appended /\ TableTyped' /\ DistinctRows(table') /\ Covered(table', offered')
  BY <1>a, StoreRows DEF RowsInv
<1>3. Extended
  BY <1>2 DEF Appended, Extended
<1>4. Final
  BY <1>2 DEF Appended, Final
<1>5. work' = work /\ Len(table) \in Nat /\ Len(table') \in Nat
  BY <1>a, <1>2, LenProperties DEF StoreBatch, RowsInv, TableTyped
<1>6. WorkTyped'
  BY <1>2, <1>5 DEF RowsInv, WorkTyped, Appended
<1>7. \A i \in 1..Len(table') : GoodRow(table'[i])
  BY <1>2, <1>5 DEF RowsInv, PipeInv, Appended, New, GoodRow
<1>8. \A w \in Pipelines : work[w].pc # "off" => /\ work[w].lead \in 1..Len(table)
                                                 /\ table'[work[w].lead] = table[work[w].lead]
  BY <1>2 DEF RowsInv, WorkTyped, Appended
<1>9. PipeInv'
  <2>1. \A w \in Pipelines : work'[w].pc # "off" => Knows(work'[w], table'[work'[w].lead])
    BY <1>5, <1>8 DEF RowsInv, PipeInv
  <2>2. \A v, w \in Pipelines : v # w /\ work'[v].pc # "off" /\ work'[w].lead = work'[v].lead
          => table'[work'[v].lead].raced
    BY <1>5, <1>8 DEF RowsInv, PipeInv
  <2> QED BY <1>7, <2>1, <2>2 DEF PipeInv, GoodRow, Knows, Scores
<1> QED BY <1>2, <1>3, <1>4, <1>6, <1>9 DEF Follows, RowsInv

\* A step that stores nothing and leaves the executions alone.
LEMMA StillKeeps ==
  ASSUME RowsInv, UNCHANGED <<market, table, offered, work>>, clock' \in StartHour..EndHour
  PROVE  Follows
<1>1. table \in Seq(RowType) /\ Len(table) \in Nat
  BY LenProperties DEF RowsInv, TableTyped
<1>2. Extended /\ Final
  BY <1>1 DEF Extended, Final
<1>3. TableTyped' /\ WorkTyped'
  BY DEF RowsInv, TableTyped, WorkTyped
<1>4. DistinctRows(table') /\ Covered(table', offered')
  BY DEF RowsInv
<1>5. PipeInv'
  <2>1. \A i \in 1..Len(table') : GoodRow(table'[i])
    BY DEF RowsInv, PipeInv
  <2>2. \A w \in Pipelines : work'[w].pc # "off" => Knows(work'[w], table'[work'[w].lead])
    BY DEF RowsInv, PipeInv
  <2>3. \A v, w \in Pipelines : v # w /\ work'[v].pc # "off" /\ work'[w].lead = work'[v].lead
          => table'[work'[v].lead].raced
    BY DEF RowsInv, PipeInv
  <2> QED BY <2>1, <2>2, <2>3 DEF PipeInv, GoodRow, Knows, Scores
<1> QED BY <1>2, <1>3, <1>4, <1>5 DEF Follows, RowsInv

\* A step of a reader, or of nobody.
LEMMA ReaderStep ==
  ASSUME RowsInv,
         AskStats \/ ReadStats \/ AskDetail \/ ReadDetail \/ AskPages \/ CountMatching
           \/ ReadPage \/ Dismiss \/ UNCHANGED deskVars
  PROVE  UNCHANGED <<market, clock, table, offered, work>> /\ Follows
<1>1. UNCHANGED <<market, clock, table, offered, work>>
  BY DEF AskStats, ReadStats, AskDetail, ReadDetail, AskPages, CountMatching, ReadPage, Dismiss,
         Reading, deskVars
<1>2. clock' \in StartHour..EndHour
  BY <1>1 DEF RowsInv, TableTyped
<1> QED BY <1>1, <1>2, StillKeeps

LEMMA RowsKept ==
  ASSUME RowsInv, [DeskNext]_deskVars
  PROVE  Follows
<1>1. CASE Scrape
  BY <1>1, ScrapeKeeps
<1>2. CASE Tick
  <2>1. clock' \in StartHour..EndHour
    BY <1>2, ClockAssumption DEF Tick, RowsInv, TableTyped
  <2> QED BY <1>2, <2>1, StillKeeps DEF Tick
<1>3. ASSUME NEW w \in Pipelines, NEW i \in DOMAIN table, Check(w, i) PROVE Follows
  BY <1>3, CheckKeeps
<1>4. ASSUME NEW w \in Pipelines,
             Claim(w) \/ Pause(w) \/ Classified(w) \/ UpsertEnrichment(w) \/ UpdateScores(w) \/ Break(w)
      PROVE  Follows
  BY <1>4, ClaimKeeps, PauseKeeps, ClassifiedKeeps, UpsertEnrichmentKeeps, UpdateScoresKeeps, BreakKeeps
<1>5. CASE AskStats \/ ReadStats \/ AskDetail \/ ReadDetail \/ AskPages \/ CountMatching
             \/ ReadPage \/ Dismiss \/ UNCHANGED deskVars
  BY <1>5, ReaderStep
<1> QED BY <1>1, <1>2, <1>3, <1>4, <1>5 DEF DeskNext

LEMMA RowsBegin ==
  ASSUME DeskInit
  PROVE  RowsInv
<1>1. table = <<>> /\ offered = {} /\ market \in Markets /\ clock \in StartHour..EndHour
  BY ClockAssumption DEF DeskInit
<1>2. <<>> \in Seq(RowType)
  OBVIOUS
<1>3. Len(table) = 0
  BY <1>1
<1>4. TableTyped /\ DistinctRows(table) /\ Covered(table, offered)
  BY <1>1, <1>2, <1>3 DEF TableTyped, DistinctRows, Covered
<1>5. work \in [Pipelines -> WorkType] /\ \A w \in Pipelines : work[w] = Off
  BY OffTyped DEF DeskInit
<1>6. WorkTyped /\ PipeInv
  BY <1>3, <1>5, OffTyped DEF WorkTyped, PipeInv
<1> QED BY <1>4, <1>6 DEF RowsInv

LEMMA RowsCorrect == DeskSpec => []RowsInv
<1>1. DeskInit => RowsInv
  BY RowsBegin
<1>2. RowsInv /\ [DeskNext]_deskVars => RowsInv'
  BY RowsKept DEF Follows
<1> QED BY <1>1, <1>2, PTL DEF DeskSpec

-----------------------------------------------------------------------------
(* What the table tells.                                                   *)

\* A variable keeps its type, and no two rows share a hash or a source key:
\* what the unique constraints of raw_leads promise, for every batch.
THEOREM DeskTypeCorrect == DeskSpec => []DeskTypeOK
<1>1. ASSUME RowsInv PROVE DeskTypeOK
  <2>1. /\ market \in Markets /\ clock \in StartHour..EndHour /\ table \in Seq(RowType)
        /\ DOMAIN table = 1..Len(table)
    BY <1>1, LenProperties DEF RowsInv, TableTyped
  <2>2. ASSUME NEW i \in DOMAIN table
        PROVE  /\ table[i].lead.signal.type \in SignalTypes
               /\ table[i].lead.signal.strength \in 0..100
               /\ table[i].status \in {"new", "enriching", "budget_paused", "scored"}
               /\ table[i].status = "scored" => table[i].score # {}
    <3>1. table[i] \in RowType /\ GoodRow(table[i])
      BY <1>1, <2>1, ElementOfSeq DEF RowsInv, PipeInv
    <3>2. table[i].lead \in LeadSet
      BY <3>1 DEF RowType
    <3>3. GoodLead(table[i].lead)
      BY <3>2 DEF LeadSet
    <3>4. table[i].status \in Statuses
      BY <3>1 DEF RowType
    <3> QED BY <3>1, <3>3, <3>4 DEF GoodLead, GoodRow, Statuses
  <2>3. ASSUME NEW i \in DOMAIN table, NEW j \in DOMAIN table \ {i}
        PROVE  /\ Identity(table[j].lead) # Identity(table[i].lead)
               /\ SourceKey(table[j]) # SourceKey(table[i])
    BY <1>1, <2>1 DEF RowsInv, DistinctRows
  <2> QED BY <2>1, <2>2, <2>3 DEF DeskTypeOK
<1> QED BY <1>1, RowsCorrect, PTL

\* A skip never shows more than 15 points, unless two executions overlapped.
THEOREM SkipCorrect == DeskSpec => []SkipStaysLow
<1>1. ASSUME RowsInv, NEW r \in ToSet(table), NEW a \in r.enrichment, NEW s \in r.score
      PROVE  s \in Points /\ (a.skip /\ ~r.raced => s <= 1500)
  <2>1. PICK i \in 1..Len(table) : r = table[i]
    BY <1>1, LenProperties DEF RowsInv, TableTyped, ToSet
  <2>2. r \in RowType /\ GoodRow(r)
    BY <1>1, <2>1, ElementOfSeq DEF RowsInv, TableTyped, PipeInv
  <2>3. s \in Points
    BY <2>2 DEF RowType
  <2>4. ASSUME a.skip, ~r.raced PROVE s <= 1500
    <3>1. Scores(r.enrichment, r.score, r.lead)
      BY <2>2, <2>4 DEF GoodRow
    <3>2. r.lead \in LeadSet
      BY <2>2 DEF RowType
    <3> QED BY <2>4, <3>1, <3>2, ScoresTyped
  <2> QED BY <2>3, <2>4
<1>2. RowsInv => SkipStaysLow
  BY <1>1 DEF SkipStaysLow
<1> QED BY <1>2, RowsCorrect, PTL

\* Nothing is taken for a duplicate of a lead it does not share its
\* company, its person or its url with.
THEOREM DuplicateCorrect == DeskSpec => []DuplicateIsReal
<1>1. ASSUME RowsInv, NEW x \in offered
      PROVE  \E r \in ToSet(table) : LET y == r.lead
    IN \/ /\ x.signal.type = y.signal.type
          /\ x.posted_at = Undated <=> y.posted_at = Undated
          /\ x.posted_at # Undated => x.posted_at \div 24 = y.posted_at \div 24
          /\ \/ x.company_domain # <<>> /\ x.company_domain = y.company_domain
             \/ /\ x.company_domain = y.company_domain
                /\ x.person_name # <<>> /\ x.person_name = y.person_name
       \/ x.url = y.url /\ <<>> = x.company_domain /\ <<>> = x.person_name
  <2>1. PICK i \in 1..Len(table) : Identity(table[i].lead) = Identity(x)
    BY <1>1 DEF RowsInv, Covered
  <2>2. table[i] \in ToSet(table) /\ table[i] \in RowType
    BY <1>1, LenProperties, ElementOfSeq DEF RowsInv, TableTyped, ToSet
  <2>3. table[i].lead \in LeadSet /\ x \in LeadSet
    BY <1>1, <2>2 DEF RowType, RowsInv, TableTyped
  <2> DEFINE y == table[i].lead
  <2>4. Dated(x) /\ Dated(y)
    BY <2>3 DEF LeadSet, GoodLead
  <2> HIDE DEF y
  <2> QED BY <2>1, <2>2, <2>4, SameHashSameLead DEF y
<1>2. RowsInv => DuplicateIsReal
  BY <1>1 DEF DuplicateIsReal
<1> QED BY <1>2, RowsCorrect, PTL

-----------------------------------------------------------------------------
(* The reader.                                                             *)

Reader ==
  \/ AskStats \/ ReadStats \/ AskDetail \/ ReadDetail
  \/ AskPages \/ CountMatching \/ ReadPage \/ Dismiss

\* A step is the reader's, or leaves it alone.
LEMMA ReaderOrNot ==
  ASSUME [DeskNext]_deskVars
  PROVE  Reader \/ ask' = ask
BY DEF DeskNext, deskVars, Reader, Scrape, StoreBatch, Tick, Check, Claim, Pause, Classified,
       UpsertEnrichment, UpdateScores, Break

\* A row of the table.
LEMMA RowOf ==
  ASSUME RowsInv
  PROVE  /\ Len(table) \in Nat /\ DOMAIN table = 1..Len(table)
         /\ \A i \in 1..Len(table) :
              /\ table[i] \in RowType /\ GoodRow(table[i]) /\ GoodLead(table[i].lead)
              /\ table[i].batch \in Nat /\ table[i].status \in Statuses
              /\ table[i].score \in SUBSET Points /\ table[i].enrichment \in SUBSET Answers
<1>1. Len(table) \in Nat /\ DOMAIN table = 1..Len(table)
  BY LenProperties DEF RowsInv, TableTyped
<1>2. ASSUME NEW i \in 1..Len(table) PROVE table[i] \in RowType
  BY ElementOfSeq DEF RowsInv, TableTyped
<1>3. ASSUME NEW i \in 1..Len(table)
      PROVE  /\ table[i].lead \in LeadSet /\ table[i].batch \in Nat /\ table[i].status \in Statuses
             /\ table[i].score \in SUBSET Points /\ table[i].enrichment \in SUBSET Answers
  BY <1>2 DEF RowType
<1>4. ASSUME NEW i \in 1..Len(table) PROVE GoodRow(table[i])
  BY DEF RowsInv, PipeInv
<1>5. ASSUME NEW i \in 1..Len(table) PROVE GoodLead(table[i].lead)
  BY <1>3 DEF LeadSet
<1> QED BY <1>1, <1>2, <1>3, <1>4, <1>5

\* A count of the statistics: of all rows but the last.
LEMMA CountsNow ==
  ASSUME RowsInv, NEW n \in 1..5
  PROVE  /\ CountNow(n) \in Nat /\ CountNow(n) <= Len(table)
         /\ n # 5 => CountNow(n) = Len(table)
<1>1. /\ Len(table) \in Nat /\ DOMAIN table = 1..Len(table)
      /\ \A i \in 1..Len(table) : table[i].lead.signal.type \in SignalTypes
  BY RowOf DEF GoodLead
<1>2. WithSignal = 1..Len(table)
  BY <1>1 DEF WithSignal
<1>3. Cardinality(WithSignal) = Len(table)
  BY <1>1, <1>2, FS_Interval
<1>4. LastDay \in SUBSET (1..Len(table))
  BY <1>1 DEF LastDay
<1>5. Cardinality(LastDay) \in Nat /\ Cardinality(LastDay) <= Len(table)
  BY <1>1, <1>4, Positions
<1> QED BY <1>1, <1>3, <1>5 DEF CountNow

\* What a list holds.
LEMMA Listed ==
  ASSUME RowsInv, NEW q, NEW s \in Listings(q)
  PROVE  /\ Matching(q.source) \subseteq 1..Len(table) /\ IsFiniteSet(Matching(q.source))
         /\ s \in SetToSeqs(Matching(q.source))
         /\ Len(s) \in Nat /\ Len(s) = Cardinality(Matching(q.source)) /\ DOMAIN s = 1..Len(s)
         /\ \A n \in DOMAIN s : s[n] \in Matching(q.source)
<1>1. Matching(q.source) \subseteq 1..Len(table) /\ Len(table) \in Nat
  BY RowOf DEF Matching
<1>2. IsFiniteSet(Matching(q.source))
  BY <1>1, Positions
<1>3. s \in SetToSeqs(Matching(q.source))
  BY DEF Listings
<1> QED BY <1>1, <1>2, <1>3, Orders

\* What CountMatching counts.
LEMMA MatchingCount ==
  ASSUME RowsInv, NEW source
  PROVE  Cardinality(Matching(source)) \in Nat
<1>1. Matching(source) \subseteq 1..Len(table) /\ Len(table) \in Nat
  BY RowOf DEF Matching
<1> QED BY <1>1, Positions

\* The kind of what is asked tells its fields.
LEMMA Kinds ==
  ASSUME AskTyped
  PROVE  /\ ask.kind = "stats" => ask \in StatsType
         /\ ask.kind = "detail" => ask \in DetailType
         /\ ask.kind = "pages" => ask \in PagesType
BY DEF AskTyped, Quiet, StatsType, DetailType, PagesType

\* What a page of the list does to the reader.
LEMMA PageTaken ==
  ASSUME RowsInv, AskTyped, ReadPage
  PROVE  \E total \in ask.total, s \in Listings(ask) :
           /\ ask' \in PagesType /\ ask'.kind = "pages" /\ total \in Nat
           /\ ask'.size = ask.size /\ ask'.sort_by = ask.sort_by /\ ask'.sort_order = ask.sort_order
           /\ ask'.source = ask.source /\ ask'.old = ask.old
           /\ ask'.seen = ask.seen \cup Window(s, Offset(ask.page, ask.size), ask.size)
           /\ ask'.done = (ask.page >= TotalPages(total, ask.size))
           /\ ask'.page = (IF ask'.done THEN ask.page ELSE ask.page + 1)
           /\ ask'.stale = (Len(s) # total) /\ ask'.total = {}
<1>1. ask \in PagesType
  BY Kinds DEF ReadPage
<1>2. PICK total \in ask.total, s \in Listings(ask) :
        LET last == ask.page >= TotalPages(total, ask.size)
        IN ask' = [ask EXCEPT !.seen = @ \cup Window(s, Offset(ask.page, ask.size), ask.size),
                              !.page = IF last THEN @ ELSE @ + 1,
                              !.total = {}, !.stale = Len(s) # total, !.done = last]
  BY DEF ReadPage
<1> DEFINE last == ask.page >= TotalPages(total, ask.size)
           win == Window(s, Offset(ask.page, ask.size), ask.size)
           off == Len(s) # total
           next == IF last THEN ask.page ELSE ask.page + 1
           x1 == [ask EXCEPT !.seen = @ \cup win]
           x2 == [x1 EXCEPT !.page = next]
           x3 == [x2 EXCEPT !.total = {}]
           x4 == [x3 EXCEPT !.stale = off]
           x == [x4 EXCEPT !.done = last]
<1>3. ask' = x
  BY <1>1, <1>2 DEF PagesType
<1>4. total \in Nat /\ last \in BOOLEAN /\ off \in BOOLEAN
  BY <1>1 DEF PagesType
<1>5. win \in SUBSET Nat
  <2>1. /\ \A n \in DOMAIN s : s[n] \in Matching(ask.source)
        /\ Matching(ask.source) \subseteq 1..Len(table)
    BY Listed
  <2>2. \A n \in DOMAIN s : s[n] \in Nat
    BY <2>1
  <2> QED BY <2>2 DEF Window
<1>6. next \in Nat \ {0}
  BY <1>1 DEF PagesType
<1>7. next = IF last THEN ask.page ELSE ask.page + 1
  OBVIOUS
<1>8. last = (ask.page >= TotalPages(total, ask.size))
  OBVIOUS
<1>9. win = Window(s, Offset(ask.page, ask.size), ask.size) /\ off = (Len(s) # total)
  OBVIOUS
<1> HIDE DEF win, off, next, last
<1>10. /\ x1 \in PagesType /\ x1.seen = ask.seen \cup win /\ x1.kind = "pages"
       /\ x1.size = ask.size /\ x1.sort_by = ask.sort_by /\ x1.sort_order = ask.sort_order
       /\ x1.source = ask.source /\ x1.old = ask.old
  BY <1>1, <1>5 DEF PagesType
<1> HIDE DEF x1
<1>11. /\ x2 \in PagesType /\ x2.seen = x1.seen /\ x2.page = next /\ x2.kind = "pages"
       /\ x2.size = x1.size /\ x2.sort_by = x1.sort_by /\ x2.sort_order = x1.sort_order
       /\ x2.source = x1.source /\ x2.old = x1.old
  BY <1>6, <1>10 DEF PagesType
<1> HIDE DEF x2
<1>12. /\ x3 \in PagesType /\ x3.seen = x2.seen /\ x3.page = next /\ x3.kind = "pages" /\ x3.total = {}
       /\ x3.size = x2.size /\ x3.sort_by = x2.sort_by /\ x3.sort_order = x2.sort_order
       /\ x3.source = x2.source /\ x3.old = x2.old
  BY <1>11 DEF PagesType
<1> HIDE DEF x3
<1>13. /\ x4 \in PagesType /\ x4.seen = x3.seen /\ x4.page = next /\ x4.kind = "pages" /\ x4.total = {}
       /\ x4.size = x3.size /\ x4.sort_by = x3.sort_by /\ x4.sort_order = x3.sort_order
       /\ x4.source = x3.source /\ x4.old = x3.old /\ x4.stale = off
  BY <1>4, <1>12 DEF PagesType
<1> HIDE DEF x4
<1>14. /\ x \in PagesType /\ x.seen = x4.seen /\ x.page = next /\ x.kind = "pages" /\ x.total = {}
       /\ x.size = x4.size /\ x.sort_by = x4.sort_by /\ x.sort_order = x4.sort_order
       /\ x.source = x4.source /\ x.old = x4.old /\ x.stale = off /\ x.done = last
  BY <1>4, <1>13 DEF PagesType
<1> HIDE DEF x
<1>15. /\ ask' \in PagesType /\ ask'.kind = "pages" /\ total \in Nat
       /\ ask'.size = ask.size /\ ask'.sort_by = ask.sort_by /\ ask'.sort_order = ask.sort_order
       /\ ask'.source = ask.source /\ ask'.old = ask.old
       /\ ask'.seen = ask.seen \cup Window(s, Offset(ask.page, ask.size), ask.size)
       /\ ask'.total = {}
  BY <1>3, <1>4, <1>9, <1>10, <1>11, <1>12, <1>13, <1>14
<1>16. ask'.done = last /\ ask'.page = next /\ ask'.stale = off
  BY <1>3, <1>14
<1> QED BY <1>2, <1>7, <1>8, <1>9, <1>15, <1>16

\* What a reader finds in a row, and in its enrichment.
DetailLead == ask.kind = "detail" => ask.lead \in 1..Len(table)

LEMMA DetailTaken ==
  ASSUME RowsInv, AskTyped, DetailLead, ReadDetail
  PROVE  /\ ask \in DetailType /\ ask' \in DetailType /\ ask'.lead = ask.lead
         /\ \/ /\ ask.parts = {} /\ ask'.parts = {"row"}
               /\ ask'.status = table[ask.lead].status /\ ask'.score = table[ask.lead].score
            \/ /\ ask.parts = {"row"} /\ ask'.parts = {"row", "enrichment"}
               /\ ask'.status = ask.status /\ ask'.score = ask.score
               /\ ask'.enrichment = table[ask.lead].enrichment
<1> DEFINE r == table[ask.lead]
<1>1. /\ ask \in DetailType /\ r.status \in Statuses /\ r.score \in SUBSET Points
      /\ r.enrichment \in SUBSET Answers
  BY Kinds, RowOf DEF ReadDetail, DetailLead
<1>2. CASE ask.parts = {} /\ ask' = ReadRow
  <2> DEFINE t == r.status
             p == r.score
             k == ask.parts \cup {"row"}
             x1 == [ask EXCEPT !.parts = k]
             x2 == [x1 EXCEPT !.status = t]
             x == [x2 EXCEPT !.score = p]
  <2>1. ask' = x
    BY <1>1, <1>2 DEF ReadRow, DetailType
  <2>2. k = {"row"} /\ t \in Statuses /\ p \in SUBSET Points
    BY <1>1, <1>2
  <2> HIDE DEF k, t, p
  <2>3. x1 \in DetailType /\ x1.parts = {"row"} /\ x1.lead = ask.lead
    BY <1>1, <2>2 DEF DetailType
  <2> HIDE DEF x1
  <2>4. x2 \in DetailType /\ x2.parts = {"row"} /\ x2.lead = ask.lead /\ x2.status = t
    BY <2>2, <2>3 DEF DetailType
  <2> HIDE DEF x2
  <2>5. x \in DetailType /\ x.parts = {"row"} /\ x.lead = ask.lead /\ x.status = t /\ x.score = p
    BY <2>2, <2>4 DEF DetailType
  <2> HIDE DEF x
  <2> QED BY <1>1, <1>2, <2>1, <2>5 DEF t, p
<1>3. CASE ask.parts = {"row"} /\ ask' = ReadEnrichment
  <2> DEFINE e == r.enrichment
             k == ask.parts \cup {"enrichment"}
             x1 == [ask EXCEPT !.parts = k]
             x == [x1 EXCEPT !.enrichment = e]
  <2>1. ask' = x
    BY <1>1, <1>3 DEF ReadEnrichment, DetailType
  <2>2. k = {"row", "enrichment"} /\ e \in SUBSET Answers
    BY <1>1, <1>3
  <2> HIDE DEF k, e
  <2>3. /\ x1 \in DetailType /\ x1.parts = {"row", "enrichment"} /\ x1.lead = ask.lead
        /\ x1.status = ask.status /\ x1.score = ask.score
    BY <1>1, <2>2 DEF DetailType
  <2> HIDE DEF x1
  <2>4. /\ x \in DetailType /\ x.parts = {"row", "enrichment"} /\ x.lead = ask.lead
        /\ x.status = ask.status /\ x.score = ask.score /\ x.enrichment = e
    BY <2>2, <2>3 DEF DetailType
  <2> HIDE DEF x
  <2> QED BY <1>1, <1>3, <2>1, <2>4 DEF e
<1> QED BY <1>2, <1>3 DEF ReadDetail

\* One more number.
LEMMA StatsTaken ==
  ASSUME RowsInv, AskTyped, ReadStats
  PROVE  /\ ask \in StatsType /\ ask' \in StatsType /\ ask.counts \in Seq(Nat)
         /\ \E c \in Nat : /\ ask'.counts = Append(ask.counts, c) /\ c <= Len(table)
                           /\ Len(ask.counts) + 1 < 5 => c = Len(table)
         /\ Len(ask.counts) \in Nat /\ Len(ask.counts) < 5
<1> DEFINE n == Len(ask.counts)
           c == CountNow(n + 1)
           s == Append(ask.counts, c)
<1>1. ask \in StatsType
  BY Kinds DEF ReadStats
<1>2. ask.counts \in Seq(Nat)
  BY <1>1 DEF StatsType
<1>3. n \in Nat /\ n < 5
  BY <1>2, LenProperties DEF ReadStats
<1>4. ask' = [ask EXCEPT !.counts = s]
  BY DEF ReadStats
<1> HIDE DEF n
<1>5. n + 1 \in 1..5
  BY <1>3
<1>6. c \in Nat /\ c <= Len(table) /\ (n + 1 # 5 => c = Len(table))
  BY <1>5, CountsNow
<1> HIDE DEF c
<1>7. s \in Seq(Nat)
  BY <1>2, <1>6
<1> HIDE DEF s
<1>8. ask' \in StatsType /\ ask'.counts = s
  BY <1>1, <1>4, <1>7 DEF StatsType
<1>9. n + 1 < 5 => n + 1 # 5
  BY <1>3
<1> QED BY <1>1, <1>2, <1>3, <1>6, <1>8, <1>9 DEF n, s

\* What is asked next.
LEMMA OtherKinds ==
  ASSUME RowsInv, AskTyped
  PROVE  /\ AskStats => ask'.kind = "stats"
         /\ AskDetail => ask'.kind = "detail"
         /\ AskPages => ask'.kind = "pages"
         /\ CountMatching => ask'.kind = "pages"
         /\ Dismiss => ask'.kind = "none"
<1>1. CountMatching => ask'.kind = "pages"
  <2> SUFFICES ASSUME CountMatching PROVE ask'.kind = "pages"
    OBVIOUS
  <2>1. ask \in PagesType
    BY Kinds DEF CountMatching
  <2>2. ask' = [ask EXCEPT !.total = {Cardinality(Matching(ask.source))}]
    BY DEF CountMatching
  <2> QED BY <2>1, <2>2 DEF PagesType
<1> QED BY <1>1 DEF AskStats, AskDetail, AskPages, Dismiss, Quiet

\* The reader keeps its type.
LEMMA AskKept ==
  ASSUME RowsInv, AskTyped, DetailLead, [DeskNext]_deskVars
  PROVE  AskTyped'
<1>1. CASE ask' = ask
  BY <1>1 DEF AskTyped, StatsType, DetailType, PagesType, Quiet
<1>2. CASE Dismiss
  BY <1>2 DEF Dismiss, AskTyped, Quiet
<1>3. CASE AskStats
  <2>1. <<>> \in Seq(Nat)
    OBVIOUS
  <2>2. ask' \in StatsType
    BY <1>3, <2>1 DEF AskStats, StatsType
  <2> QED BY <2>2 DEF AskTyped, StatsType, DetailType, PagesType, Quiet
<1>4. CASE ReadStats
  <2>1. ask' \in StatsType
    BY <1>4, StatsTaken
  <2> QED BY <2>1 DEF AskTyped, StatsType, DetailType, PagesType, Quiet
<1>5. CASE AskDetail
  <2>1. ask' \in DetailType
    BY <1>5, RowOf DEF AskDetail, DetailType
  <2> QED BY <2>1 DEF AskTyped, StatsType, DetailType, PagesType, Quiet
<1>6. CASE AskPages
  <2>1. PICK q \in market.lists :
         ask' = [kind |-> "pages", size |-> PageSize(q.size), sort_by |-> q.sort_by,
                 sort_order |-> q.sort_order, source |-> q.source, page |-> 1, total |-> {},
                 seen |-> {}, old |-> Len(table), stale |-> FALSE, done |-> FALSE]
    BY <1>6 DEF AskPages
  <2>2. /\ q.size \in Nat \ {0} /\ q \in AllLists
        /\ q.sort_by \in {"fetched_at", "signal_strength", "posted_at", "score"}
    BY MarketAssumption DEF RowsInv, TableTyped, AllLists
  <2>3. PageSize(q.size) \in Nat \ {0} /\ Len(table) \in Nat
    BY <2>2, PageAssumption, RowOf DEF PageSize
  <2>4. ask' \in PagesType
    BY <2>1, <2>2, <2>3 DEF PagesType
  <2> QED BY <2>4 DEF AskTyped, StatsType, DetailType, PagesType, Quiet
<1>7. CASE CountMatching
  <2>1. ask \in PagesType
    BY <1>7, Kinds DEF CountMatching
  <2> DEFINE t == {Cardinality(Matching(ask.source))}
  <2>2. t \in SUBSET Nat
    BY MatchingCount
  <2>3. ask' = [ask EXCEPT !.total = t]
    BY <1>7 DEF CountMatching
  <2> HIDE DEF t
  <2>4. ask' \in PagesType
    BY <2>1, <2>2, <2>3 DEF PagesType
  <2> QED BY <2>4 DEF AskTyped, StatsType, DetailType, PagesType, Quiet
<1>8. CASE ReadPage
  <2>1. ask' \in PagesType
    BY <1>8, PageTaken
  <2> QED BY <2>1 DEF AskTyped, StatsType, DetailType, PagesType, Quiet
<1>9. CASE ReadDetail
  <2>1. ask \in DetailType
    BY <1>9, Kinds DEF ReadDetail
  <2>2. ask' \in DetailType
    BY <1>9, DetailTaken
  <2> QED BY <2>2 DEF AskTyped, StatsType, DetailType, PagesType, Quiet
<1> QED BY <1>1, <1>2, <1>3, <1>4, <1>5, <1>6, <1>7, <1>8, <1>9, ReaderOrNot DEF Reader

-----------------------------------------------------------------------------
(* The statistics and the lead as they are shown.                          *)

\* What the numbers read so far are.
StatsInv ==
  ask.kind = "stats" =>
    /\ Len(ask.counts) <= 5
    /\ \A n \in 1..Len(ask.counts) : ask.counts[n] <= Len(table)
    /\ \A m, n \in 1..Len(ask.counts) : m < n /\ n < 5 => ask.counts[m] <= ask.counts[n]

\* A count never outgrows the table, which only grows.
LEMMA StatsKept ==
  ASSUME RowsInv, AskTyped, DetailLead, StatsInv, [DeskNext]_deskVars
  PROVE  StatsInv'
<1>1. Extended /\ Len(table) \in Nat /\ Len(table') \in Nat
  BY RowsKept, RowOf, LenProperties DEF Follows, RowsInv, TableTyped
<1>2. CASE ask' = ask
  <2>1. CASE ask.kind = "stats"
    <3>1. ask.counts \in Seq(Nat)
      BY <2>1, Kinds DEF StatsType
    <3>2. \A n \in 1..Len(ask.counts) : ask.counts[n] \in Nat /\ ask.counts[n] <= Len(table)
      BY <2>1, <3>1, ElementOfSeq DEF StatsInv
    <3>3. \A n \in 1..Len(ask.counts) : ask.counts[n] <= Len(table')
      BY <1>1, <3>2 DEF Extended
    <3> QED BY <1>2, <2>1, <3>3 DEF StatsInv
  <2>2. CASE ask.kind # "stats"
    BY <1>2, <2>2 DEF StatsInv
  <2> QED BY <2>1, <2>2
<1>3. CASE AskStats
  BY <1>1, <1>3 DEF AskStats, StatsInv
<1>4. CASE ReadStats
  <2>1. /\ ask.counts \in Seq(Nat) /\ Len(ask.counts) \in Nat /\ Len(ask.counts) < 5
        /\ ask.kind = "stats" /\ table' = table
    BY <1>4, StatsTaken DEF ReadStats, Reading
  <2>2. PICK c \in Nat : /\ ask'.counts = Append(ask.counts, c) /\ c <= Len(table)
                         /\ Len(ask.counts) + 1 < 5 => c = Len(table)
    BY <1>4, StatsTaken
  <2> DEFINE s == ask.counts
             t == ask'.counts
             k == Len(s)
  <2>3. /\ Len(t) = k + 1 /\ \A n \in 1..k : t[n] = s[n]
        /\ t[k + 1] = c
    BY <2>1, <2>2, AppendProperties
  <2>4. \A n \in 1..k : s[n] \in Nat /\ s[n] <= Len(table)
    BY <2>1, ElementOfSeq DEF StatsInv
  <2>5. \A m, n \in 1..k : m < n /\ n < 5 => s[m] <= s[n]
    BY <2>1 DEF StatsInv
  <2>6. k \in Nat /\ k < 5
    BY <2>1
  <2>9. k + 1 < 5 => c = Len(table)
    BY <2>2
  <2> HIDE DEF s, t, k
  <2>7. \A n \in 1..k + 1 : t[n] <= Len(table)
    <3>1. \A n \in 1..k + 1 : n \in 1..k \/ n = k + 1
      BY <2>6
    <3> QED BY <2>2, <2>3, <2>4, <3>1
  <2>8. \A m, n \in 1..k + 1 : m < n /\ n < 5 => t[m] <= t[n]
    <3> SUFFICES ASSUME NEW m \in 1..k + 1, NEW n \in 1..k + 1, m < n, n < 5 PROVE t[m] <= t[n]
      OBVIOUS
    <3>1. m \in 1..k
      BY <2>6
    <3>2. CASE n \in 1..k
      BY <2>3, <2>5, <3>1, <3>2
    <3>3. CASE n = k + 1
      BY <2>2, <2>3, <2>4, <2>9, <3>1, <3>3
    <3> QED BY <2>6, <3>2, <3>3
  <2>10. Len(t) <= 5 /\ table' = table /\ Len(t) = k + 1
    BY <2>1, <2>3, <2>6
  <2> QED BY <2>7, <2>8, <2>10 DEF StatsInv, t
<1>5. CASE AskDetail \/ ReadDetail \/ AskPages \/ CountMatching \/ ReadPage \/ Dismiss
  <2>1. CASE ReadDetail
    BY <2>1, DetailTaken DEF DetailType, StatsInv
  <2>2. CASE ReadPage
    <3>1. ask'.kind = "pages"
      BY <2>2, PageTaken
    <3> QED BY <3>1 DEF StatsInv
  <2>3. CASE AskDetail \/ AskPages \/ CountMatching \/ Dismiss
    BY <2>3, OtherKinds DEF StatsInv
  <2> QED BY <1>5, <2>1, <2>2, <2>3
<1> QED BY <1>2, <1>3, <1>4, <1>5, ReaderOrNot DEF Reader

\* What was read of a lead that is scored, and never shared, still holds.
DetailInv ==
  ask.kind = "detail" =>
    /\ ask.lead \in 1..Len(table)
    /\ ask.parts \in {{}, {"row"}, {"row", "enrichment"}}
    /\ "row" \in ask.parts /\ ask.status = "scored" /\ ~table[ask.lead].raced =>
         /\ table[ask.lead].status = "scored" /\ table[ask.lead].score = ask.score
         /\ "enrichment" \in ask.parts => table[ask.lead].enrichment = ask.enrichment

\* A row that is final when it is read stays as it was read.
LEMMA DetailKept ==
  ASSUME RowsInv, AskTyped, DetailInv, [DeskNext]_deskVars
  PROVE  DetailInv'
<1>1. Extended /\ Final /\ Len(table) \in Nat /\ Len(table') \in Nat
  BY RowsKept, RowOf, LenProperties DEF Follows, RowsInv, TableTyped
<1>2. CASE ask' = ask
  <2>1. CASE ask.kind = "detail"
    <3> DEFINE i == ask.lead
    <3>1. i \in 1..Len(table) /\ i \in 1..Len(table')
      BY <1>1, <2>1 DEF DetailInv, Extended
    <3>2. table[i].raced => table'[i].raced
      BY <1>1, <3>1 DEF Extended
    <3>3. ~table'[i].raced /\ table[i].status = "scored" => table'[i] = table[i]
      BY <1>1, <3>1 DEF Final
    <3> QED BY <1>2, <2>1, <3>1, <3>2, <3>3 DEF DetailInv
  <2>2. CASE ask.kind # "detail"
    BY <1>2, <2>2 DEF DetailInv
  <2> QED BY <2>1, <2>2
<1>3. CASE AskDetail
  <2>1. PICK i \in DOMAIN table :
          ask' = [kind |-> "detail", lead |-> i, parts |-> {}, status |-> "unread",
                  score |-> {}, enrichment |-> {}]
    BY <1>3 DEF AskDetail
  <2>2. i \in 1..Len(table') /\ ask'.lead = i /\ ask'.parts = {}
    BY <1>3, <2>1, RowOf DEF AskDetail, Reading
  <2> QED BY <2>2 DEF DetailInv
<1>4. CASE ReadDetail
  <2>1. DetailLead /\ table' = table /\ ask.kind = "detail"
    BY <1>4 DEF DetailInv, DetailLead, ReadDetail, Reading
  <2>2. /\ ask'.lead = ask.lead
        /\ \/ /\ ask.parts = {} /\ ask'.parts = {"row"}
              /\ ask'.status = table[ask.lead].status /\ ask'.score = table[ask.lead].score
           \/ /\ ask.parts = {"row"} /\ ask'.parts = {"row", "enrichment"}
              /\ ask'.status = ask.status /\ ask'.score = ask.score
              /\ ask'.enrichment = table[ask.lead].enrichment
    BY <1>4, <2>1, DetailTaken
  <2> QED BY <2>1, <2>2 DEF DetailInv
<1>5. CASE AskStats \/ ReadStats \/ AskPages \/ CountMatching \/ ReadPage \/ Dismiss
  <2>1. ask'.kind # "detail"
    BY <1>5, StatsTaken, PageTaken, OtherKinds DEF StatsType
  <2> QED BY <2>1 DEF DetailInv
<1> QED BY <1>2, <1>3, <1>4, <1>5, ReaderOrNot DEF Reader

ReaderInv == RowsInv /\ AskTyped /\ StatsInv /\ DetailInv

\* A reader is typed, and tells no more than the table.
LEMMA ReaderCorrect == DeskSpec => []ReaderInv
<1>1. DeskInit => ReaderInv
  BY RowsBegin DEF DeskInit, ReaderInv, AskTyped, StatsInv, DetailInv, Quiet
<1>2. ReaderInv /\ [DeskNext]_deskVars => ReaderInv'
  <2> SUFFICES ASSUME ReaderInv, [DeskNext]_deskVars PROVE ReaderInv'
    OBVIOUS
  <2>1. RowsInv /\ AskTyped /\ StatsInv /\ DetailInv /\ DetailLead
    BY DEF ReaderInv, DetailInv, DetailLead
  <2>2. RowsInv'
    BY <2>1, RowsKept DEF Follows
  <2>3. AskTyped'
    BY <2>1, AskKept
  <2>4. StatsInv'
    BY <2>1, StatsKept
  <2>5. DetailInv'
    BY <2>1, DetailKept
  <2> QED BY <2>2, <2>3, <2>4, <2>5 DEF ReaderInv
<1> QED BY <1>1, <1>2, PTL DEF DeskSpec

\* The numbers of the dashboard, five statements apart, never contradict each
\* other the wrong way round, whatever is stored between the statements.
THEOREM StatsCorrect == DeskSpec => []StatsNest
<1>1. ASSUME ReaderInv, ask.kind = "stats"
      PROVE  /\ \A n \in DOMAIN ask.counts : ask.counts[n] <= Len(table)
             /\ \A m, n \in DOMAIN ask.counts \ {5} : m < n => ask.counts[m] <= ask.counts[n]
  <2>1. ask.counts \in Seq(Nat)
    BY <1>1, Kinds DEF ReaderInv, StatsType
  <2>2. DOMAIN ask.counts = 1..Len(ask.counts) /\ Len(ask.counts) \in Nat /\ Len(ask.counts) <= 5
    BY <1>1, <2>1, LenProperties DEF ReaderInv, StatsInv
  <2>3. \A n \in 1..Len(ask.counts) : n # 5 => n < 5
    BY <2>2
  <2> QED BY <1>1, <2>2, <2>3 DEF ReaderInv, StatsInv
<1>2. ReaderInv => StatsNest
  BY <1>1 DEF StatsNest
<1> QED BY <1>2, ReaderCorrect, PTL

\* A lead is never shown as scored with an enrichment of another answer,
\* though the row and its enrichment are read in two statements.
THEOREM DetailCorrect == DeskSpec => []DetailConsistent
<1>1. ASSUME ReaderInv, ask.kind = "detail", ask.parts = {"row", "enrichment"},
             ask.status = "scored", ~table[ask.lead].raced
      PROVE  \E a \in ask.enrichment : \E now \in StartHour..EndHour :
               ask.score = {FinalScore(a, table[ask.lead].lead.posted_at, now, Skills)}
  <2>1. /\ ask.lead \in 1..Len(table) /\ table[ask.lead].status = "scored"
        /\ table[ask.lead].score = ask.score /\ table[ask.lead].enrichment = ask.enrichment
    BY <1>1 DEF ReaderInv, DetailInv
  <2>2. Scores(ask.enrichment, ask.score, table[ask.lead].lead)
    BY <1>1, <2>1 DEF ReaderInv, RowsInv, PipeInv, GoodRow
  <2> QED BY <2>2 DEF Scores
<1>2. ReaderInv => DetailConsistent
  BY <1>1 DEF DetailConsistent
<1> QED BY <1>2, ReaderCorrect, PTL

-----------------------------------------------------------------------------
(* The pages of the list.                                                  *)

\* The sort keys that never change.
Orderings == {"fetched_at", "signal_strength", "posted_at"}

\* It is a number,
LEMMA KeyTyped ==
  ASSUME RowsInv, NEW i \in 1..Len(table), NEW k \in Orderings
  PROVE  SortKey(table[i], k) \in Int
<1>1. /\ table[i].batch \in Nat /\ table[i].lead.signal.strength \in 0..100
      /\ table[i].lead.posted_at \in Int
  BY RowOf DEF GoodLead
<1>2. CASE k = "fetched_at"
  BY <1>1, <1>2 DEF SortKey
<1>3. CASE k = "signal_strength"
  <2>1. SortKey(table[i], k) = table[i].lead.signal.strength
    BY <1>3 DEF SortKey
  <2>2. \A n \in 0..100 : n \in Int
    OBVIOUS
  <2> QED BY <1>1, <2>1, <2>2, Zenon
<1>4. CASE k = "posted_at"
  BY <1>1, <1>4 DEF SortKey, Null
<1> QED BY <1>2, <1>3, <1>4 DEF Orderings

\* and no step changes it.
LEMMA KeyStays ==
  ASSUME Extended, NEW i \in 1..Len(table), NEW k \in Orderings
  PROVE  SortKey(table'[i], k) = SortKey(table[i], k)
<1>1. table'[i].lead = table[i].lead /\ table'[i].batch = table[i].batch
  BY DEF Extended
<1>2. CASE k = "fetched_at"
  BY <1>1, <1>2 DEF SortKey
<1>3. CASE k = "signal_strength"
  BY <1>1, <1>3 DEF SortKey
<1>4. CASE k = "posted_at"
  BY <1>1, <1>4 DEF SortKey
<1> QED BY <1>2, <1>3, <1>4 DEF Orderings

Key(i) == SortKey(table[i], ask.sort_by)

\* A matching row whose key no other one has, and the rows that come before it.
Alone(i) ==
  /\ i \in Matching(ask.source)
  /\ \A j \in Matching(ask.source) \ {i} : Key(j) # Key(i)
Before(i) ==
  {j \in Matching(ask.source) : IF ask.sort_order = "desc" THEN Key(j) > Key(i) ELSE Key(j) < Key(i)}

\* Such a row has its place in the list.
LEMMA Place ==
  ASSUME RowsInv, ask.sort_by \in Orderings, NEW s \in Listings(ask), NEW n \in DOMAIN s, Alone(s[n])
  PROVE  Cardinality(Before(s[n])) = n - 1
<1> DEFINE M == Matching(ask.source)
           f == [m \in 1..n - 1 |-> s[m]]
<1>1. /\ M \subseteq 1..Len(table) /\ IsFiniteSet(M) /\ s \in SetToSeqs(M)
      /\ Len(s) \in Nat /\ DOMAIN s = 1..Len(s) /\ \A m \in DOMAIN s : s[m] \in M
  BY Listed
<1>2. /\ \A l, m \in DOMAIN s : s[l] = s[m] => l = m
      /\ \A j \in M : \E m \in DOMAIN s : s[m] = j
  BY <1>1, Orders
<1>3. \A j \in M : Key(j) \in Int
  BY <1>1, KeyTyped DEF Key
<1>4. \A i, j \in DOMAIN s : i < j =>
        IF ask.sort_order = "desc" THEN Key(s[i]) >= Key(s[j]) ELSE Key(s[i]) <= Key(s[j])
  BY DEF Listings, Key
<1>5. \A j \in M \ {s[n]} : Key(j) # Key(s[n])
  BY DEF Alone
<1>6. Before(s[n]) = {j \in M : IF ask.sort_order = "desc" THEN Key(j) > Key(s[n]) ELSE Key(j) < Key(s[n])}
  BY DEF Before
<1> HIDE DEF M
<1>7. n \in 1..Len(s) /\ n - 1 \in Nat /\ 1..n - 1 \subseteq DOMAIN s
  BY <1>1
<1>8. ASSUME NEW m \in 1..n - 1 PROVE s[m] \in Before(s[n])
  <2>1. m \in DOMAIN s /\ m < n /\ m # n
    BY <1>7
  <2>2. s[m] \in M /\ s[n] \in M /\ s[m] # s[n]
    BY <1>1, <1>2, <2>1
  <2>3. /\ Key(s[m]) \in Int /\ Key(s[n]) \in Int /\ Key(s[m]) # Key(s[n])
        /\ IF ask.sort_order = "desc" THEN Key(s[m]) >= Key(s[n]) ELSE Key(s[m]) <= Key(s[n])
    BY <1>3, <1>4, <1>5, <2>1, <2>2
  <2> QED BY <1>6, <2>2, <2>3
<1>9. ASSUME NEW j \in Before(s[n]) PROVE \E m \in 1..n - 1 : f[m] = j
  <2>1. j \in M
    BY <1>6
  <2>2. PICK m \in DOMAIN s : s[m] = j
    BY <1>2, <2>1
  <2>3. Key(s[m]) \in Int /\ Key(s[n]) \in Int
    BY <1>1, <1>3, <2>2
  <2>4. ~(n < m) /\ n # m
    BY <1>4, <1>6, <2>2, <2>3
  <2>5. m \in 1..n - 1
    BY <1>1, <1>7, <2>2, <2>4
  <2> QED BY <2>2, <2>5
<1>10. f \in [1..n - 1 -> Before(s[n])]
  BY <1>8
<1>11. f \in Surjection(1..n - 1, Before(s[n]))
  BY <1>9, <1>10 DEF Surjection
<1>12. \A l, m \in 1..n - 1 : f[l] = f[m] => l = m
  BY <1>2, <1>7
<1>13. f \in Injection(1..n - 1, Before(s[n]))
  <2>1. DOMAIN f = 1..n - 1
    OBVIOUS
  <2> HIDE DEF f
  <2> QED BY <1>10, <1>12, <2>1, Zenon DEF Injection, IsInjective
<1> HIDE DEF f
<1>14. IsFiniteSet(1..n - 1) /\ Cardinality(1..n - 1) = n - 1
  <2> DEFINE k == n - 1
  <2>1. k \in Nat
    BY <1>7
  <2> HIDE DEF k
  <2>2. IsFiniteSet(1..k) /\ Cardinality(1..k) = k
    BY <2>1, FS_Interval
  <2> QED BY <2>2 DEF k
<1>15. Cardinality(Before(s[n])) = Cardinality(1..n - 1)
  BY <1>11, <1>13, <1>14, FS_Surjection
<1> QED BY <1>14, <1>15

\* Where a page begins and ends.
LEMMA PageEnds ==
  ASSUME NEW p \in Nat \ {0}, NEW z \in Nat \ {0}
  PROVE  /\ (p - 1) * z \in Nat /\ Offset(p, z) = (p - 1) * z
         /\ p * z \in Nat /\ p * z = (p - 1) * z + z
<1>1. PICK b \in Nat : p = b + 1
  OBVIOUS
<1>2. (b + 1) * z = b * z + z /\ b * z \in Nat
  OBVIOUS
<1>3. p - 1 = b
  BY <1>1
<1>4. Offset(p, z) = (p - 1) * z
  <2>1. (IF p > 1 THEN p ELSE 1) = p
    OBVIOUS
  <2> QED BY <2>1 DEF Offset
<1> QED BY <1>1, <1>2, <1>3, <1>4

\* The pages that are told of hold all that was counted.
LEMMA LastPage ==
  ASSUME NEW p \in Nat \ {0}, NEW z \in Nat \ {0}, NEW t \in Nat, p >= TotalPages(t, z)
  PROVE  t <= p * z
<1>1. CASE t = 0
  BY <1>1
<1>2. CASE t # 0
  <2> DEFINE a == t + z - 1
             d == a \div z
             r == a % z
  <2>1. a \in Nat
    OBVIOUS
  <2>2. d \in Int /\ r \in 0..z - 1 /\ a = z * d + r
    OBVIOUS
  <2>3. d <= p
    BY <1>2 DEF TotalPages
  <2>4. z * d <= p * z
    <3> HIDE DEF d
    <3>1. PICK b \in Nat : p = d + b
      BY <2>2, <2>3
    <3>2. (d + b) * z = z * d + b * z /\ b * z >= 0
      BY <2>2
    <3> QED BY <2>2, <3>1, <3>2
  <2>5. z * d \in Int /\ p * z \in Int
    BY <2>2
  <2> QED BY <2>1, <2>2, <2>4, <2>5
<1> QED BY <1>1, <1>2

\* What a walk has met: a row with a key of its own is behind it or ahead of it.
PagesInv ==
  ask.kind = "pages" =>
    /\ ask.old <= Len(table)
    /\ ask.sort_by \in Orderings =>
         \A i \in 1..ask.old : Alone(i) =>
           \/ i \in ask.seen
           \/ ask.done /\ ask.stale
           \/ ~ask.done /\ (ask.page - 1) * ask.size <= Cardinality(Before(i))

\* A row that is alone has always been, and only ever moves back.
LEMMA MovesBack ==
  ASSUME RowsInv, Extended, ask' = ask, ask.sort_by \in Orderings,
         NEW i \in 1..Len(table), Alone(i)'
  PROVE  /\ Alone(i) /\ Cardinality(Before(i)) \in Nat
         /\ Len(table') \in Nat => Cardinality(Before(i)') \in Nat /\ Cardinality(Before(i)) <= Cardinality(Before(i)')
<1>1. /\ \A j \in 1..Len(table) : /\ table'[j].lead = table[j].lead
                                  /\ Key(j)' = Key(j)
      /\ DOMAIN table' = 1..Len(table') /\ 1..Len(table) \subseteq 1..Len(table')
  <2>1. /\ Len(table) \in Nat /\ Len(table') \in Nat /\ Len(table) <= Len(table')
        /\ DOMAIN table' = 1..Len(table')
    BY RowOf, LenProperties DEF Extended
  <2>2. \A j \in 1..Len(table) : table'[j].lead = table[j].lead
    BY DEF Extended
  <2>3. ASSUME NEW j \in 1..Len(table) PROVE Key(j)' = Key(j)
    <3>1. SortKey(table'[j], ask.sort_by) = SortKey(table[j], ask.sort_by)
      BY KeyStays
    <3> QED BY <3>1 DEF Key
  <2> QED BY <2>1, <2>2, <2>3
<1>2. Len(table) \in Nat /\ DOMAIN table = 1..Len(table)
  BY RowOf
<1>3. /\ Matching(ask.source) \subseteq 1..Len(table)
      /\ \A j \in 1..Len(table) : j \in Matching(ask.source) <=> j \in Matching(ask.source)'
      /\ Matching(ask.source)' \subseteq 1..Len(table')
  BY <1>1, <1>2 DEF Matching
<1>4. Alone(i)
  BY <1>1, <1>3 DEF Alone
<1>5. Before(i) \subseteq Before(i)'
  BY <1>1, <1>3 DEF Before
<1>6. Before(i) \subseteq 1..Len(table) /\ Before(i)' \subseteq 1..Len(table')
  BY <1>3 DEF Before
<1>7. Cardinality(Before(i)) \in Nat
  BY <1>2, <1>6, Positions
<1>8. ASSUME Len(table') \in Nat
      PROVE  Cardinality(Before(i)') \in Nat /\ Cardinality(Before(i)) <= Cardinality(Before(i)')
  <2>1. IsFiniteSet(Before(i)') /\ Cardinality(Before(i)') \in Nat
    BY <1>6, <1>8, Positions
  <2> QED BY <1>5, <2>1, FS_Subset
<1> QED BY <1>4, <1>7, <1>8

\* The page that is read, and the last one.
LEMMA PageRead ==
  ASSUME RowsInv, AskTyped, PagesInv, ReadPage
  PROVE  PagesInv'
<1>1. /\ ask \in PagesType /\ ~ask.done /\ ask.kind = "pages" /\ table' = table
      /\ ask.page \in Nat \ {0} /\ ask.size \in Nat \ {0} /\ ask.old \in Nat /\ Len(table) \in Nat
  <2>1. ask \in PagesType
    BY Kinds DEF ReadPage
  <2> QED BY <2>1, RowOf DEF ReadPage, Reading, PagesType
<1>2. PICK total \in ask.total, s \in Listings(ask) :
           /\ ask' \in PagesType /\ ask'.kind = "pages" /\ total \in Nat
           /\ ask'.size = ask.size /\ ask'.sort_by = ask.sort_by /\ ask'.sort_order = ask.sort_order
           /\ ask'.source = ask.source /\ ask'.old = ask.old
           /\ ask'.seen = ask.seen \cup Window(s, Offset(ask.page, ask.size), ask.size)
           /\ ask'.done = (ask.page >= TotalPages(total, ask.size))
           /\ ask'.page = (IF ask'.done THEN ask.page ELSE ask.page + 1)
           /\ ask'.stale = (Len(s) # total) /\ ask'.total = {}
  BY PageTaken
<1>3. ASSUME ask.sort_by \in Orderings, NEW i \in 1..ask.old, Alone(i), i \notin ask'.seen
      PROVE  \/ ask'.done /\ ask'.stale
             \/ ~ask'.done /\ (ask'.page - 1) * ask'.size <= Cardinality(Before(i))
  <2> DEFINE lo == (ask.page - 1) * ask.size
             hi == ask.page * ask.size
             b == Cardinality(Before(i))
  <2>1. lo \in Nat /\ hi \in Nat /\ hi = lo + ask.size /\ Offset(ask.page, ask.size) = lo
    BY <1>1, PageEnds
  <2>2. /\ s \in SetToSeqs(Matching(ask.source)) /\ IsFiniteSet(Matching(ask.source))
        /\ Len(s) \in Nat /\ DOMAIN s = 1..Len(s)
    BY Listed
  <2>3. i \in Matching(ask.source)
    BY <1>3 DEF Alone
  <2>4. PICK n \in DOMAIN s : s[n] = i
    BY <2>2, <2>3, Orders
  <2>5. b = n - 1
    BY <1>3, <2>4, Place
  <2>6. lo <= b
    <3>1. i \notin ask.seen
      BY <1>2, <1>3
    <3> QED BY <1>1, <1>3, <3>1 DEF PagesInv
  <2>7. ~(lo < n /\ n <= lo + ask.size)
    <3>1. s[n] \notin Window(s, lo, ask.size)
      BY <1>2, <1>3, <2>1, <2>4
    <3> QED BY <3>1 DEF Window
  <2>11. ASSUME NEW p, NEW z, p = ask.page + 1, z = ask.size PROVE (p - 1) * z = hi
    <3>1. p \in Nat /\ p - 1 = ask.page
      BY <1>1, <2>11
    <3> QED BY <2>11, <3>1, Zenon
  <2> HIDE DEF lo, hi, b
  <2>8. n \in Nat /\ n <= Len(s) /\ hi <= b /\ hi < n
    BY <2>1, <2>2, <2>5, <2>6, <2>7, <1>1
  <2>9. CASE ask'.done
    <3>1. total <= hi
      BY <1>1, <1>2, <2>9, LastPage DEF hi
    <3> DEFINE l == Len(s)
    <3>2. l \in Nat /\ n <= l /\ n \in Nat /\ hi < n /\ hi \in Nat /\ total \in Nat
      BY <1>2, <2>1, <2>2, <2>8
    <3> HIDE DEF l
    <3>3. l # total
      BY <3>1, <3>2
    <3>4. ask'.stale = (l # total)
      BY <1>2 DEF l
    <3> QED BY <2>9, <3>3, <3>4
  <2>10. CASE ~ask'.done
    <3>1. ask'.page = ask.page + 1 /\ ask'.size = ask.size
      BY <1>2, <2>10
    <3>2. (ask'.page - 1) * ask'.size = hi
      BY <2>11, <3>1
    <3> QED BY <2>8, <2>10, <3>2 DEF b
  <2> QED BY <2>9, <2>10
<1>4. \A i \in 1..ask.old : Alone(i)' <=> Alone(i)
  BY <1>1, <1>2 DEF Alone, Matching, Key
<1>5. \A i \in 1..ask.old : Before(i)' = Before(i)
  BY <1>1, <1>2 DEF Before, Matching, Key
<1>6. ask.old <= Len(table)
  BY <1>1 DEF PagesInv
<1> QED BY <1>1, <1>2, <1>3, <1>4, <1>5, <1>6 DEF PagesInv

\* No step of anyone makes the walk miss such a row.
LEMMA PagesKept ==
  ASSUME ReaderInv, PagesInv, [DeskNext]_deskVars
  PROVE  PagesInv'
<1>1. /\ RowsInv /\ AskTyped /\ DetailLead /\ Extended /\ RowsInv'
      /\ Len(table) \in Nat /\ Len(table') \in Nat
  <2>1. RowsInv /\ AskTyped /\ DetailLead
    BY DEF ReaderInv, DetailInv, DetailLead
  <2>2. Extended /\ RowsInv'
    BY <2>1, RowsKept DEF Follows
  <2> QED BY <2>1, <2>2, RowOf, LenProperties DEF Extended
<1>2. CASE ask' = ask
  <2>1. CASE ask.kind = "pages"
    <3>1. ask.old \in Nat /\ ask.old <= Len(table) /\ Len(table) <= Len(table')
      BY <1>1, <2>1, Kinds DEF PagesType, PagesInv, Extended
    <3>2. ASSUME ask.sort_by \in Orderings, NEW i \in 1..ask.old, Alone(i)'
          PROVE  \/ i \in ask.seen
                 \/ ask.done /\ ask.stale
                 \/ ~ask.done /\ (ask.page - 1) * ask.size <= Cardinality(Before(i)')
      <4> DEFINE lo == (ask.page - 1) * ask.size
                 b == Cardinality(Before(i))
                 c == Cardinality(Before(i)')
      <4>1. lo \in Nat
        <5>1. ask.page \in Nat \ {0} /\ ask.size \in Nat \ {0}
          BY <1>1, <2>1, Kinds DEF PagesType
        <5> QED BY <5>1, PageEnds
      <4>2. i \in 1..Len(table)
        BY <1>1, <3>1
      <4>3. Alone(i) /\ b \in Nat /\ c \in Nat /\ b <= c
        BY <1>1, <1>2, <3>2, <4>2, MovesBack
      <4>4. \/ i \in ask.seen
            \/ ask.done /\ ask.stale
            \/ ~ask.done /\ lo <= b
        BY <2>1, <3>2, <4>3 DEF PagesInv
      <4> HIDE DEF lo, b, c
      <4>5. lo <= b => lo <= c
        BY <4>1, <4>3
      <4> QED BY <4>4, <4>5 DEF lo, c
    <3>3. ask.old <= Len(table')
      BY <1>1, <3>1
    <3> QED BY <1>2, <3>2, <3>3 DEF PagesInv
  <2>2. CASE ask.kind # "pages"
    BY <1>2, <2>2 DEF PagesInv
  <2> QED BY <2>1, <2>2
<1>3. CASE AskPages
  <2>1. PICK q \in market.lists :
         ask' = [kind |-> "pages", size |-> PageSize(q.size), sort_by |-> q.sort_by,
                 sort_order |-> q.sort_order, source |-> q.source, page |-> 1, total |-> {},
                 seen |-> {}, old |-> Len(table), stale |-> FALSE, done |-> FALSE]
    BY <1>3 DEF AskPages
  <2>2. ask'.old = Len(table) /\ ask'.page = 1 /\ ask'.done = FALSE /\ table' = table
    BY <1>3, <2>1 DEF AskPages, Reading
  <2>3. (ask'.page - 1) * ask'.size = 0
    <3>1. ask' \in PagesType
      <4>1. AskTyped' /\ ask'.kind = "pages"
        BY <1>1, <1>3, AskKept, OtherKinds
      <4> QED BY <4>1 DEF AskTyped, Quiet, StatsType, DetailType, PagesType
    <3>2. ask'.size \in Nat
      BY <3>1 DEF PagesType
    <3> QED BY <2>2, <3>2
  <2>4. ASSUME NEW i \in 1..ask'.old PROVE 0 <= Cardinality(Before(i)')
    <3>1. Before(i)' \subseteq 1..Len(table')
      <4>1. DOMAIN table' = 1..Len(table')
        BY <1>1, LenProperties DEF Extended
      <4> QED BY <4>1 DEF Before, Matching
    <3>2. Cardinality(Before(i)') \in Nat
      BY <1>1, <3>1, Positions
    <3> QED BY <3>2
  <2> QED BY <1>1, <2>2, <2>3, <2>4 DEF PagesInv
<1>4. CASE CountMatching
  <2>1. ask \in PagesType /\ table' = table /\ ask.kind = "pages"
    BY <1>1, <1>4, Kinds DEF CountMatching, Reading
  <2>2. ask' = [ask EXCEPT !.total = {Cardinality(Matching(ask.source))}]
    BY <1>4 DEF CountMatching
  <2> DEFINE t == {Cardinality(Matching(ask.source))}
  <2> HIDE DEF t
  <2>3. /\ ask'.old = ask.old /\ ask'.sort_by = ask.sort_by /\ ask'.sort_order = ask.sort_order
        /\ ask'.source = ask.source /\ ask'.seen = ask.seen /\ ask'.done = ask.done
        /\ ask'.stale = ask.stale /\ ask'.page = ask.page /\ ask'.size = ask.size
    BY <2>1, <2>2 DEF PagesType
  <2>4. \A i : (Alone(i)' <=> Alone(i)) /\ Before(i)' = Before(i)
    BY <2>1, <2>3 DEF Alone, Before, Matching, Key
  <2> QED BY <2>1, <2>3, <2>4 DEF PagesInv
<1>5. CASE ReadPage
  BY <1>1, <1>5, PageRead
<1>6. CASE AskStats \/ AskDetail \/ Dismiss
  BY <1>1, <1>6, OtherKinds DEF PagesInv
<1>7. CASE ReadStats
  BY <1>1, <1>7, StatsTaken DEF StatsType, PagesInv
<1>8. CASE ReadDetail
  BY <1>1, <1>8, DetailTaken DEF DetailType, PagesInv
<1> QED BY <1>2, <1>3, <1>4, <1>5, <1>6, <1>7, <1>8, ReaderOrNot DEF Reader

\* A walk through the pages of the list meets every lead that was there when it
\* began, with a key of its own that is no score, whatever is stored meanwhile,
\* unless leads came between the count and the rows of its last page.
THEOREM PagesCorrect == DeskSpec => []PagesMissNothing
<1>1. DeskInit => PagesInv
  BY DEF DeskInit, PagesInv, Quiet
<1>2. ReaderInv /\ PagesInv /\ [DeskNext]_deskVars => PagesInv'
  BY PagesKept
<1>3. ASSUME ReaderInv, PagesInv, ask.kind = "pages", ask.done, ~ask.stale, ask.sort_by # "score",
             NEW i \in 1..ask.old \cap Matching(ask.source)
      PROVE  \/ i \in ask.seen
             \/ \E j \in Matching(ask.source) \ {i} :
                  SortKey(table[j], ask.sort_by) = SortKey(table[i], ask.sort_by)
  <2>1. ask.sort_by \in Orderings
    BY <1>3, Kinds DEF ReaderInv, PagesType, Orderings
  <2>2. Alone(i) => i \in ask.seen
    BY <1>3, <2>1 DEF PagesInv
  <2> QED BY <2>2 DEF Alone, Key
<1>4. ReaderInv /\ PagesInv => PagesMissNothing
  BY <1>3 DEF PagesMissNothing
<1> QED BY <1>1, <1>2, <1>4, ReaderCorrect, PTL DEF DeskSpec
=============================================================================
