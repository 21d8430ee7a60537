------------------------------- MODULE LeadDesk -------------------------------
(***************************************************************************)
(* The table of leads as the dashboard reads it.  Scrapes add rows by the  *)
(* rules of LeadRules, pipelines write an enrichment and then a score, and *)
(* meanwhile one reader at a time asks for the statistics, for one lead or *)
(* for the pages of the list.  Every statement of a reader sees what is    *)
(* committed when it runs: the queries of one answer are separate steps.   *)
(***************************************************************************)
EXTENDS LeadRules, SequencesExt

CONSTANTS
  Markets,      \* the posts of the sources, the requests that scrape them and the
                \* lists (page size, order, source) asked for: one choice at a time
  Workable,     \* bound: the posts whose leads are enriched
  Pipelines,    \* pipeline executions that may be under way at once
  Answers,      \* what the LLM may say
  Skills,       \* user_skills
  StartHour, EndHour,   \* bound on the clock
  MaxPageSize   \* the 100 of list_leads

\* The posts are those of the ten adapters, dated after day 0 if at all, requests
\* are within the bounds of ScrapeRequest, and the dashboard asks for pages that
\* hold a lead, in an order it offers.
ASSUME MarketAssumption ==
  \A m \in Markets :
    /\ IsFiniteSet(m.posts)
    /\ \A p \in m.posts : p.adapter \in Sources /\ p.hour \in Int /\ (p.hour = Undated \/ p.hour >= 24)
    /\ \A q \in m.requests : Bounded(q)
    /\ \A l \in m.lists : /\ l.size \in Nat \ {0}
                          /\ l.sort_by \in {"fetched_at", "signal_strength", "posted_at", "score"}
ASSUME AnswerAssumption == Answers \subseteq Answer
ASSUME ClockAssumption == StartHour \in Nat /\ EndHour \in Nat /\ StartHour <= EndHour
ASSUME PageAssumption == MaxPageSize \in Nat \ {0}

VARIABLES
  market,   \* the choice
  clock,    \* hours
  table,    \* raw_leads and lead_enrichments, one record per lead, as inserted
  offered,  \* every lead of a committed insert, stored or taken for a duplicate
  work,     \* the pipeline executions
  ask       \* the reader

deskVars == <<market, clock, table, offered, work, ask>>

Off == [pc |-> "off", lead |-> 0, answer |-> {}, score |-> 0]
Quiet == [kind |-> "none"]

DeskInit ==
  /\ market \in Markets /\ clock = StartHour
  /\ table = <<>> /\ offered = {}
  /\ work = [w \in Pipelines |-> Off] /\ ask = Quiet

-----------------------------------------------------------------------------
\* insert_leads

\* NOW() is the start of the transaction: the rows of a batch share it.
Row(x, p, batch) ==
  [lead |-> x, post |-> p, batch |-> batch, fetched_at |-> clock, status |-> "new",
   score |-> {}, enrichment |-> {}, raced |-> FALSE]

Batches == {r.batch : r \in ToSet(table)}
NextBatch == Cardinality(Batches) + 1

LeadOf(p, q) == CHOOSE x \in Normalize(p, q) : TRUE

\* The posts of a batch that make a lead.
Kept(posts, q) == {i \in DOMAIN posts : Normalize(posts[i], q) # {}}

\* ON CONFLICT (dedup_hash) DO NOTHING: the posts whose lead gets a row, its hash
\* neither in the table nor that of an earlier lead of the batch.
Fresh(posts, q) ==
  {i \in Kept(posts, q) :
     LET new(x) == Identity(x) # Identity(LeadOf(posts[i], q))
     IN (\A r \in ToSet(table) : new(r.lead)) /\ \A j \in Kept(posts, q) : j < i => new(LeadOf(posts[j], q))}

SourceKey(r) == <<r.lead.source, r.lead.source_id>>

\* A second row for a source key fails the whole batch: nothing is stored.
StoreBatch(posts, q) ==
  /\ Builds(q)
  /\ \A i \in DOMAIN posts : posts[i].hour <= clock
  /\ \E k \in SetToSeqs(Fresh(posts, q)) :
       /\ \A m, n \in DOMAIN k : m < n => k[m] < k[n]
       /\ LET rows == [n \in DOMAIN k |-> Row(LeadOf(posts[k[n]], q), posts[k[n]], NextBatch)]
              after == table \o rows
          IN /\ \A i, j \in DOMAIN after : SourceKey(after[i]) = SourceKey(after[j]) => i = j
             /\ table' = after
  /\ offered' = offered \cup {LeadOf(posts[i], q) : i \in Kept(posts, q)}
  /\ UNCHANGED <<market, clock, work, ask>>

Scrape ==
  \E a \in {p.adapter : p \in market.posts} :
    \E S \in SUBSET {p \in market.posts : p.adapter = a} \ {{}} :
    \E posts \in SetToSeqs(S), q \in market.requests : StoreBatch(posts, q)

-----------------------------------------------------------------------------
\* The pipeline: its guard, its claim, the answer of the LLM and the two
\* transactions of the persist stage.

\* A lead that is scored is left alone.  One that is "enriching" is not: the
\* execution that claimed it may have failed, or be under way.
Check(w, i) ==
  /\ work[w] = Off
  /\ table[i].status # "scored" /\ table[i].post \in Workable
  /\ work' = [work EXCEPT ![w] = [Off EXCEPT !.pc = "claim", !.lead = i]]
  /\ table' = [table EXCEPT ![i].raced = @ \/ \E v \in Pipelines : work[v].lead = i]
  /\ UNCHANGED <<market, clock, offered, ask>>

Claim(w) ==
  /\ work[w].pc = "claim"
  /\ table' = [table EXCEPT ![work[w].lead].status = "enriching"]
  /\ work' = [work EXCEPT ![w].pc = "classify"]
  /\ UNCHANGED <<market, clock, offered, ask>>

\* Over budget: the lead is put back and the execution ends.
Pause(w) ==
  /\ work[w].pc = "classify"
  /\ table' = [table EXCEPT ![work[w].lead].status = "budget_paused"]
  /\ work' = [work EXCEPT ![w] = Off]
  /\ UNCHANGED <<market, clock, offered, ask>>

\* ClassifyStage and ScoreStage: the score is that of the moment of the answer.
Classified(w) ==
  /\ work[w].pc = "classify"
  /\ \E a \in Answers :
       work' = [work EXCEPT ![w].pc = "upsert", ![w].answer = {a},
                  ![w].score = FinalScore(a, table[work[w].lead].lead.posted_at, clock, Skills)]
  /\ UNCHANGED <<market, clock, table, offered, ask>>

\* A variant that marks the lead as scored with its enrichment.
UpsertEnrichment_Scored(w) ==
  /\ work[w].pc = "upsert"
  /\ table' = [table EXCEPT ![work[w].lead].enrichment = work[w].answer,
                            ![work[w].lead].status = "scored"]
  /\ work' = [work EXCEPT ![w].pc = "score"]
  /\ UNCHANGED <<market, clock, offered, ask>>

\* A variant with ON CONFLICT DO NOTHING.
UpsertEnrichment_DoNothing(w) ==
  /\ work[w].pc = "upsert"
  /\ table' = [table EXCEPT ![work[w].lead].enrichment = IF @ = {} THEN work[w].answer ELSE @]
  /\ work' = [work EXCEPT ![w].pc = "score"]
  /\ UNCHANGED <<market, clock, offered, ask>>

UpsertEnrichment(w) ==
  /\ work[w].pc = "upsert"
  /\ table' = [table EXCEPT ![work[w].lead].enrichment = work[w].answer]
  /\ work' = [work EXCEPT ![w].pc = "score"]
  /\ UNCHANGED <<market, clock, offered, ask>>

UpdateScores(w) ==
  /\ work[w].pc = "score"
  /\ table' = [table EXCEPT ![work[w].lead].score = {work[w].score},
                            ![work[w].lead].status = "scored"]
  /\ work' = [work EXCEPT ![w] = Off]
  /\ UNCHANGED <<market, clock, offered, ask>>

\* A stage raises, or the process ends, at any point of an execution.
Break(w) ==
  /\ work[w] # Off
  /\ work' = [work EXCEPT ![w] = Off]
  /\ UNCHANGED <<market, clock, table, offered, ask>>

-----------------------------------------------------------------------------
\* get_lead_stats: five statements, each with the table it finds.  Counts by
\* source, signal and status are kept as their sums; the signal count leaves
\* out rows without a signal, the last one rows older than a day.

WithSignal == {i \in DOMAIN table : table[i].lead.signal.type \in SignalTypes}
LastDay == {i \in DOMAIN table : table[i].fetched_at >= clock - 24}

CountNow(n) ==
  CASE n = 3 -> Cardinality(WithSignal)
    [] n = 5 -> Cardinality(LastDay)
    [] OTHER -> Len(table)

Reading == UNCHANGED <<market, clock, table, offered, work>>

AskStats == ask = Quiet /\ ask' = [kind |-> "stats", counts |-> <<>>] /\ Reading

ReadStats ==
  /\ ask.kind = "stats" /\ Len(ask.counts) < 5
  /\ ask' = [ask EXCEPT !.counts = Append(@, CountNow(Len(@) + 1))]
  /\ Reading

-----------------------------------------------------------------------------
\* get_lead_detail: the row, then its enrichment.

AskDetail ==
  /\ ask = Quiet
  /\ \E i \in DOMAIN table :
       ask' = [kind |-> "detail", lead |-> i, parts |-> {}, status |-> "unread",
               score |-> {}, enrichment |-> {}]
  /\ Reading

ReadRow ==
  [ask EXCEPT !.parts = @ \cup {"row"}, !.status = table[ask.lead].status,
              !.score = table[ask.lead].score]
ReadEnrichment ==
  [ask EXCEPT !.parts = @ \cup {"enrichment"}, !.enrichment = table[ask.lead].enrichment]

\* A variant that reads the enrichment first.
ReadDetail_EnrichmentFirst ==
  /\ ask.kind = "detail"
  /\ \/ ask.parts = {} /\ ask' = ReadEnrichment
     \/ ask.parts = {"enrichment"} /\ ask' = ReadRow
  /\ Reading

ReadDetail ==
  /\ ask.kind = "detail"
  /\ \/ ask.parts = {} /\ ask' = ReadRow
     \/ ask.parts = {"row"} /\ ask' = ReadEnrichment
  /\ Reading

-----------------------------------------------------------------------------
\* query_leads and list_leads, by a client that walks the pages it is told of.

\* Postgres sorts NULL above every value.
Null == 1000000
SortKey(r, sort_by) ==
  CASE sort_by = "fetched_at" -> r.batch
    [] sort_by = "signal_strength" -> r.lead.signal.strength
    [] sort_by = "posted_at" -> IF r.lead.posted_at = Undated THEN Null ELSE r.lead.posted_at
    [] sort_by = "score" -> IF r.score = {} THEN Null ELSE CHOOSE s \in r.score : TRUE

Matching(source) == {i \in DOMAIN table : source \in {"", table[i].lead.source}}

\* Rows with equal keys come in any order, and in another one the next time.
Listings(q) ==
  LET key(i) == SortKey(table[i], q.sort_by)
  IN {s \in SetToSeqs(Matching(q.source)) :
        \A i, j \in DOMAIN s : i < j =>
          IF q.sort_order = "desc" THEN key(s[i]) >= key(s[j]) ELSE key(s[i]) <= key(s[j])}

PageSize(n) == IF n < MaxPageSize THEN n ELSE MaxPageSize

\* A variant that counts pages from zero.
Offset_ZeroBased(page, size) == (IF page > 1 THEN page ELSE 1) * size

Offset(page, size) == ((IF page > 1 THEN page ELSE 1) - 1) * size
TotalPages(total, size) == IF total = 0 THEN 0 ELSE (total + size - 1) \div size

Window(s, offset, limit) ==
  {s[i] : i \in {j \in DOMAIN s : offset < j /\ j <= offset + limit}}

AskPages ==
  /\ ask = Quiet
  /\ \E q \in market.lists :
       ask' = [kind |-> "pages", size |-> PageSize(q.size), sort_by |-> q.sort_by,
               sort_order |-> q.sort_order, source |-> q.source, page |-> 1, total |-> {},
               seen |-> {}, old |-> Len(table), stale |-> FALSE, done |-> FALSE]
  /\ Reading

CountMatching ==
  /\ ask.kind = "pages" /\ ~ask.done /\ ask.total = {}
  /\ ask' = [ask EXCEPT !.total = {Cardinality(Matching(ask.source))}]
  /\ Reading

\* The rows of the page; the client goes on while there are pages to come.  The
\* total may be outrun by rows stored since they were counted.
ReadPage ==
  /\ ask.kind = "pages" /\ ~ask.done
  /\ \E total \in ask.total, s \in Listings(ask) :
       LET last == ask.page >= TotalPages(total, ask.size)
       IN ask' = [ask EXCEPT !.seen = @ \cup Window(s, Offset(ask.page, ask.size), ask.size),
                             !.page = IF last THEN @ ELSE @ + 1,
                             !.total = {}, !.stale = Len(s) # total, !.done = last]
  /\ Reading

Dismiss ==
  /\ \/ ask.kind = "stats" /\ Len(ask.counts) = 5
     \/ ask.kind = "detail" /\ ask.parts = {"row", "enrichment"}
     \/ ask.kind = "pages" /\ ask.done
  /\ ask' = Quiet
  /\ Reading

Tick == clock + 24 <= EndHour /\ clock' = clock + 24
        /\ UNCHANGED <<market, table, offered, work, ask>>

DeskNext ==
  \/ Scrape \/ Tick
  \/ \E w \in Pipelines :
       \/ \E i \in DOMAIN table : Check(w, i)
       \/ Claim(w) \/ Pause(w) \/ Classified(w) \/ UpsertEnrichment(w) \/ UpdateScores(w)
       \/ Break(w)
  \/ AskStats \/ ReadStats \/ AskDetail \/ ReadDetail
  \/ AskPages \/ CountMatching \/ ReadPage \/ Dismiss

DeskSpec == DeskInit /\ [][DeskNext]_deskVars

-----------------------------------------------------------------------------
\* A variable keeps its type, and no two rows share a hash or a source key.
DeskTypeOK ==
  /\ market \in Markets /\ clock \in StartHour..EndHour
  /\ \A i \in DOMAIN table :
       /\ table[i].lead.signal.type \in SignalTypes
       /\ table[i].lead.signal.strength \in 0..100
       /\ table[i].status \in {"new", "enriching", "budget_paused", "scored"}
       /\ table[i].status = "scored" => table[i].score # {}
       /\ \A j \in DOMAIN table \ {i} :
            /\ Identity(table[j].lead) # Identity(table[i].lead)
            /\ SourceKey(table[j]) # SourceKey(table[i])

\* A lead that was taken for a duplicate is one: a row tells of the same
\* company, or of the same person when neither names a company, with the same
\* signal on the same day (or, like it, without a date), or has the same url.
DuplicateIsReal ==
  \A x \in offered : \E r \in ToSet(table) :
    LET y == r.lead
    IN \/ /\ x.signal.type = y.signal.type
          /\ x.posted_at = Undated <=> y.posted_at = Undated
          /\ x.posted_at # Undated => x.posted_at \div 24 = y.posted_at \div 24
          /\ \/ x.company_domain # <<>> /\ x.company_domain = y.company_domain
             \/ /\ x.company_domain = y.company_domain
                /\ x.person_name # <<>> /\ x.person_name = y.person_name
       \/ x.url = y.url /\ <<>> = x.company_domain /\ <<>> = x.person_name

\* Numbers on the dashboard that do not agree differ only by leads stored while
\* they were read: no count goes down, and none counts what is not there.
StatsNest ==
  ask.kind = "stats" =>
    /\ \A n \in DOMAIN ask.counts : ask.counts[n] <= Len(table)
    /\ \A m, n \in DOMAIN ask.counts \ {5} : m < n => ask.counts[m] <= ask.counts[n]

\* A lead shown as scored is shown with the enrichment its score was computed
\* from, unless two executions of the pipeline overlapped on it.
DetailConsistent ==
  ask.kind = "detail" /\ ask.parts = {"row", "enrichment"} /\ ask.status = "scored"
    /\ ~table[ask.lead].raced
  => \E a \in ask.enrichment : \E now \in StartHour..EndHour :
       ask.score = {FinalScore(a, table[ask.lead].lead.posted_at, now, Skills)}

\* Walking the pages to the last one meets every lead that was there before,
\* whatever is stored meanwhile, if its sort key is its own and no score, and no
\* lead slipped in between the count and the rows of the last page.
PagesMissNothing ==
  ask.kind = "pages" /\ ask.done /\ ~ask.stale /\ ask.sort_by # "score" =>
    \A i \in 1..ask.old \cap Matching(ask.source) :
      \/ i \in ask.seen
      \/ \E j \in Matching(ask.source) \ {i} :
           SortKey(table[j], ask.sort_by) = SortKey(table[i], ask.sort_by)

\* A lead whose stored classification says to skip it never shows more than 15
\* points: neither by its freshness nor by the score of another answer, when an
\* execution failed between the two writes and the lead was taken again.
SkipStaysLow ==
  \A r \in ToSet(table) : \A a \in r.enrichment, s \in r.score :
    s \in Points /\ (a.skip /\ ~r.raced => s <= 1500)
=============================================================================
