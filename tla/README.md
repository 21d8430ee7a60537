# leads.backend, modelled in TLA+

This directory holds a verification development for the leads backend: TLA+
modules translated from the Python source, TLC configurations that model-check
them on small instances, and theorems checked by TLAPS. Paths below are
relative to the repository's root (`src/application/bus.py` is the file that
the repository calls so); line numbers are those of the modelled commit.

## The system

One asyncio process (FastAPI) and one Postgres database. Sources are scraped on
request, rows are stored as "new" leads, an in-process bus carries a
`LeadCreated` event per row to one enrichment worker, which runs a six-stage
pipeline with two LLM calls and stores a score. The bus is memory only; the
`status` column of `raw_leads` is the durable queue, and a resweeper republishes
events for rows whose status says they wait.

### Inventory

| Component | State | Operations | What makes it correct |
|---|---|---|---|
| Event bus (`application/bus.py`) | one bounded `asyncio.Queue` per event type, its count of unfinished tasks | `publish` (drops when full), `consume`, cancellation | accepted events are handled once, in order; a failing handler does not end the loop; `join()` waits for what is queued |
| Scrape publisher (`infrastructure/bus_publisher.py`) | none | `publish_new_leads` | one event per committed row |
| Enrichment worker (`application/workers.py:34-108`) | consecutive failures, time until which the circuit is open | `_handle_event` | nothing runs while the circuit is open; refused events are not lost for good |
| Resweeper (`application/workers.py:111-162`) | none; rows read and not yet published | `start`, `_sweep`, the startup sweep | every waiting row is offered again |
| Pipeline (`modules/enrichment/pipeline.py`, `stages/`) | the context of a run; `raw_leads.status`, `score`; `lead_enrichments` | fetch, resolve, enrich, classify, score, persist | a lead is scored once, from the classification stored for it; a claim ends |
| Company resolver (`modules/enrichment/company_resolver.py`) | `company_resolutions` | `resolve` | never fails a run after the cache lookup |
| LLM ledger (`infrastructure/postgres_repo.py:487-524`) | `llm_call_log` | `log_llm_call`, `get_daily_llm_cost` | the daily budget bounds what is paid |
| Orchestrator (`modules/scraping/orchestrator.py`) | the run's locals; `scrape_runs` | `run`, `_is_circuit_open` | a committed row is announced; a failing adapter is paused and released |
| `insert_leads` (`infrastructure/postgres_repo.py:154-207`) | `raw_leads` with two unique constraints | insert a batch in one transaction | keys stay unique; a batch that is reported as stored is stored |
| HTTP API (`api/routes.py`) | none | `/scrape`, `/enrich`, `/reprocess`, read-only queries | requests keep the promises of the background work |
| Lifecycle (`main.py`, `container.py`) | the tasks | startup, shutdown | memory may be lost at any point |
| HTTP fetcher (`infrastructure/fetchers/http.py`) | the locals of a request | `_fetch` with its retries | a bounded number of tries and seconds, one outcome, typed failures |
| Browser pool (`infrastructure/fetchers/browser.py`) | browser, page count, lock | `page`, recycle, `close` | no page loses its browser; no context leaks |
| Source adapters (`modules/scraping/adapters/`) | the locals of a run | `fetch_raw`, `normalize` | nothing asked for is left out silently; a lead is what its record says |
| CSE budget (`modules/scraping/adapters/google_cse.py:29-115`) | counter per day, shared by runs | `can_query`, `record_query` | the daily quota |
| Signals, dedup hash, scoring | none (pure) | `classify`, `compute_dedup_hash`, `compute_final_score` | known types; no lead taken for another; range and monotonicity of the score |
| Dashboard (`api/routes.py:255-338`, `infrastructure/postgres_repo.py:555-711`) | none | `list_leads`, `get_lead`, `lead_stats` | answers put together from several statements hang together |
| LLM providers, prompts, config | none | formatting and transport | out of scope, except as inputs |

### How they interact, and what is hard about it

* A scrape commits rows and then publishes: two steps, with a crash or a full
  queue between them. The worker takes one event at a time. Its handler returns
  at once while its breaker is open, so the event is gone from the queue.
* `POST /enrich` runs the same pipeline beside the worker, without queue, breaker
  or lock. The status is read in one wait and overwritten in the next.
* The daily cost is read before the LLM call and written after it.
* Sweeps and `POST /reprocess` publish rows they read one wait earlier: stale
  events and duplicates are normal.
* Adapters differ in what one failed request of several does to a run; two runs
  of google_cse share one counter, checked before a query and charged after it;
  the thread that hnhiring pages through moves while it is read.
* An answer of the dashboard is several statements, each with its own snapshot,
  while scrapes insert and pipelines score.
* Scrapes of one adapter may run together; their transactions wait for each
  other's uncommitted rows and may deadlock.
* Everything in memory is lost when the process ends.

`PROJECT.json` lists these hazards, each at its line with the properties that
watch it.

## Modules

| Module | Models | Notes |
|---|---|---|
| `BusQueue` | a bounded queue as a sequence | shared by `EventBus` and `Enrichment` |
| `EventBus` | `application/bus.py` | queues with and without a consumer, cancellation in `get` and in the handler, the double `task_done` and what it leaves |
| `LeadLifecycle` | what the `status` column promises | abstract: new, claimed, paused, scored |
| `Enrichment` | worker, breaker, pipeline, sweeps, ledger, process | implements `LeadLifecycle` when the worker is the only runner |
| `Scraping` | orchestrator, `insert_leads`, `scrape_runs`, adapter breaker | concurrent transactions with waits |
| `BrowserPool` | `fetchers/browser.py` and its use by `Container.close` | the shared Chromium, its lock and its recycling |
| `HttpRequest` | what a request promises its caller | abstract: open, missed, closed |
| `HttpFetcher` | `fetchers/http.py` | one request with its retries; implements `HttpRequest` |
| `SourceFetch` | `fetch_raw` of the ten adapters, the CSE budget, `build_adapters` | extends `HttpFetcher`: the adapters are its callers |
| `LeadRules` | `signals.py`, `normalize` of the adapters, `dedup.py`, `scoring.py`, the day of the ledger | operators, no state |
| `LeadDesk` | the table of leads, written by scrapes and pipelines, read by the dashboard | extends `LeadRules` |
| `MCEnrichment`, `MCScraping`, `MCEventBus`, `MCSourceFetch`, `MCLeadDesk` | instances for TLC | symmetry sets and the small records |
| `EnrichmentProofs` | theorems: types, events and rows, any number of runners | TLAPS |
| `LifecycleProofs` | theorems for the worker alone, and the refinement | TLAPS, extends `EnrichmentProofs` |
| `BrowserPoolProofs` | theorems about `BrowserPool` | TLAPS |
| `ScrapingProofs` | theorems about `Scraping` | TLAPS |
| `BusProofs` | theorems about `EventBus` | TLAPS |
| `FetchProofs` | theorems about `SourceFetch`, and the refinement of `HttpRequest` | TLAPS |
| `RulesProofs` | theorems about `LeadRules` | TLAPS |
| `DeskProofs` | theorems about `LeadDesk` | TLAPS, extends `RulesProofs` |

### Granularity

Coroutines interleave only at an `await` that really suspends: Postgres, the
LLM, HTTP, `queue.get()` on an empty queue. An action is one such wait with the
local code up to the next. `EventBus.publish` contains no such await
(`put_nowait`), so a loop of publishes is one action (`AnnounceBatch`,
`Republish`, `Publish`). Operators whose names end in `_<Word>` next to an action
are variants of it as a plausible bug would make them; no specification uses
them, and each one is there to show that a property notices the bug.

### Enrichment

State and code: `status`, `score` are the columns of `raw_leads`, `enrichment` is
`lead_enrichments`, `resolved` is `company_resolutions`, `smartSpent` and
`cheapSpent` are today's `llm_call_log` by stage, `created` and `announced` are
the two bus queues, `run[r]` is the stack frame of `EnrichmentPipeline.execute`
of runner `r` (place, lead, classification), `failures` and `circuitOpen` are the
worker's breaker, `rows` and `batch` are what a sweep or a scrape has read or
committed and not yet published.

| Action | Code |
|---|---|
| `CommitBatch`, `AnnounceBatch` | `insert_leads`, then `publish_new_leads` |
| `SweepRead`, `Republish` | `PendingLeadsResweeper._sweep`, periodic and at startup |
| `ReprocessRead`, `Republish` | `POST /reprocess` |
| `SkipEvent`, `TakeEvent` | `EventBus.consume` and the head of `_handle_event` |
| `AcceptRequest` | `POST /enrich/{lead_id}` |
| `CheckStatus`, `Claim` | `FetchStage` |
| `Resolve`, `ChargeCheap`, `CacheResolution`, `ResolveFails` | `LLMCompanyResolver.resolve` |
| `EnrichCompany` | `EnrichCompanyStage` |
| `CheckBudget`, `Pause`, `Charge` | `ClassifyStage` |
| `Upsert`, `Score`, `Announce` | `PersistStage` (`ScoreStage` is pure) |
| `Fail` | an exception at any wait, and the except clauses of `_handle_event` |
| `CircuitExpires`, `Age`, `NewDay` | the clock: 300 s, `older_than_minutes`, the day of the ledger |
| `Crash`, `Restart` | end of the process and `start_background_workers` |

Abstractions, and why they are sound here:

* The semaphore of the worker is left out: the consumer awaits its handler, so at
  most one handler runs and the semaphore never blocks.
  (`LEADS_MAX_CONCURRENT_ENRICHMENTS` therefore does not parallelise anything.)
* A classification is a member of `Verdicts`; the score is a function of it and is
  represented by it.
* A call that took effect but whose answer was lost is the same as a `Fail` at the
  next place, which the model has.
* A sweep whose query fails reads no row and sleeps: the same as reading an empty
  set, which `SweepRead` does when no row is eligible; `LIMIT` without `ORDER BY`
  may return any rows.
* An answer that does not validate raises before `log_llm_call`: a `Fail` at
  "charge". That its cost is then missing from the ledger is not modelled.
* The company cache (`get_cached_company`) changes only the prompt.
* The status set leaves out "sent", "closed" and "dead": no code writes them.

### Scraping

`stored` is `raw_leads`, `runLog[a]` the `scrape_runs` of adapter `a` inside the
cooldown window, ordered by `started_at` as the breaker reads them, `run[r]` the
locals of one `ScrapeOrchestrator.run`, `mine` the rows its transaction has
inserted and not committed. An `INSERT ... ON CONFLICT (dedup_hash) DO NOTHING`
that meets an uncommitted row with the same hash waits for that transaction
(`WaitsFor`); a row with another hash and the same `(source, source_id)` raises
IntegrityError, and the handler's `session.rollback()` inside
`async with session.begin()` makes the following `session.begin()` raise, so the
whole run fails (`RowConflicts`). Two waits that form a cycle are broken by
Postgres (`DeadlockVictim`). A run refused by the breaker is answered and not
recorded.

### EventBus

`unfinished` is the queue's count of unfinished tasks; `accepted`, `taken` and
`published` are history. A consumer may be cancelled while it waits or while its
handler runs; in the second case `task_done` is called in the except clause and
again in the finally clause. With other events queued that leaves the count one
short (the consumer is "interrupted"); with none, the second call raises
ValueError in place of the cancellation ("raised") and the count is right.
`Shortfall` is that missing event, and `CountIsExact` says that nothing else,
overflow and failing handlers included, ever puts the count off.

### BrowserPool

`browser`, `driver`, `pageCount` and `lock` are the attributes of the pool,
`pc[t]` is the `await` at which a coroutine of `fetch_html` or the shutdown is,
`pageOf[t]` the local `browser` of `page()`, `alive` the Chromium processes and
`contexts` what they have open.

| Action | Code |
|---|---|
| `Call`, `Shutdown` | `fetch_html`; the server drains its requests, then `Container.close` |
| `Reuse`, `Recycle` | the head of `page()` under the lock, with `needs_restart` |
| `CloseBrowser`, `StopDriver` | `_close_browser`; failures are logged or suppressed |
| `StartDriver`, `Launch`, `StartFails` | the rest of `_ensure_browser`; a failure releases the lock |
| `NewContext`, `Proceed`, `PageFails`, `CloseContext` | `page()` outside the lock and the body of `fetch_html` |
| `ChromiumCrashes` | external |

A browser has the name of the call that launched it. Every Playwright call may
fail; all calls on a browser that is gone fail. A failed `close()` may leave the
process running; `stop()` of its driver ends it. The shutdown waits for the
fetches because the server completes its requests before it runs the end of
`lifespan`. Nothing cancels a fetch in this code, and `restart_after_pages` is
taken to be at least 1.

### HttpFetcher and SourceFetch

`call[c]` is the stack frame of `HttpFetcher._fetch` for the caller `c`: the place
of its await (the request or the sleep), the attempt, the seconds slept, and how
it ended. `run[c]` is the frame of `fetch_raw`: the adapter, how many feeds or
queries it was asked for (`plan`), the one it is at, those it has an answer for
(`got`) and those it has given up (`lost`). `quota` is `_DailyBudget`, `today`
what `date.today()` says. `tier` is history: what Google saw today, every attempt of
a query counted when it is sent, and those that ended in anything but an answer.
The code keeps no such count: it charges a query once, after its success, so
`QuotaOvershoot` compares the two. `_DailyBudget` lives in memory; a
restart forgets it, which is not modelled here.

| Action | Code |
|---|---|
| `BeginCall`, `EndCall` | entering `_fetch`, taking its `FetchResponse` or its exception |
| `Succeed`, `ClientError`, `TooManyRequests`, `Unavailable` | the answer of an attempt: below 400, 4xx, 429, and 5xx, transport error or timeout |
| `Escape` | what the except clause of the loop does not name and no retry sees |
| `Wake` | the end of `asyncio.sleep` and the next attempt |
| `Begin` | `fetch_raw` up to its first request; `build_adapters` says for which adapters |
| one action per adapter | what the adapter does with an answer or a failure, up to its next request |
| `FindLatestThread`, `TopLevelComments` | the two phases of hnhiring |
| `ThreadMoves` | Hacker News: comments and replies come, one is withdrawn |
| `Leave`, `Midnight` | the orchestrator takes over; the calendar |

Processing an answer and sending the next request are one step, because no await
lies between them; adapters of feeds wait there for a thread that parses and
shares nothing, so the step is the same. An answer holds any number of records.
`RetryAfters` contains 0 for a header that is missing, unreadable or "0", which
the code treats alike. An attempt that the table of waits does not reach raises
IndexError, which is the outcome "untyped". The except clause names transport errors
and timeouts (`http.py:198`): too many redirects, a broken Content-Encoding and a JSON
body that does not decode leave the loop at the first try, as "raw". Wellfound asks the browser pool and not the fetcher; what a
browser call does is in `BrowserPool`. The comments of a thread are numbers, and
0 stands for what need not be returned: replies, and comments that came after
the start of the run.

### LeadRules and LeadDesk

A record of a source ("post") is given by what the patterns, selectors and
parsers find in it: `hits` are the patterns its text matches, `ids` its id
fields in the order the adapter tries them. Absent values are empty sets or
empty sequences. `Identity` is the text that is hashed; the digest is taken to be
injective. Scores are counted in hundredths of a point, with percents and square
roots rounded down, so that every boundary of the code is kept; what two decimal
places of floating point add is not.

`table` is `raw_leads` with its enrichments, `work[w]` a pipeline execution,
`ask` the one reader. `StoreBatch` is a whole scrape that commits; the interleaving
of its statements is the subject of `Scraping`. It takes the posts that `normalize`
makes a lead of (`Kept`) and stores the `Fresh` ones, whose hash is neither in the
table nor that of an earlier lead of the batch; a second row for a source key
fails the whole batch.

| Action | Code |
|---|---|
| `Scrape` | `normalize` of each record, `compute_dedup_hash`, `insert_leads` |
| `Check`, `Claim`, `Pause`, `Classified`, `UpsertEnrichment`, `UpdateScores`, `Break` | the stages of the pipeline, and its end at any of them; `Check` takes every lead that is not scored |
| `AskStats`, `ReadStats` | `get_lead_stats`, one statement a step |
| `AskDetail`, `ReadDetail` | `get_lead_detail`: the row, then the enrichment |
| `AskPages`, `CountMatching`, `ReadPage` | `list_leads` and `query_leads`, for a client that follows `total_pages` |
| `Tick` | a day passes |

`ReadPage` chooses any order among rows with equal keys, and another one for every
page: the query has no second sort column. A lead whose execution broke after the
claim stays "enriching", and `FetchStage` takes it again: the second execution may
replace an enrichment that was stored and never scored. NULL sorts above every value, as in
Postgres. Of the filters only the one by source is modelled.

## Runs

| Run | Instance | Checks |
|---|---|---|
| `enrichment_worker` | two leads, two verdicts, no requests, one sweep pair, one operator, one scrape, queue of 1, one failure, one crash | `TypeOK`, `EventsReferToRows`, `ScoreMatchesEnrichment`, `CircuitGate`, `ScoredIsFinal`, `ImplementsLifecycle` |
| `enrichment_manual` | one lead without a domain, the worker and two requests, a budget of one call, one failure | `BudgetOvershoot`, `ClaimHasRunner`, `ResolutionsBounded` |
| `enrichment_faults` | one lead without a domain, two failures, one crash, fairness | `QueuedIsPickedUp`, `ScoredOrAbandoned` |
| `enrichment_stuck` | one lead, one failure, fairness | `EverythingRecovers` is violated |
| `enrichment_race` | one lead, worker and one request | `ScoredIsFinal` is violated |
| `scraping` | three records (two with one hash, two with one source key), two scrapes of one adapter, one failure, one crash | `TypeOK`, `KeysStayUnique`, `SuccessMeansStored`, `EveryRowOffered` |
| `scraping_live` | the same records, no failure, fairness | `BreakerResets`, `ScrapesAnswer` |
| `scraping_conflict` | the same records, one scrape | `ConflictIsSkipped` is violated |
| `browser_pool` | two fetches, four calls, a browser of two pages, two failures, one crash of Chromium, the shutdown, fairness | `TypeOK`, `ServedWithinBound`, `LostOnlyByRecycle`, `OrphansTakeTwoFailures`, `LeaksTakeFailures`, `WaitsEnd` |
| `fetching` | two callers, three tries, feeds or queries up to two, a budget of two over two days with up to six failed attempts of google_cse in each, pages of two, fairness | `FetchTypeOK`, `BoundedWait`, `QuotaOvershoot`, `NoCommentMissed`, `NothingDropped`, `ImplementsRequest`, `FetchesEnd` |
| `desk` | seven markets with the ten adapters, one lead enriched by up to two pipelines, one reader, pages of one and two | `DeskTypeOK`, `DuplicateIsReal`, `StatsNest`, `DetailConsistent`, `PagesMissNothing`, `SkipStaysLow` |
| `event_bus` | three events for a queue of two with a consumer, two for a queue without | `TypeOK`, `InOrderOnce`, `CountIsExact`, `AcceptedIsTaken` |

Every property of a passing run has a mutant: a variant of one definition under
which TLC finds the property violated.

### Bounds, and why they are enough

* `Cap = 1` with two leads makes overflow, partial acceptance of a batch and an
  event waiting behind a busy worker all happen; `Cap = 2` with three events does
  the same in `EventBus`.
* `MaxFailures = 1` opens the breaker with the first failure and
  `Threshold = 2` (1 in the liveness run) opens the adapter's with two, so
  the open states are reached within few steps. Counting up to 10 is the same
  counter; the theorems hold for every value.
* `Budget = 1` and `2` with unit costs put the ledger below, at and above the
  ceiling. In `enrichment_manual` three runners pass the check of a budget of one call,
  and its lead needs a resolution, so that each of them pays the resolver too
  before an answer is cached; both bounds are reached.
* `MaxFaults`, `MaxCrashes` bound how often the environment fails: one failure
  and one crash in any order and place already give a failed claim followed by a
  restart; `enrichment_faults` allows two failures, so that an attempt fails
  again after the row was offered again. `MaxLog` bounds the run log to one entry more than the threshold.
  `SweepLimit = 1` makes a sweep leave rows behind.
* Four calls on a browser of two pages make one browser serve all its pages, the
  next be launched while a page of the first is in use, and leave a call for the
  third; two failures are a close and a stop of the same browser.
* In `fetching`, the adapters that share nothing with another run are explored
  alone (`Alone`); two runs of google_cse meet on one counter, over midnight too.
  Two pages of two comments make the last page full, short and empty, and the
  thread may outgrow the pages. Three tries pass through failure, sleep and last try.
  `MaxFailed = 6` lets both runs of google_cse fail for good on one day, and every
  query be retried.
* In `desk`, a market is what the sources show, the requests that scrape it and
  the lists asked for; a behaviour picks one. Each is a group of records that may
  be taken for one another (one company on two sources, the author of an undated
  post, a post edited between scrapes, cards without a link), so that the
  product of all records never has to be explored. One lead is enriched, by two
  pipelines that may overlap on it.
* Symmetry is used in safety runs only, over sets that no constant or property
  singles out.

`EventBus` really stops when all consumers are cancelled or no event is left,
`BrowserPool` after the shutdown, and `LeadDesk` when nobody asks and there is nothing to store, so their runs do not
check for deadlock; the others do.

### Fairness

Every fairness condition is one the scheduling gives. The event loop resumes
every ready coroutine: weak fairness of the worker, of each place of a run, of
the publish loops. The resweeper is an endless loop with a sleep: weak fairness
of its read. Time passes: `CircuitExpires`, `NewDay`, `Age`, `CooldownPasses`.
The container platform restarts a process that ended: `Restart`. No fairness is
given to requests, scrapes, operators, failures or crashes. The liveness of the
resweeper needs `SweepLimit` rows of any choice to be enough: the sweep reads an
arbitrary subset, which weak fairness does not make fair to one lead;
`QueuedIsPickedUp` holds all the same on this instance because rows leave the
eligible set once they are claimed. `Scraping` uses strong fairness of a
request: Postgres wakes the waiter of a row when the holder's transaction ends,
long before the same request can have fetched again. `BrowserPool` uses it for the
lock: `asyncio.Lock` wakes its waiters in order. That every Playwright call ends
is a timeout's doing for `goto`, `wait_for_selector` and `launch` only; `start`, `stop`,
`new_context`, `route`, `new_page`, `content` and `close` are awaited without one in this
code. That those end is an assumption about Playwright, and `WaitsEnd` rests on it:
a `close` that hangs keeps the lock, and every later page waits. `SourceFetch` assumes
weak fairness of what a run and its request do by themselves (`Proceed`): httpx has
timeouts, a sleep ends, and a page is fetched if `WaitsEnd`. `MaxFailed` takes from the
server the choice to fail for ever, which the retry loop, with its bounded tries,
does not need. `LeadDesk` has no liveness.

## What the violated runs show

* `enrichment_stuck` -- README.md:44, "If the process crashes, the queue overflows,
  or a handler throws -- the resweeper recovers everything on restart." A lead that
  was claimed when that happened is "enriching", which the resweeper does not
  look for.
* `enrichment_race` -- `api/routes.py:163`, "Idempotent.", and `stages/fetch.py:36`,
  "Mark as enriching to claim the work". The UPDATE is unconditional.
* `scraping_conflict` -- `postgres_repo.py:201-202`, "Skip it."

More statements that the code does not keep have no run of their own.
`fetchers/browser.py:38-39`, "ensures cleanup even on exceptions": the `try`
begins after `new_context`, `route` and `new_page`, so a failure of the last two
leaves the context open; `LeaksTakeFailures` says that nothing else leaks, and
`ServedWithinBound` that the browser is recycled all the same.
`fetchers/http.py:121` has three waits and `max_retries` is a setting: with five or
more, the fourth failure raises IndexError instead of a typed exception, which is
why `RequestCorrect` assumes one to four tries.
`postgres_repo.py:512` asks for the local date and selects a UTC day (`DayIsLocal`).
`query_leads` sorts by one column: rows with equal keys may be missing from every
page, which is why `PagesMissNothing` excepts them.

Five more are contradicted by a property that holds, or by a definition; the first
four are listed as findings of their passing runs.

* `api/routes.py:202-205`, "Useful when scoring formula or prompts change.", of
  `POST /reprocess`, which by default (`routes.py:191`) asks for the leads that are
  "scored". `FetchStage` raises `AlreadyProcessedError` for every one of them
  (`fetch.py:15,32`): the request answers how many it has requeued, and none is scored
  again. `ScoredIsFinal` and `ImplementsLifecycle` of `enrichment_worker`
  hold for these events as for any others; for the purpose the document names,
  that is not what is wanted.
* README.md:191 calls the daily budget a "hard ceiling". The check and the entry are
  two steps: `BudgetOvershoot` says by how much the classifications of a day may
  exceed it, and it is reached. The resolver asks no ceiling and is called before
  the check, on a day whose budget is spent too: `ResolutionsBounded` says
  that the cache alone bounds what it costs.
* `application/bus.py:61`, "so queue.join() works for shutdown": a consumer cancelled in
  its handler calls `task_done` twice, and `join()` returns with an event in the
  queue. `CountIsExact` of `event_bus` contains that event as `Shortfall`.
* `adapters/google_cse.py:5`, "enforced to protect the free tier": attempts that fail
  are sent and not charged. `QuotaOvershoot` of `fetching` contains them as
  `tier.failed`.
* `scoring.py:83`, "Linear decay: 100 at 0h, 50 at 24h, 0 at 72h": a line from 100 at
  0h to 0 at 72h is at 66.7 after 24h, which is what the code and its test
  (`tests/test_scoring.py`) say, and `Recency`.

## Proofs

All theorems are about a `Spec` without fairness, for every value of the constants
that the modules' assumptions allow: for `Enrichment` that the worker is not a
request, that leads and requests are finite sets, and the types of the numbers;
for `BrowserPool` that the fetches are finitely many, the shutdown is not one of
them and `restart_after_pages` is at least 1; for `Scraping` that the records are
finitely many and every feed is one of records; for `EventBus` that a type has at
most one consumer; for `SourceFetch` that the callers are finitely many and pages
are not empty; for `LeadDesk` that posts come from the ten adapters and are
undated or dated after day 0, that requests are within the bounds of
`ScrapeRequest` and answers are what `ClassificationResponse` validates, that a
list is sorted by one of the four columns and its pages hold a lead (`list_leads`
has no lower bound for `page_size`; a page of 0 divides by zero). `LeadRules` has no
constants. None depends on the runs' bounds: `MaxFaults`, `MaxCrashes` and
`MaxCalls` may be any naturals.

| Theorem | Statement | Assumes | Inductive with |
|---|---|---|---|
| `TypeCorrect` | `[]TypeOK` | | itself |
| `EventsCorrect` | `[]EventsReferToRows` | | `TypeOK` |
| `CircuitCorrect` | `[]CircuitGate` | | `TypeOK` |
| `ClaimCorrect` | `[]ClaimHasRunner` | | `TypeOK` |
| `OvershootCorrect` | `[]BudgetOvershoot` | | `OvershootInv` |
| `ResolutionsCorrect` | `[]ResolutionsBounded` | | `ResolverInv` |
| `ScoreCorrect` | `[]ScoreMatchesEnrichment` | `Requests = {}` | `SoleInv` |
| `ScoredCorrect` | `ScoredIsFinal` | `Requests = {}` | `SoleInv` |
| `LifecycleCorrect` | `ImplementsLifecycle` | `Requests = {}` | `SoleInv` |
| `PoolTypeCorrect` | `[]TypeOK` (`BrowserPool`) | | `PoolInv` |
| `ServedCorrect` | `[]ServedWithinBound` | | `PoolInv` |
| `LostCorrect` | `[]LostOnlyByRecycle` | | `PoolInv` |
| `OrphansCorrect` | `[]OrphansTakeTwoFailures` | | `PoolInv`, `OrphanInv` |
| `LeaksCorrect` | `[]LeaksTakeFailures` | | `PoolInv`, `LeakInv` |
| `ScrapeTypeCorrect` | `[]TypeOK` (`Scraping`) | | `ScrapeInv`, `LogInv` |
| `KeysCorrect` | `[]KeysStayUnique` | | `ScrapeInv` |
| `SuccessCorrect` | `[]SuccessMeansStored` | | `ScrapeInv` |
| `OfferedCorrect` | `[]EveryRowOffered` | | `ScrapeInv` |
| `BusTypeCorrect` | `[]TypeOK` (`EventBus`) | | `BusInv` |
| `BusInOrder` | `[]InOrderOnce` | | `BusInv` |
| `BusCountCorrect` | `[]CountIsExact` | | `BusInv` |
| `FetchTypeCorrect` | `[]FetchTypeOK` | | `FetchInv` |
| `WaitCorrect` | `[]BoundedWait` | | `FetchInv` |
| `DroppedCorrect` | `NothingDropped` | | `FetchInv` |
| `QuotaCorrect` | `[]QuotaOvershoot` | | `FetchInv`, `Charged`, `SentInv` |
| `CommentsCorrect` | `[]NoCommentMissed` | | `FetchInv`, `PagesInv` |
| `RequestCorrect` | `ImplementsRequest` | `MaxRetries \in 1..4` | `FetchInv`, `AllEnd` |
| `KeptLeadsAreTyped` | every lead an adapter keeps has a type the database knows | `Builds(q)` | |
| `SameHashSameLead` | one key, one lead, across the fallbacks of the key | dates after day 0 | |
| `KeptLeadsInRange` | every lead an adapter keeps has a strength from 0 to 100 | `Bounded(q)` | |
| `ScoreInRange` | scores from 0 to 100 points, at most 15 for a skip | | |
| `FresherScoresHigher` | the same answer scores no higher later | | |
| `DayIsLocal` | when a cost of this moment counts for today | offsets from -12 to 14 | |
| `DeskTypeCorrect` | `[]DeskTypeOK` | | `RowsInv` |
| `DuplicateCorrect` | `[]DuplicateIsReal` | | `RowsInv` |
| `SkipCorrect` | `[]SkipStaysLow` | | `RowsInv` |
| `StatsCorrect` | `[]StatsNest` | | `ReaderInv` |
| `DetailCorrect` | `[]DetailConsistent` | | `ReaderInv` |
| `PagesCorrect` | `[]PagesMissNothing` | | `ReaderInv`, `PagesInv` |

* `TypeOK` carries what a run's place says of its frame (a lead, a verdict), which
  every other proof needs to expand a step.
* `EventsReferToRows` is the conjunction of one part per carrier of a lead: the two
  queues, what a sweep has read, what a scrape has committed, what the worker
  holds. A row never goes away (`RowsPersist`), so each step is a matter of which
  carrier it fills from which.
* `BudgetOvershoot` is not inductive: between the check and the entry, any number
  of runners may be on their way to pay. `OvershootInv` counts them:
  what is paid plus one call for every runner at "charge" stays below the budget
  plus one call for every runner. A runner enters "charge" only below the budget;
  its entry moves one call from the second term to the first.
* `ResolutionsBounded` forgets the calls on their way, and `ResolverInv` counts them:
  the runners that found no answer in the cache, with a loss for each failure
  or crash that keeps one of them from storing its own. Its ceiling is a product of
  two unknowns, which the prover only handles as facts of their own (`CheapMonotone`).
* `SoleInv` says what the worker still knows when it acts on what it read: the
  status is the one it read or the one it wrote, and the classification it is about to
  score is the one stored.
  With a request beside the worker they are false, as `enrichment_race` exhibits:
  the assumption `Requests = {}` is the border between the theorems and that
  finding.
* The step proofs go by the cases of `StepCases`: steps in which no runner moves
  (`QuietFrame`), and steps of one runner, which move no other (`RunnerFrame`).
* `PoolInv` has one part per fact: who is under the lock (`LockHeld`) and what that
  task knows of the pool (`HolderKnows`), that the names of browsers to come are
  fresh, that the count of the pool is that of its browser (`CountIsServed`), and
  that a fetch closes and stops only what has served all its pages or none
  (`EndedIsSpent`), from which `LostOnlyByRecycle` follows step by step. `OrphanInv`
  adds the state between a failed close and the stop, where one failure is not
  yet paid for. `LeakInv` compares, browser by browser, the contexts that are open
  with the fetches that hold one: a surplus in a living browser is at most the
  failures so far, and a browser that served nothing has none.

* `ScrapeInv` says of every run what its transaction has done so far: each record of
  the batch is still to come or meets a row of its hash that the transaction sees.
  A commit makes what it sees what is stored, which is `SuccessMeansStored`; an
  abort forgets the rows and the error keeps the run from being a success. That
  keys stay unique needs the waits: the row that `AddRow` inserts is compared with
  the committed rows and the transaction's own by the guard, and with the rows of
  every other transaction by `WaitsFor(r) = {}` (`NoHolder`). `LogInv`
  adds the run log: a run that takes its place in it, one that writes its outcome
  there and the cooldown that drops old entries each leave a sequence of entries.
* `BusInv` is the three invariants together: a count is a natural
  number only because it is exact while a handler is at work, as `task_done` would
  raise otherwise.
* `FetchInv` ties a run to its request (a request is under way exactly while the run
  waits), the sources behind it to `got` and `lost`, and the seconds slept to
  the attempts made. `QuotaOvershoot` follows from two invariants beside it. `Charged`:
  a run that starts to wait for a query has seen the counter below the budget, and
  stops when it charges, so that what is charged and what may yet be exceeds the budget by less
  than one query per run. `SentInv`: what was sent today is charged, in flight or
  has failed.
  `RequestCorrect` adds that a request ends in one of the ways `HttpRequest` knows
  (`AllEnd`), which fails when an attempt lies beyond the table of waits.
  `PagesInv` follows hnhiring through its thread: a comment that was there at the
  start of the run and lies in the pages already read is among the comments got
  (`HasPages`). What comes late moves comments back, into pages still to come
  (`InsertKeepsUp`); only a withdrawal moves one forward, past the reader, and a run
  that saw one promises nothing (`shrunk`).
* The theorems about `LeadRules` go by the cases of the rules, without induction.
* `RowsInv` is about the table and the pipelines: no two rows share a hash or a
  source key, every lead ever offered has a row of its hash, a row is as the pipelines
  left it, and each pipeline knows the row it works on (`Knows`): the score it will write
  is that of the answer it has stored, unless another one raced it. `Follows` says
  what a step may do to the table: a scrape appends rows, nothing else moves
  or removes one, and a row that is scored and was never raced is final. The
  readers need no more than that of the writers.
* `ReaderInv` has a part per answer of the dashboard. `StatsInv`: each count taken
  so far is at most the next one and at most the rows there are, and rows are only
  added. `DetailInv`: a row read as
  scored and never raced is final, so the enrichment read after it is its own.
* `PagesInv` is about a walk through pages whose order among equal keys changes at will.
  A row alone in its key is either among those seen, or so far down that the
  pages read could not hold it: at least (page - 1) * size rows come before it.
  Rows stored meanwhile move it back. At the last page it must have been seen,
  by the arithmetic of `total_pages` (`LastPage`, `TotalPages`), unless rows came
  between the count and that page, which the property excepts.

Every invariant, action property and refinement of the passing runs is stated by a
theorem. Only model-checked is liveness (`QueuedIsPickedUp`, `ScoredOrAbandoned`,
`BreakerResets`, `ScrapesAnswer`, `AcceptedIsTaken`, `WaitsEnd`, `FetchesEnd`): it rests on
fairness and ENABLED, which are out of TLAPS's reach.

## Not modelled, and why

* The endpoints for health, cost and schema, and the SQL behind them: one query
  each, nothing to relate. (`get_adapter_health` reports an open circuit by 3
  failures in 3600 s, whatever the orchestrator's settings are, under a comment that
  says "same cooldown semantics as the orchestrator", `postgres_repo.py:303`.)
* Prompts and their files, the two LLM providers, parsing of HTML and feeds,
  titles, bodies and locations: payload. What a regular expression or a parser
  finds is given with a record.
* The company cache (`get_cached_company`, `upsert_company`): it changes only what
  the prompt shows. The key of the resolution cache
  (`company_resolver.py:89`) is the lead itself.
* Calls that are billed and whose answer does not validate: the code does not
  enter them in the ledger.
* `infrastructure/db.py`, `container.py`, `config.py`: wiring and declarations; the
  settings that matter are CONSTANTS.
* Cancellation of a fetch or a scrape: nothing in this code does it.

## Plan

What is left, most important first:

1. `CompanyCache` (`company_resolver.py`, `enrich_company.py`, the two cache
   tables): concurrent misses, expiry, negative entries, and the key of 500
   characters that two leads may share.
2. `LeadPipeline`: `Scraping` and `Enrichment` composed over the shared table and
   bus, with `EveryRowOffered` as the first half of `QueuedIsPickedUp`.
3. Proofs: the pipelines of `LeadDesk` as an instance of the lifecycle, so that
   `DetailConsistent` follows from what `Enrichment` promises of a row; and the
   invariants of the two modules above.
