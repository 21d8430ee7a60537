----------------------------- MODULE Enrichment -----------------------------
(***************************************************************************)
(* The enrichment half of the process: the LeadCreated queue, the single   *)
(* enrichment worker with its circuit breaker, the six-stage pipeline it   *)
(* and POST /enrich run, the sweeps that republish pending rows, the daily *)
(* LLM ledger, and the loss of everything in memory when the process ends. *)
(*                                                                         *)
(* Coroutines interleave only where they wait for Postgres, the LLM or     *)
(* HTTP, so an action is one such wait together with the local code up to  *)
(* the next one.  A runner is whoever executes the pipeline: the worker or *)
(* a POST /enrich request.                                                 *)
(***************************************************************************)
EXTENDS BusQueue, FiniteSets, SequencesExt

CONSTANTS
  Leads,           \* primary keys of raw_leads
  NoLead,
  NoDomain,        \* the leads scraped without a company_domain
  Verdicts,        \* what a classification may say; a score is a function of it
  NoVerdict,
  Worker,          \* the enrichment_worker task
  Requests,        \* POST /enrich requests that may be in flight together
  Operators,       \* POST /reprocess requests that may be in flight together
  Scrapers,        \* scrape runs that may be in flight together
  SweepLimit,      \* batch_size of the resweeper
  ReprocessLimit,  \* limit of POST /reprocess
  MaxFailures,     \* consecutive failures that open the circuit
  Budget,          \* daily_llm_budget_usd, in units of cost
  SmartCost,       \* cost of one classification
  CheapCost,       \* cost of one company resolution
  MaxFaults,       \* bound: failing calls to Postgres, the LLM or HTTP
  MaxCrashes       \* bound: ends of the process

ASSUME LeadsAssumption == IsFiniteSet(Leads) /\ NoLead \notin Leads /\ NoDomain \subseteq Leads
ASSUME VerdictAssumption == NoVerdict \notin Verdicts
ASSUME RunnerAssumption == Worker \notin Requests /\ IsFiniteSet(Requests)
ASSUME LimitAssumption == SweepLimit \in Nat /\ ReprocessLimit \in Nat
ASSUME CostAssumption == Budget \in Nat \ {0} /\ SmartCost \in Nat /\ CheapCost \in Nat
ASSUME BoundAssumption ==
  MaxFailures \in Nat \ {0} /\ MaxFaults \in Nat /\ MaxCrashes \in Nat

VARIABLES
  \* Postgres
  status,       \* raw_leads.status, "absent" when there is no row
  score,        \* raw_leads.score
  enrichment,   \* lead_enrichments: the stored classification
  resolved,     \* leads whose company_resolutions entry exists
  smartSpent, cheapSpent,  \* today's llm_call_log, by stage
  \* the process
  up,
  created,      \* the LeadCreated queue
  announced,    \* the LeadScored queue, which nobody consumes
  run,          \* where each runner is in the pipeline
  failures, circuitOpen,   \* the worker's breaker
  rows,         \* what each sweep or reprocess has read and not yet published
  startupDue,   \* the startup sweep has not run yet
  batch,        \* rows a scrape has committed and not yet announced
  \* the environment
  aged,         \* rows fetched more than older_than_minutes ago
  faults, crashes

rowVars == <<status, score, enrichment>>
ledgerVars == <<resolved, smartSpent, cheapSpent>>
breakerVars == <<failures, circuitOpen>>
pollVars == <<rows, startupDue>>
envVars == <<up, aged, faults, crashes>>
vars == <<rowVars, ledgerVars, created, announced, run, breakerVars, pollVars, batch, envVars>>

Runners == {Worker} \cup Requests
Pollers == {"periodic", "startup"} \cup Operators

Statuses == {"absent", "new", "pending_enrichment", "enriching", "budget_paused", "scored"}
\* Two variants of the resweeper's list, each missing a status that waits.
RESWEEP_STATUSES_NoNew == {"pending_enrichment", "budget_paused"}
RESWEEP_STATUSES_NoPaused == {"new", "pending_enrichment"}
RESWEEP_STATUSES == {"new", "pending_enrichment", "budget_paused"}
\* "sent", "closed" and "dead" are terminal too; no code writes them.
TERMINAL_STATUSES == {"scored"}

\* The places where a runner waits; the first three lines are the first three stages.
BeforeClaim == {"fetch", "claim"}
Resolving == {"resolve", "chargeCheap", "remember"}
Claimed == Resolving \cup {"company", "classify", "pause", "charge", "upsert", "score"}
Places == {"idle", "announce"} \cup BeforeClaim \cup Claimed

Idle == [pc |-> "idle", lead |-> NoLead, verdict |-> NoVerdict]
Start(l) == [pc |-> "fetch", lead |-> l, verdict |-> NoVerdict]

Init ==
  /\ status = [l \in Leads |-> "absent"]
  /\ score = [l \in Leads |-> NoVerdict]
  /\ enrichment = [l \in Leads |-> NoVerdict]
  /\ resolved = {} /\ smartSpent = 0 /\ cheapSpent = 0
  /\ up = TRUE /\ created = <<>> /\ announced = <<>>
  /\ run = [r \in Runners |-> Idle]
  /\ failures = 0 /\ circuitOpen = FALSE
  /\ rows = [p \in Pollers |-> <<>>] /\ startupDue = TRUE
  /\ batch = [s \in Scrapers |-> <<>>]
  /\ aged = {} /\ faults = 0 /\ crashes = 0

-----------------------------------------------------------------------------
(* Arrival of leads.  The two constraints of the table and the run log are *)
(* in Scraping; here a scrape commits rows, then announces them.           *)

\* A variant that announces the rows before the transaction has committed.
CommitBatch_PublishFirst(s) ==
  /\ up /\ batch[s] = <<>>
  /\ \E S \in SUBSET {l \in Leads : status[l] = "absent"} \ {{}} :
       \E b \in SetToSeqs(S) :
         /\ batch' = [batch EXCEPT ![s] = b]
         /\ created' = PublishedAll(created, b)
  /\ UNCHANGED <<rowVars, ledgerVars, announced, run, breakerVars, pollVars, envVars>>

\* insert_leads commits the rows of one scrape in one transaction.
CommitBatch(s) ==
  /\ up /\ batch[s] = <<>>
  /\ \E S \in SUBSET {l \in Leads : status[l] = "absent"} \ {{}} :
       /\ \E b \in SetToSeqs(S) : batch' = [batch EXCEPT ![s] = b]
       /\ status' = [l \in Leads |-> IF l \in S THEN "new" ELSE status[l]]
  /\ UNCHANGED <<score, enrichment, ledgerVars, created, announced, run,
                 breakerVars, pollVars, envVars>>

\* The orchestrator resumes after the commit and publishes one event per row.
AnnounceBatch(s) ==
  /\ batch[s] # <<>>
  /\ created' = PublishedAll(created, batch[s])
  /\ batch' = [batch EXCEPT ![s] = <<>>]
  /\ UNCHANGED <<rowVars, ledgerVars, announced, run, breakerVars, pollVars, envVars>>

-----------------------------------------------------------------------------
(* Sweeps.  The rows are read in one wait and published after it, so they  *)
(* may be stale; LIMIT without ORDER BY may return any rows in any order.  *)

ReadRows(p, eligible, limit) ==
  LET k == IF Cardinality(eligible) < limit THEN Cardinality(eligible) ELSE limit
  IN  \E S \in kSubset(k, eligible) :
        \E es \in SetToSeqs(S) : rows' = [rows EXCEPT ![p] = es]

\* PendingLeadsResweeper._sweep up to the query's answer: the periodic loop at
\* any time, the startup task once per process.  A failing query reads no row.
SweepRead(p) ==
  /\ up /\ rows[p] = <<>>
  /\ p = "startup" => startupDue
  /\ startupDue' = (startupDue /\ p # "startup")
  /\ ReadRows(p, {l \in aged : status[l] \in RESWEEP_STATUSES}, SweepLimit)
  /\ UNCHANGED <<rowVars, ledgerVars, created, announced, run, breakerVars, batch, envVars>>

\* POST /reprocess: any status the caller names, whatever the row's age.
ReprocessRead(p) ==
  /\ up /\ rows[p] = <<>>
  /\ \E st \in Statuses \ {"absent"} :
       ReadRows(p, {l \in Leads : status[l] = st}, ReprocessLimit)
  /\ UNCHANGED <<rowVars, ledgerVars, created, announced, run, breakerVars,
                 startupDue, batch, envVars>>

\* The publish loop of a sweep or of POST /reprocess.
Republish(p) ==
  /\ rows[p] # <<>>
  /\ created' = PublishedAll(created, rows[p])
  /\ rows' = [rows EXCEPT ![p] = <<>>]
  /\ UNCHANGED <<rowVars, ledgerVars, announced, run, breakerVars, startupDue, batch, envVars>>

-----------------------------------------------------------------------------
(* Entering the pipeline.                                                  *)

\* consume hands an event to _handle_event, which returns at once while the
\* circuit is open: the event is gone, its row still pending.
SkipEvent ==
  /\ run[Worker] = Idle /\ created # <<>> /\ circuitOpen
  /\ created' = Tail(created)
  /\ UNCHANGED <<rowVars, ledgerVars, announced, run, breakerVars, pollVars, batch, envVars>>

\* A variant without the test of _circuit_open_until.
TakeEvent_IgnoreCircuit ==
  /\ run[Worker] = Idle /\ created # <<>>
  /\ created' = Tail(created)
  /\ run' = [run EXCEPT ![Worker] = Start(Head(created))]
  /\ UNCHANGED <<rowVars, ledgerVars, announced, breakerVars, pollVars, batch, envVars>>

\* The worker awaits its handler before the next get: one event at a time.
TakeEvent ==
  /\ run[Worker] = Idle /\ created # <<>> /\ ~circuitOpen
  /\ created' = Tail(created)
  /\ run' = [run EXCEPT ![Worker] = Start(Head(created))]
  /\ UNCHANGED <<rowVars, ledgerVars, announced, breakerVars, pollVars, batch, envVars>>

\* POST /enrich/{lead_id}, for a lead that may not exist: no queue, no breaker.
AcceptRequest(r) ==
  /\ up /\ run[r] = Idle
  /\ \E l \in Leads : run' = [run EXCEPT ![r] = Start(l)]
  /\ UNCHANGED <<rowVars, ledgerVars, created, announced, breakerVars, pollVars, batch, envVars>>

-----------------------------------------------------------------------------
(* Leaving it: the three except clauses of _handle_event.  A request       *)
(* answers its caller and touches no counter.                              *)

Lead(r) == run[r].lead
Goto(r, place) == run' = [run EXCEPT ![r].pc = place]
Leave(r) == run' = [run EXCEPT ![r] = Idle]

\* AlreadyProcessedError or BudgetExceededError.
LeaveUncounted(r) == Leave(r) /\ UNCHANGED breakerVars

\* Success.
LeaveScored(r) ==
  /\ Leave(r)
  /\ failures' = IF r = Worker THEN 0 ELSE failures
  /\ UNCHANGED circuitOpen

\* Any other exception.
LeaveFailed(r) ==
  /\ Leave(r)
  /\ IF r = Worker /\ failures + 1 >= MaxFailures
       THEN failures' = 0 /\ circuitOpen' = TRUE
       ELSE failures' = (IF r = Worker THEN failures + 1 ELSE failures) /\ UNCHANGED circuitOpen

Fault == faults < MaxFaults /\ faults' = faults + 1

\* A call raises, or its answer is lost after it took effect, at any place
\* outside the resolver.  The status column keeps whatever was written.
Fail(r) ==
  /\ run[r].pc \in Places \ {"idle", "chargeCheap", "remember"}
  /\ Fault /\ LeaveFailed(r)
  /\ UNCHANGED <<rowVars, ledgerVars, created, announced, pollVars, batch, up, aged, crashes>>

-----------------------------------------------------------------------------
(* The pipeline.                                                           *)

pipeFrame == <<created, pollVars, batch, envVars>>

\* A variant without the guard on terminal statuses.
CheckStatus_NoTerminal(r) ==
  /\ run[r].pc = "fetch"
  /\ IF status[Lead(r)] = "absent" THEN LeaveFailed(r) ELSE Goto(r, "claim") /\ UNCHANGED breakerVars
  /\ UNCHANGED <<rowVars, ledgerVars, announced, pipeFrame>>

\* FetchStage, get_lead_status and its two early exits.
CheckStatus(r) ==
  /\ run[r].pc = "fetch"
  /\ \/ status[Lead(r)] = "absent" /\ LeaveFailed(r)
     \/ status[Lead(r)] \in TERMINAL_STATUSES /\ LeaveUncounted(r)
     \/ /\ status[Lead(r)] \notin {"absent"} \cup TERMINAL_STATUSES
        /\ Goto(r, "claim") /\ UNCHANGED breakerVars
  /\ UNCHANGED <<rowVars, ledgerVars, announced, pipeFrame>>

\* FetchStage, the unconditional UPDATE to "enriching" and the row's load;
\* ResolveCompanyStage is skipped when the row has a domain.
Claim(r) ==
  /\ run[r].pc = "claim"
  /\ status' = [status EXCEPT ![Lead(r)] = "enriching"]
  /\ Goto(r, IF Lead(r) \in NoDomain THEN "resolve" ELSE "company")
  /\ UNCHANGED <<score, enrichment, ledgerVars, announced, breakerVars, pipeFrame>>

\* A variant that looks nothing up and asks the CHEAP model each time.
Resolve_NoCache(r) ==
  /\ run[r].pc = "resolve"
  /\ Goto(r, "chargeCheap")
  /\ UNCHANGED <<rowVars, ledgerVars, announced, breakerVars, pipeFrame>>

\* LLMCompanyResolver: a cached answer, or one from the CHEAP model.
Resolve(r) ==
  /\ run[r].pc = "resolve"
  /\ Goto(r, IF Lead(r) \in resolved THEN "company" ELSE "chargeCheap")
  /\ UNCHANGED <<rowVars, ledgerVars, announced, breakerVars, pipeFrame>>

ChargeCheap(r) ==
  /\ run[r].pc = "chargeCheap"
  /\ cheapSpent' = cheapSpent + CheapCost
  /\ Goto(r, "remember")
  /\ UNCHANGED <<rowVars, resolved, smartSpent, announced, breakerVars, pipeFrame>>

CacheResolution(r) ==
  /\ run[r].pc = "remember"
  /\ resolved' = resolved \cup {Lead(r)}
  /\ Goto(r, "company")
  /\ UNCHANGED <<rowVars, smartSpent, cheapSpent, announced, breakerVars, pipeFrame>>

\* The resolver swallows every exception after the cache lookup.
ResolveFails(r) ==
  /\ run[r].pc \in Resolving
  /\ run[r].pc = "resolve" => Lead(r) \notin resolved
  /\ Fault /\ Goto(r, "company")
  /\ UNCHANGED <<rowVars, ledgerVars, created, announced, breakerVars, pollVars, batch,
                 up, aged, crashes>>

\* EnrichCompanyStage: its cache feeds only the prompt.
EnrichCompany(r) ==
  /\ run[r].pc = "company"
  /\ Goto(r, "classify")
  /\ UNCHANGED <<rowVars, ledgerVars, announced, breakerVars, pipeFrame>>

\* A variant that compares the cost of the other stage only.
CheckBudget_CheapOnly(r) ==
  /\ run[r].pc = "classify"
  /\ Goto(r, IF cheapSpent >= Budget THEN "pause" ELSE "charge")
  /\ UNCHANGED <<rowVars, ledgerVars, announced, breakerVars, pipeFrame>>

\* ClassifyStage: today's cost against the ceiling.
CheckBudget(r) ==
  /\ run[r].pc = "classify"
  /\ Goto(r, IF smartSpent + cheapSpent >= Budget THEN "pause" ELSE "charge")
  /\ UNCHANGED <<rowVars, ledgerVars, announced, breakerVars, pipeFrame>>

\* A variant that raises BudgetExceededError and leaves the status alone.
Pause_KeepStatus(r) ==
  /\ run[r].pc = "pause"
  /\ LeaveUncounted(r)
  /\ UNCHANGED <<rowVars, ledgerVars, announced, pipeFrame>>

Pause(r) ==
  /\ run[r].pc = "pause"
  /\ status' = [status EXCEPT ![Lead(r)] = "budget_paused"]
  /\ LeaveUncounted(r)
  /\ UNCHANGED <<score, enrichment, ledgerVars, announced, pipeFrame>>

\* The SMART model answers, the answer validates, and log_llm_call commits.
Charge(r) ==
  /\ run[r].pc = "charge"
  /\ smartSpent' = smartSpent + SmartCost
  /\ \E v \in Verdicts : run' = [run EXCEPT ![r].pc = "upsert", ![r].verdict = v]
  /\ UNCHANGED <<rowVars, resolved, cheapSpent, announced, breakerVars, pipeFrame>>

\* A variant of upsert_enrichment with ON CONFLICT DO NOTHING.
Upsert_DoNothing(r) ==
  /\ run[r].pc = "upsert"
  /\ enrichment' = IF enrichment[Lead(r)] = NoVerdict
                     THEN [enrichment EXCEPT ![Lead(r)] = run[r].verdict] ELSE enrichment
  /\ Goto(r, "score")
  /\ UNCHANGED <<status, score, ledgerVars, announced, breakerVars, pipeFrame>>

\* PersistStage, upsert_enrichment; ScoreStage before it is a pure function.
Upsert(r) ==
  /\ run[r].pc = "upsert"
  /\ enrichment' = [enrichment EXCEPT ![Lead(r)] = run[r].verdict]
  /\ Goto(r, "score")
  /\ UNCHANGED <<status, score, ledgerVars, announced, breakerVars, pipeFrame>>

\* A variant that stores the score and leaves the status as it is.
Score_NoStatus(r) ==
  /\ run[r].pc = "score"
  /\ score' = [score EXCEPT ![Lead(r)] = run[r].verdict]
  /\ Goto(r, "announce")
  /\ UNCHANGED <<status, enrichment, ledgerVars, announced, breakerVars, pipeFrame>>

\* PersistStage, update_lead_scores: score and status in one UPDATE.
Score(r) ==
  /\ run[r].pc = "score"
  /\ score' = [score EXCEPT ![Lead(r)] = run[r].verdict]
  /\ status' = [status EXCEPT ![Lead(r)] = "scored"]
  /\ Goto(r, "announce")
  /\ UNCHANGED <<enrichment, ledgerVars, announced, breakerVars, pipeFrame>>

\* PersistStage publishes LeadScored, and the pipeline returns.
Announce(r) ==
  /\ run[r].pc = "announce"
  /\ announced' = Published(announced, Lead(r))
  /\ LeaveScored(r)
  /\ UNCHANGED <<rowVars, ledgerVars, pipeFrame>>

Pipeline(r) ==
  \/ CheckStatus(r) \/ Claim(r) \/ Resolve(r) \/ ChargeCheap(r) \/ CacheResolution(r)
  \/ EnrichCompany(r) \/ CheckBudget(r) \/ Pause(r) \/ Charge(r) \/ Upsert(r)
  \/ Score(r) \/ Announce(r)

-----------------------------------------------------------------------------
(* Time and the process.                                                   *)

\* Five minutes after it tripped, the breaker lets events through again.
CircuitExpires ==
  /\ circuitOpen
  /\ circuitOpen' = FALSE
  /\ UNCHANGED <<rowVars, ledgerVars, created, announced, run, failures, pollVars, batch, envVars>>

\* A row becomes old enough for the resweeper.
Age(l) ==
  /\ status[l] # "absent" /\ l \notin aged
  /\ aged' = aged \cup {l}
  /\ UNCHANGED <<rowVars, ledgerVars, created, announced, run, breakerVars, pollVars, batch,
                 up, faults, crashes>>

\* The ledger is summed over the current day only.
NewDay ==
  /\ smartSpent + cheapSpent > 0
  /\ smartSpent' = 0 /\ cheapSpent' = 0
  /\ UNCHANGED <<rowVars, resolved, created, announced, run, breakerVars, pollVars, batch, envVars>>

\* A crash, or a shutdown that cancels every task: only Postgres survives.
Crash ==
  /\ up /\ crashes < MaxCrashes
  /\ up' = FALSE /\ crashes' = crashes + 1
  /\ created' = <<>> /\ announced' = <<>>
  /\ run' = [r \in Runners |-> Idle]
  /\ failures' = 0 /\ circuitOpen' = FALSE
  /\ rows' = [p \in Pollers |-> <<>>] /\ startupDue' = FALSE
  /\ batch' = [s \in Scrapers |-> <<>>]
  /\ UNCHANGED <<rowVars, ledgerVars, aged, faults>>

\* lifespan starts the worker, the resweeper and the startup sweep.
Restart ==
  /\ ~up
  /\ up' = TRUE /\ startupDue' = TRUE
  /\ UNCHANGED <<rowVars, ledgerVars, created, announced, run, breakerVars, rows, batch,
                 aged, faults, crashes>>

Next ==
  \/ \E s \in Scrapers : CommitBatch(s) \/ AnnounceBatch(s)
  \/ \E p \in {"periodic", "startup"} : SweepRead(p)
  \/ \E p \in Operators : ReprocessRead(p)
  \/ \E p \in Pollers : Republish(p)
  \/ SkipEvent \/ TakeEvent
  \/ \E r \in Requests : AcceptRequest(r)
  \/ \E r \in Runners : Pipeline(r) \/ ResolveFails(r) \/ Fail(r)
  \/ CircuitExpires
  \/ \E l \in Leads : Age(l)
  \/ NewDay \/ Crash \/ Restart

Spec == Init /\ [][Next]_vars

(***************************************************************************)
(* The event loop runs every ready coroutine, Postgres and the LLM answer  *)
(* or fail, the resweeper loops for ever and the clock advances; a process *)
(* that ended is started again by the container platform.  Nothing makes   *)
(* an operator or a scrape start, or a call fail.                          *)
(***************************************************************************)
Fairness ==
  /\ \A s \in Scrapers : WF_vars(AnnounceBatch(s))
  /\ WF_vars(SweepRead("periodic"))
  /\ \A p \in Pollers : WF_vars(Republish(p))
  /\ WF_vars(SkipEvent \/ TakeEvent)
  /\ \A r \in Runners : WF_vars(Pipeline(r))
  /\ WF_vars(CircuitExpires) /\ WF_vars(NewDay) /\ WF_vars(Restart)
  /\ \A l \in Leads : WF_vars(Age(l))

FairSpec == Spec /\ Fairness

-----------------------------------------------------------------------------
(* Properties.                                                             *)

RunRecord == [pc : Places, lead : Leads \cup {NoLead}, verdict : Verdicts \cup {NoVerdict}]

RowType == /\ status \in [Leads -> Statuses]
           /\ score \in [Leads -> Verdicts \cup {NoVerdict}]
           /\ enrichment \in [Leads -> Verdicts \cup {NoVerdict}]
LedgerType == resolved \subseteq Leads /\ smartSpent \in Nat /\ cheapSpent \in Nat
CreatedType == created \in Seq(Leads) /\ Len(created) <= Cap
AnnouncedType == announced \in Seq(Leads) /\ Len(announced) <= Cap
RunType == /\ run \in [Runners -> RunRecord]
           /\ \A r \in Runners :
                /\ run[r].pc # "idle" => run[r].lead \in Leads
                /\ run[r].pc \in {"upsert", "score"} => run[r].verdict \in Verdicts
FailuresType == failures \in 0..(MaxFailures - 1)
FlagType == up \in BOOLEAN /\ circuitOpen \in BOOLEAN /\ startupDue \in BOOLEAN
RowsReadType == rows \in [Pollers -> Seq(Leads)]
BatchType == batch \in [Scrapers -> Seq(Leads)]
EnvType == aged \subseteq Leads /\ faults \in 0..MaxFaults /\ crashes \in 0..MaxCrashes

TypeOK == /\ RowType /\ LedgerType /\ CreatedType /\ AnnouncedType /\ RunType
          /\ FailuresType /\ FlagType /\ RowsReadType /\ BatchType /\ EnvType

Scored(l) == status[l] = "scored"
Working(r) == run[r].pc # "idle"

Present(l) == status[l] # "absent"
QueuedPresent == \A i \in 1..Len(created) : Present(created[i])
ReadPresent == \A p \in Pollers : \A i \in 1..Len(rows[p]) : Present(rows[p][i])
BatchPresent == \A s \in Scrapers : \A i \in 1..Len(batch[s]) : Present(batch[s][i])
WorkerPresent == Working(Worker) => Present(run[Worker].lead)

\* Every event in flight names a committed row, so the worker never meets the
\* "Lead not found" error of FetchStage, whatever was dropped, replayed or lost.
EventsReferToRows == QueuedPresent /\ ReadPresent /\ BatchPresent /\ WorkerPresent

\* The score shown for a lead was computed from the classification stored for
\* it, although the two are written by different transactions and a run may
\* end between them (PersistStage, after any crash or retry).
ScoreMatchesEnrichment ==
  \A l \in Leads : Scored(l) => /\ enrichment[l] # NoVerdict
                                /\ score[l] = enrichment[l]

KeepScored ==
  \A l \in Leads : Scored(l) => /\ status'[l] = "scored"
                                /\ score'[l] = score[l]
                                /\ enrichment'[l] = enrichment[l]

\* A scored lead is left alone for ever: no duplicate event, stale sweep row or
\* reprocess request makes FetchStage take it again ("Idempotent").  That is so for
\* the events of POST /reprocess too, which by default asks for the scored leads:
\* whatever changed in formula or prompts, it scores none of them again.
ScoredIsFinal == [][KeepScored]_vars

\* While the breaker is open the worker touches neither Postgres nor the LLM,
\* whichever failure opened it and whatever waits in the queue.
CircuitGate == circuitOpen => ~Working(Worker)

\* The classifications of one day overshoot the ceiling by less than one call
\* per runner that passed the check before the others' cost was logged.
BudgetOvershoot == smartSpent < Budget + SmartCost * Cardinality(Runners)

\* The resolver asks no ceiling: what bounds its share of a day's cost, on a day
\* whose budget is spent too, is the cache.  A lead without a domain is paid for
\* by each runner that looked it up before the first of them stored an answer,
\* and again for every failure or crash between the ledger entry and the cache
\* entry, whatever runs are repeated, overlap or stop in between.
ResolutionsBounded ==
  cheapSpent <= CheapCost * (Cardinality(NoDomain) * Cardinality(Runners)
                              + faults + crashes * Cardinality(Runners))

\* While no call fails and the process lives, a row is "enriching" only as long
\* as a runner that claimed it is still at work on it, whichever runners met.
ClaimHasRunner ==
  \A l \in Leads : status[l] = "enriching" =>
    \/ faults > 0 \/ crashes > 0
    \/ \E r \in Runners : run[r].lead = l /\ run[r].pc \in Claimed

\* The detailed state machine does what the durable queue promises, and no more:
\* POST /reprocess takes no scored lead back.
Lifecycle == INSTANCE LeadLifecycle WITH
  Leads <- Leads, Verdicts <- Verdicts, NoVerdict <- NoVerdict,
  status <- status, score <- score
ImplementsLifecycle == Lifecycle!Spec

\* Nothing that waits in the table waits for ever: dropped events, lost batches,
\* the open circuit, a spent budget and crashes only delay the next claim.
QueuedIsPickedUp ==
  \A l \in Leads : status[l] \in {"new", "budget_paused"} ~> status[l] = "enriching"

\* A lead ends up scored unless a failure left it "enriching" with nobody at
\* work on it.
Abandoned(l) == status[l] = "enriching" /\ \A r \in Runners : run[r].lead # l
ScoredOrAbandoned == \A l \in Leads : status[l] = "new" ~> Scored(l) \/ Abandoned(l)

\* README, Postgres-as-Durable-Queue: after a crash, an overflow or a handler
\* that throws, "the resweeper recovers everything".
EverythingRecovers == \A l \in Leads : status[l] = "enriching" ~> status[l] # "enriching"
=============================================================================
