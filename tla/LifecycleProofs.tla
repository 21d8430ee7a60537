--------------------------- MODULE LifecycleProofs ---------------------------
(***************************************************************************)
(* What holds while the worker is the only runner, that is while nobody    *)
(* calls POST /enrich: a lead is scored once, from the classification      *)
(* stored for it, and Enrichment implements LeadLifecycle.  Events may be  *)
(* dropped, duplicated, stale or replayed, and the process may end         *)
(* anywhere.                                                               *)
(***************************************************************************)
EXTENDS EnrichmentProofs

\* What the place of the worker says about the row it works on.
WorkerKnows ==
  LET w == run[Worker] IN
  /\ w.pc = "claim" => status[w.lead] \notin {"absent", "scored"}
  /\ w.pc \in Claimed => status[w.lead] = "enriching"
  /\ w.pc = "score" => enrichment[w.lead] = w.verdict

\* The invariant behind the theorems of this module: ScoreMatchesEnrichment
\* alone does not say that a row under work is not scored.
SoleInv ==
  /\ WorkerKnows
  /\ ScoreMatchesEnrichment
  /\ \A l \in Leads : status[l] # "pending_enrichment"

LEMMA SoleInit == Init => SoleInv
  BY DEF Init, SoleInv, WorkerKnows, ScoreMatchesEnrichment, Scored, Idle, Runners, Claimed, Resolving

LEMMA SoleStep ==
  ASSUME Requests = {}, TypeOK, SoleInv, [Next]_vars
  PROVE  SoleInv'
<1> USE DEF rowVars, ledgerVars, breakerVars, pollVars, envVars, pipeFrame
<1>0. Runners = {Worker} /\ run[Worker] \in RunRecord
  BY DEF Runners, TypeOK, RunType
<1>1. CASE QuietStep
  BY <1>1, QuietFrame DEF SoleInv, WorkerKnows, ScoreMatchesEnrichment, Scored
<1>2. ASSUME NEW s \in Scrapers, CommitBatch(s) PROVE SoleInv'
  <2>1. PICK S \in SUBSET {l \in Leads : status[l] = "absent"} :
           status' = [l \in Leads |-> IF l \in S THEN "new" ELSE status[l]]
    BY <1>2 DEF CommitBatch
  <2>2. UNCHANGED <<score, enrichment, run>>
    BY <1>2 DEF CommitBatch
  <2>3. run[Worker].pc \in {"claim"} \cup Claimed => run[Worker].lead \in Leads
    BY <1>0 DEF TypeOK, RunType, Claimed, Resolving
  <2>4. \A l \in Leads : status[l] # "absent" => status'[l] = status[l]
    BY <2>1
  <2>5. \A l \in Leads : status'[l] \in {"new", status[l]}
    BY <2>1
  <2>6. WorkerKnows'
    BY <2>2, <2>3, <2>4 DEF SoleInv, WorkerKnows
  <2>7. ScoreMatchesEnrichment'
    BY <2>2, <2>5 DEF SoleInv, ScoreMatchesEnrichment, Scored
  <2> QED BY <2>5, <2>6, <2>7 DEF SoleInv
<1>3. CASE TakeEvent
  <2>1. run'[Worker].pc = "fetch"
    BY <1>3 DEF TakeEvent, Start, TypeOK, RunType, Runners
  <2> QED BY <1>3, <2>1 DEF TakeEvent, SoleInv, WorkerKnows, ScoreMatchesEnrichment, Scored, Claimed, Resolving
<1>4. CASE CircuitExpires
  BY <1>4 DEF CircuitExpires, SoleInv, WorkerKnows, ScoreMatchesEnrichment, Scored
<1>5. CASE NewDay
  BY <1>5 DEF NewDay, SoleInv, WorkerKnows, ScoreMatchesEnrichment, Scored
<1>6. ASSUME run'[Worker] = Idle, UNCHANGED <<status, score, enrichment>> PROVE SoleInv'
  BY <1>6 DEF SoleInv, WorkerKnows, ScoreMatchesEnrichment, Scored, Idle, Claimed, Resolving
<1>7. CASE Crash
  BY <1>6, <1>7 DEF Crash, Runners
<1>8. CASE RunnerStep(Worker)
  <2> DEFINE w == run[Worker]
  <2>1. CASE CheckStatus(Worker)
    <3>1. CASE Leave(Worker)
      BY <1>6, <2>1, <3>1 DEF CheckStatus, Leave, TypeOK, RunType, Runners
    <3>2. CASE ~Leave(Worker)
      <4>1. /\ status[w.lead] \notin {"absent", "scored"}
            /\ run'[Worker].pc = "claim" /\ run'[Worker].lead = w.lead
        BY <1>0, <2>1, <3>2 DEF CheckStatus, Goto, Lead, TERMINAL_STATUSES, LeaveFailed, LeaveUncounted,
           TypeOK, RunType, RunRecord
      <4> QED BY <2>1, <4>1 DEF CheckStatus, SoleInv, WorkerKnows, ScoreMatchesEnrichment, Scored,
                 Claimed, Resolving
    <3> QED BY <3>1, <3>2
  <2>2. CASE Claim(Worker)
    <3>1. /\ run'[Worker].pc \in {"resolve", "company"} /\ run'[Worker].lead = w.lead
          /\ w.lead \in Leads /\ w.pc = "claim"
      BY <1>0, <2>2 DEF Claim, Goto, TypeOK, RunType, RunRecord
    <3>2. /\ status' = [status EXCEPT ![w.lead] = "enriching"]
          /\ UNCHANGED <<score, enrichment>>
      BY <2>2 DEF Claim, Lead
    <3> QED BY <3>1, <3>2 DEF SoleInv, WorkerKnows, ScoreMatchesEnrichment, Scored, TypeOK, RowType
  <2>3. CASE \/ Resolve(Worker) \/ ChargeCheap(Worker) \/ CacheResolution(Worker)
             \/ EnrichCompany(Worker) \/ CheckBudget(Worker) \/ ResolveFails(Worker)
    <3>1. /\ run'[Worker].pc \in Claimed \ {"score"} /\ run'[Worker].lead = w.lead
          /\ w.pc \in Claimed
      BY <1>0, <2>3 DEF Resolve, ChargeCheap, CacheResolution, EnrichCompany, CheckBudget, ResolveFails,
         Goto, Claimed, Resolving, TypeOK, RunType, RunRecord
    <3>2. UNCHANGED <<status, score, enrichment>>
      BY <2>3 DEF Resolve, ChargeCheap, CacheResolution, EnrichCompany, CheckBudget, ResolveFails
    <3> QED BY <3>1, <3>2 DEF SoleInv, WorkerKnows, ScoreMatchesEnrichment, Scored, Claimed, Resolving
  <2>4. CASE Pause(Worker)
    <3>1. run'[Worker] = Idle /\ UNCHANGED <<score, enrichment>> /\ w.lead \in Leads
          /\ status' = [status EXCEPT ![w.lead] = "budget_paused"]
      BY <1>0, <2>4 DEF Pause, LeaveUncounted, Leave, Lead, TypeOK, RunType
    <3> QED BY <3>1 DEF SoleInv, WorkerKnows, ScoreMatchesEnrichment, Scored, Idle, Claimed, Resolving,
               TypeOK, RowType
  <2>5. CASE Charge(Worker)
    <3>1. run'[Worker].pc = "upsert" /\ run'[Worker].lead = w.lead /\ w.pc \in Claimed
      BY <1>0, <2>5 DEF Charge, Claimed, TypeOK, RunType, RunRecord
    <3> QED BY <2>5, <3>1 DEF Charge, SoleInv, WorkerKnows, ScoreMatchesEnrichment, Scored, Claimed
  <2>6. CASE Upsert(Worker)
    <3>1. /\ run'[Worker].pc = "score" /\ run'[Worker].lead = w.lead
          /\ run'[Worker].verdict = w.verdict /\ w.pc \in Claimed /\ w.lead \in Leads
      BY <1>0, <2>6 DEF Upsert, Goto, Claimed, TypeOK, RunType, RunRecord
    <3>2. /\ enrichment' = [enrichment EXCEPT ![w.lead] = w.verdict]
          /\ UNCHANGED <<status, score>>
      BY <2>6 DEF Upsert, Lead
    <3>3. status[w.lead] = "enriching"
      BY <3>1 DEF SoleInv, WorkerKnows
    <3> QED BY <3>1, <3>2, <3>3 DEF SoleInv, WorkerKnows, ScoreMatchesEnrichment, Scored, Claimed,
               TypeOK, RowType
  <2>7. CASE Score(Worker)
    <3>1. /\ run'[Worker].pc = "announce" /\ w.pc = "score" /\ w.lead \in Leads
          /\ w.verdict \in Verdicts /\ enrichment[w.lead] = w.verdict
      BY <1>0, <2>7 DEF Score, Goto, Claimed, TypeOK, RunType, RunRecord, SoleInv, WorkerKnows
    <3>2. /\ status' = [status EXCEPT ![w.lead] = "scored"] /\ enrichment' = enrichment
          /\ score' = [score EXCEPT ![w.lead] = w.verdict]
      BY <2>7 DEF Score, Lead
    <3> QED BY <3>1, <3>2, VerdictAssumption DEF SoleInv, WorkerKnows, ScoreMatchesEnrichment, Scored,
               Claimed, Resolving, TypeOK, RowType
  <2>8. CASE Announce(Worker) \/ Fail(Worker)
    <3>1. run'[Worker] = Idle /\ UNCHANGED <<status, score, enrichment>>
      BY <1>0, <2>8 DEF Announce, Fail, LeaveScored, LeaveFailed, Leave, TypeOK, RunType
    <3> QED BY <1>6, <3>1
  <2> QED BY <1>8, <2>1, <2>2, <2>3, <2>4, <2>5, <2>6, <2>7, <2>8 DEF RunnerStep, Pipeline
<1> QED BY <1>0, <1>1, <1>2, <1>3, <1>4, <1>5, <1>7, <1>8, StepCases

LEMMA SoleCorrect == ASSUME Requests = {} PROVE Spec => [](TypeOK /\ SoleInv)
  BY SoleInit, SoleStep, TypeInit, TypeStep, PTL DEF Spec

\* Without POST /enrich the score of every scored lead comes from the
\* classification stored for it.
THEOREM ScoreCorrect == ASSUME Requests = {} PROVE Spec => []ScoreMatchesEnrichment
<1>1. SoleInv => ScoreMatchesEnrichment
  BY DEF SoleInv
<1> QED BY <1>1, SoleCorrect, PTL

\* Every step that touches the row of a lead, and what it found there.
LEMMA RowSteps ==
  ASSUME Requests = {}, TypeOK, SoleInv, [Next]_vars
  PROVE  \/ UNCHANGED <<status, score, enrichment>>
         \/ /\ UNCHANGED <<score, enrichment>>
            /\ \E S \in SUBSET {l \in Leads : status[l] = "absent"} :
                 status' = [l \in Leads |-> IF l \in S THEN "new" ELSE status[l]]
         \/ \E l \in Leads :
              /\ status[l] \in {"new", "budget_paused", "enriching"}
              /\ status' = [status EXCEPT ![l] = "enriching"] /\ UNCHANGED <<score, enrichment>>
         \/ \E l \in Leads :
              /\ status[l] = "enriching"
              /\ \/ /\ status' = [status EXCEPT ![l] = "budget_paused"]
                    /\ UNCHANGED <<score, enrichment>>
                 \/ /\ \E v \in Verdicts : enrichment' = [enrichment EXCEPT ![l] = v]
                    /\ UNCHANGED <<status, score>>
                 \/ /\ status' = [status EXCEPT ![l] = "scored"] /\ UNCHANGED enrichment
                    /\ \E v \in Verdicts : score' = [score EXCEPT ![l] = v]
<1> USE DEF rowVars, ledgerVars, breakerVars, pollVars, envVars, pipeFrame
<1> DEFINE w == run[Worker]
<1>0. Runners = {Worker} /\ (w.pc # "idle" => w.lead \in Leads)
  BY DEF Runners, TypeOK, RunType
<1>1. CASE QuietStep
  BY <1>1, QuietFrame
<1>2. ASSUME NEW s \in Scrapers, CommitBatch(s)
      PROVE  /\ UNCHANGED <<score, enrichment>>
             /\ \E S \in SUBSET {l \in Leads : status[l] = "absent"} :
                  status' = [l \in Leads |-> IF l \in S THEN "new" ELSE status[l]]
  BY <1>2 DEF CommitBatch
<1>3. CASE TakeEvent \/ CircuitExpires \/ NewDay \/ Crash
  BY <1>3 DEF TakeEvent, CircuitExpires, NewDay, Crash
<1>4. CASE Claim(Worker)
  <2>1. w.pc = "claim" /\ w.lead \in Leads /\ status[w.lead] \in Statuses
    BY <1>0, <1>4 DEF Claim, TypeOK, RowType
  <2>2. status[w.lead] \in {"new", "budget_paused", "enriching"}
    BY <2>1 DEF SoleInv, WorkerKnows, Statuses
  <2> QED BY <1>4, <2>1, <2>2 DEF Claim, Lead
<1>5. CASE Pause(Worker)
  <2>1. w.lead \in Leads /\ status[w.lead] = "enriching"
    BY <1>0, <1>5 DEF Pause, SoleInv, WorkerKnows, Claimed
  <2> QED BY <1>5, <2>1 DEF Pause, Lead
<1>6. CASE Upsert(Worker) \/ Score(Worker)
  <2>1. w.lead \in Leads /\ status[w.lead] = "enriching" /\ w.verdict \in Verdicts
    BY <1>0, <1>6 DEF Upsert, Score, SoleInv, WorkerKnows, Claimed, TypeOK, RunType
  <2> QED BY <1>6, <2>1 DEF Upsert, Score, Lead
<1>7. CASE /\ RunnerStep(Worker)
           /\ ~(Claim(Worker) \/ Pause(Worker) \/ Upsert(Worker) \/ Score(Worker))
  BY <1>7 DEF RunnerStep, Pipeline, CheckStatus, Resolve, ChargeCheap, CacheResolution, EnrichCompany,
     CheckBudget, Charge, Announce, ResolveFails, Fail
<1> QED BY <1>0, <1>1, <1>2, <1>3, <1>4, <1>5, <1>6, <1>7, StepCases

\* Without POST /enrich no step changes the status, the score or the
\* classification of a scored lead, whatever events are replayed.
THEOREM ScoredCorrect == ASSUME Requests = {} PROVE Spec => ScoredIsFinal
<1>1. TypeOK /\ SoleInv /\ [Next]_vars => KeepScored
  <2> SUFFICES ASSUME TypeOK, SoleInv, [Next]_vars, NEW l \in Leads, Scored(l)
               PROVE  status'[l] = "scored" /\ score'[l] = score[l] /\ enrichment'[l] = enrichment[l]
    BY DEF KeepScored
  <2> QED BY RowSteps DEF Scored, TypeOK, RowType
<1> QED BY <1>1, SoleCorrect, PTL DEF Spec, ScoredIsFinal

\* Without POST /enrich the worker, its queue, the sweeps and every crash
\* implement the life cycle the durable queue promises.
THEOREM LifecycleCorrect == ASSUME Requests = {} PROVE Spec => ImplementsLifecycle
<1>1. Init => Lifecycle!Init
  BY DEF Init, Lifecycle!Init
<1>2. ASSUME TypeOK, SoleInv, [Next]_vars PROVE [Lifecycle!Next]_(Lifecycle!vars)
  <2>1. CASE UNCHANGED <<status, score, enrichment>>
    BY <2>1 DEF Lifecycle!vars
  <2>2. CASE /\ UNCHANGED <<score, enrichment>>
             /\ \E S \in SUBSET {l \in Leads : status[l] = "absent"} :
                  status' = [l \in Leads |-> IF l \in S THEN "new" ELSE status[l]]
    BY <2>2 DEF Lifecycle!Next, Lifecycle!Insert
  <2>3. ASSUME NEW l \in Leads, status[l] \in {"new", "budget_paused", "enriching"},
               status' = [status EXCEPT ![l] = "enriching"], UNCHANGED <<score, enrichment>>
        PROVE  [Lifecycle!Next]_(Lifecycle!vars)
    <3>1. CASE status[l] = "enriching"
      BY <1>2, <2>3, <3>1 DEF Lifecycle!vars, TypeOK, RowType
    <3>2. CASE status[l] \in {"new", "budget_paused"}
      BY <2>3, <3>2 DEF Lifecycle!Next, Lifecycle!Claim
    <3> QED BY <2>3, <3>1, <3>2
  <2>4. ASSUME NEW l \in Leads, status[l] = "enriching",
               status' = [status EXCEPT ![l] = "budget_paused"], UNCHANGED <<score, enrichment>>
        PROVE  Lifecycle!Next
    BY <2>4 DEF Lifecycle!Next, Lifecycle!Pause
  <2>5. ASSUME NEW l \in Leads, status[l] = "enriching",
               status' = [status EXCEPT ![l] = "scored"],
               \E v \in Verdicts : score' = [score EXCEPT ![l] = v]
        PROVE  Lifecycle!Next
    BY <2>5 DEF Lifecycle!Next, Lifecycle!Score
  <2>6. CASE UNCHANGED <<status, score>>
    BY <2>6 DEF Lifecycle!vars
  <2> QED BY <1>2, <2>1, <2>2, <2>3, <2>4, <2>5, <2>6, RowSteps
<1> QED BY <1>1, <1>2, SoleCorrect, PTL DEF Spec, ImplementsLifecycle, Lifecycle!Spec
=============================================================================
