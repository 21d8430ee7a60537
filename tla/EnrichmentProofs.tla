-------------------------- MODULE EnrichmentProofs --------------------------
(***************************************************************************)
(* Theorems about Enrichment for every set of leads, runners, sweeps and   *)
(* scrapes, every capacity, limit and cost, and any number of faults and   *)
(* crashes.                                                                *)
(*                                                                         *)
(* The last part is about any number of runners, that is whatever          *)
(* POST /enrich requests run the pipeline beside the worker: the circuit   *)
(* breaker's gate, the owner of a claim, the overshoot of the budget.      *)
(***************************************************************************)
EXTENDS Enrichment, TLAPS, FiniteSetTheorems, SequenceTheorems

-----------------------------------------------------------------------------
(* Queues and answers of queries.                                          *)

\* publish keeps a queue within its bound.
LEMMA PublishedType ==
  ASSUME NEW S, NEW q \in Seq(S), NEW e \in S, Len(q) <= Cap
  PROVE  Published(q, e) \in Seq(S) /\ Len(Published(q, e)) <= Cap
  BY CapAssumption DEF Published

\* So does a publish loop, and every event of the new queue was in the old one
\* or is one of those published.
LEMMA PublishedAllType ==
  ASSUME NEW S, NEW q \in Seq(S), NEW es \in Seq(S), Len(q) <= Cap
  PROVE  /\ PublishedAll(q, es) \in Seq(S) /\ Len(PublishedAll(q, es)) <= Cap
         /\ \A i \in 1..Len(PublishedAll(q, es)) :
              \/ \E j \in 1..Len(q) : PublishedAll(q, es)[i] = q[j]
              \/ \E j \in 1..Len(es) : PublishedAll(q, es)[i] = es[j]
<1> DEFINE room == Cap - Len(q)
           fit == IF Len(es) <= room THEN es ELSE SubSeq(es, 1, room)
<1>1. fit \in Seq(S) /\ Len(fit) <= room /\ \A j \in 1..Len(fit) : fit[j] = es[j] /\ j \in 1..Len(es)
  BY CapAssumption
<1>2. PublishedAll(q, es) = q \o fit
  BY DEF PublishedAll
<1> HIDE DEF fit
<1>3. PublishedAll(q, es) \in Seq(S) /\ Len(PublishedAll(q, es)) = Len(q) + Len(fit)
  BY <1>1, <1>2
<1>4. ASSUME NEW i \in 1..Len(PublishedAll(q, es))
      PROVE  \/ \E j \in 1..Len(q) : PublishedAll(q, es)[i] = q[j]
             \/ \E j \in 1..Len(es) : PublishedAll(q, es)[i] = es[j]
  <2>1. CASE i <= Len(q)
    BY <2>1, <1>1, <1>2, <1>3
  <2>2. CASE i > Len(q)
    <3>1. i - Len(q) \in 1..Len(fit)
      BY <2>2, <1>1, <1>3
    <3>2. (q \o fit)[i] = fit[i - Len(q)]
      BY <2>2, <1>1, <3>1
    <3> QED BY <3>1, <3>2, <1>1, <1>2
  <2> QED BY <2>1, <2>2, <1>1, <1>3
<1> QED BY <1>1, <1>3, <1>4, CapAssumption

\* The rows of a query, in any order, form a sequence of them.
LEMMA OrderingType ==
  ASSUME NEW S, IsFiniteSet(S), NEW es \in SetToSeqs(S)
  PROVE  es \in Seq(S)
<1>1. Cardinality(S) \in Nat
  BY FS_CardinalityType
<1>2. es \in [1..Cardinality(S) -> S]
  BY DEF SetToSeqs
<1> QED BY <1>1, <1>2

-----------------------------------------------------------------------------
(* Type correctness.                                                       *)

LEMMA TypeInit == Init => TypeOK
<1> SUFFICES ASSUME Init PROVE TypeOK
  OBVIOUS
<1> USE DEF Init
<1>1. RowType
  BY DEF RowType, Statuses
<1>2. LedgerType /\ CreatedType /\ AnnouncedType
  BY CapAssumption DEF LedgerType, CreatedType, AnnouncedType
<1>3. RunType
  BY DEF RunType, RunRecord, Idle, Places
<1>4. FailuresType /\ EnvType
  BY BoundAssumption DEF FailuresType, EnvType
<1>5. FlagType
  BY DEF FlagType
<1>6. RowsReadType /\ BatchType
  BY DEF RowsReadType, BatchType
<1> QED BY <1>1, <1>2, <1>3, <1>4, <1>5, <1>6 DEF TypeOK

\* Leaving the pipeline resets the runner and keeps the failure count below
\* the number that opens the circuit.
LEMMA LeaveType ==
  ASSUME TypeOK, NEW r \in Runners,
         LeaveUncounted(r) \/ LeaveScored(r) \/ LeaveFailed(r)
  PROVE  RunType' /\ FailuresType' /\ circuitOpen' \in BOOLEAN
<1>1. Idle \in RunRecord
  BY DEF Idle, RunRecord, Places
<1>2. Leave(r)
  BY DEF LeaveUncounted, LeaveScored, LeaveFailed
<1>3. run' \in [Runners -> RunRecord]
  BY <1>1, <1>2 DEF Leave, TypeOK, RunType
<1>4. run'[r] = Idle /\ \A q \in Runners \ {r} : run'[q] = run[q]
  BY <1>2 DEF Leave, TypeOK, RunType
<1>5. RunType'
  BY <1>3, <1>4 DEF TypeOK, RunType, Idle
<1>6. FailuresType'
  BY BoundAssumption DEF TypeOK, FailuresType, LeaveUncounted, LeaveScored, LeaveFailed, breakerVars
<1>7. circuitOpen' \in BOOLEAN
  <2>1. circuitOpen' = circuitOpen \/ circuitOpen' = TRUE
    BY DEF LeaveUncounted, LeaveScored, LeaveFailed, breakerVars
  <2> QED BY <2>1 DEF TypeOK, FlagType
<1> QED BY <1>5, <1>6, <1>7

\* Moving a runner to another place, short of the two that need a verdict.
LEMMA GotoType ==
  ASSUME TypeOK, NEW r \in Runners, NEW place \in Places, Goto(r, place),
         run[r].pc # "idle",
         place = "score" => run[r].pc = "upsert", place # "upsert"
  PROVE  RunType'
<1>1. run' \in [Runners -> RunRecord]
  BY DEF Goto, TypeOK, RunType, RunRecord
<1>2. /\ run'[r].lead = run[r].lead /\ run'[r].verdict = run[r].verdict /\ run'[r].pc = place
      /\ \A q \in Runners \ {r} : run'[q] = run[q]
  BY DEF Goto, TypeOK, RunType, RunRecord
<1> QED BY <1>1, <1>2 DEF TypeOK, RunType

LEMMA ReadRowsType ==
  ASSUME TypeOK, NEW p \in Pollers, NEW eligible \in SUBSET Leads, NEW limit \in Nat,
         ReadRows(p, eligible, limit)
  PROVE  /\ RowsReadType'
         /\ \A q \in Pollers \ {p} : rows'[q] = rows[q]
         /\ rows'[p] \in Seq(eligible)
<1>1. PICK S \in SUBSET eligible :
           \E es \in SetToSeqs(S) : rows' = [rows EXCEPT ![p] = es]
  BY DEF ReadRows, kSubset
<1>2. PICK es \in SetToSeqs(S) : rows' = [rows EXCEPT ![p] = es]
  BY <1>1
<1>3. IsFiniteSet(S)
  BY LeadsAssumption, FS_Subset
<1>4. es \in Seq(S)
  BY <1>3, OrderingType
<1>5. es \in Seq(eligible) /\ es \in Seq(Leads)
  BY <1>4
<1> QED BY <1>2, <1>5 DEF TypeOK, RowsReadType

\* Every step of the specification keeps the types.
LEMMA TypeStep == TypeOK /\ [Next]_vars => TypeOK'
<1> SUFFICES ASSUME TypeOK, [Next]_vars PROVE TypeOK'
  OBVIOUS
<1> USE DEF rowVars, ledgerVars, breakerVars, pollVars, envVars, pipeFrame
<1>1. ASSUME NEW s \in Scrapers, CommitBatch(s) PROVE TypeOK'
  <2>1. PICK S \in SUBSET {l \in Leads : status[l] = "absent"} :
           /\ \E b \in SetToSeqs(S) : batch' = [batch EXCEPT ![s] = b]
           /\ status' = [l \in Leads |-> IF l \in S THEN "new" ELSE status[l]]
    BY <1>1 DEF CommitBatch
  <2>2. RowType'
    BY <1>1, <2>1 DEF TypeOK, RowType, Statuses, CommitBatch
  <2>3. PICK b \in SetToSeqs(S) : batch' = [batch EXCEPT ![s] = b]
    BY <2>1
  <2>4. IsFiniteSet(S)
    BY LeadsAssumption, FS_Subset
  <2>5. b \in Seq(Leads)
    BY <2>4, OrderingType
  <2>6. BatchType'
    BY <2>3, <2>5 DEF TypeOK, BatchType
  <2> QED BY <1>1, <2>2, <2>6 DEF TypeOK, LedgerType, CreatedType, AnnouncedType, RunType,
             FailuresType, FlagType, RowsReadType, EnvType, CommitBatch
<1>2. ASSUME NEW s \in Scrapers, AnnounceBatch(s) PROVE TypeOK'
  <2>1. CreatedType'
    BY <1>2, PublishedAllType DEF TypeOK, CreatedType, BatchType, AnnounceBatch
  <2>2. BatchType'
    BY <1>2 DEF TypeOK, BatchType, AnnounceBatch
  <2> QED BY <1>2, <2>1, <2>2 DEF TypeOK, RowType, LedgerType, AnnouncedType, RunType,
             FailuresType, FlagType, RowsReadType, EnvType, AnnounceBatch
<1>3. ASSUME NEW p \in Pollers, SweepRead(p) \/ ReprocessRead(p) PROVE TypeOK'
  <2>1. PICK eligible \in SUBSET Leads, limit \in Nat : ReadRows(p, eligible, limit)
    <3>1. CASE SweepRead(p)
      BY <3>1, LimitAssumption DEF SweepRead, TypeOK, EnvType
    <3>2. CASE ReprocessRead(p)
      BY <3>2, LimitAssumption DEF ReprocessRead
    <3> QED BY <1>3, <3>1, <3>2
  <2>2. RowsReadType'
    BY <2>1, ReadRowsType
  <2>3. FlagType'
    BY <1>3 DEF TypeOK, FlagType, SweepRead, ReprocessRead
  <2> QED BY <1>3, <2>2, <2>3 DEF TypeOK, RowType, LedgerType, CreatedType, AnnouncedType,
             RunType, FailuresType, BatchType, EnvType, SweepRead, ReprocessRead
<1>4. ASSUME NEW p \in Pollers, Republish(p) PROVE TypeOK'
  <2>1. CreatedType'
    BY <1>4, PublishedAllType DEF TypeOK, CreatedType, RowsReadType, Republish
  <2>2. RowsReadType'
    BY <1>4 DEF TypeOK, RowsReadType, Republish
  <2> QED BY <1>4, <2>1, <2>2 DEF TypeOK, RowType, LedgerType, AnnouncedType, RunType,
             FailuresType, FlagType, BatchType, EnvType, Republish
<1>5. ASSUME SkipEvent PROVE TypeOK'
  <2>1. CreatedType'
    BY <1>5, CapAssumption, HeadTailProperties DEF TypeOK, CreatedType, SkipEvent
  <2> QED BY <1>5, <2>1 DEF TypeOK, RowType, LedgerType, AnnouncedType, RunType,
             FailuresType, FlagType, RowsReadType, BatchType, EnvType, SkipEvent
<1>6. ASSUME NEW r \in Runners, NEW l \in Leads, run' = [run EXCEPT ![r] = Start(l)]
      PROVE  RunType'
  <2>1. Start(l) \in RunRecord
    BY DEF Start, RunRecord, Places, BeforeClaim
  <2>2. run' \in [Runners -> RunRecord] /\ run'[r] = Start(l)
        /\ \A q \in Runners \ {r} : run'[q] = run[q]
    BY <1>6, <2>1 DEF TypeOK, RunType
  <2> QED BY <2>2 DEF TypeOK, RunType, Start
<1>7. ASSUME TakeEvent PROVE TypeOK'
  <2>1. CreatedType' /\ Head(created) \in Leads
    BY <1>7, CapAssumption, HeadTailProperties DEF TypeOK, CreatedType, TakeEvent
  <2>2. RunType'
    BY <1>6, <1>7, <2>1 DEF TakeEvent, Runners
  <2> QED BY <1>7, <2>1, <2>2 DEF TypeOK, RowType, LedgerType, AnnouncedType,
             FailuresType, FlagType, RowsReadType, BatchType, EnvType, TakeEvent
<1>8. ASSUME NEW r \in Requests, AcceptRequest(r) PROVE TypeOK'
  <2>1. RunType'
    BY <1>6, <1>8 DEF AcceptRequest, Runners
  <2> QED BY <1>8, <2>1 DEF TypeOK, RowType, LedgerType, CreatedType, AnnouncedType,
             FailuresType, FlagType, RowsReadType, BatchType, EnvType, AcceptRequest
<1>9. ASSUME NEW r \in Runners, Pipeline(r) PROVE TypeOK'
  <2>1. CASE CheckStatus(r)
    <3>1. RunType' /\ FailuresType' /\ circuitOpen' \in BOOLEAN
      <4>1. CASE LeaveFailed(r) \/ LeaveUncounted(r)
        BY <4>1, LeaveType
      <4>2. CASE Goto(r, "claim") /\ UNCHANGED breakerVars
        BY <2>1, <4>2, GotoType DEF CheckStatus, Places, BeforeClaim, TypeOK, FailuresType, FlagType
      <4> QED BY <2>1, <4>1, <4>2 DEF CheckStatus
    <3> QED BY <2>1, <3>1 DEF TypeOK, RowType, LedgerType, CreatedType, AnnouncedType,
               FlagType, RowsReadType, BatchType, EnvType, CheckStatus
  <2>2. CASE Claim(r)
    <3>1. RunType'
      BY <2>2, GotoType DEF Claim, Places, Claimed, Resolving
    <3>2. RowType'
      BY <2>2 DEF TypeOK, RowType, Statuses, Claim
    <3> QED BY <2>2, <3>1, <3>2 DEF TypeOK, LedgerType, CreatedType, AnnouncedType,
               FailuresType, FlagType, RowsReadType, BatchType, EnvType, Claim
  <2>3. CASE Resolve(r) \/ EnrichCompany(r) \/ CheckBudget(r)
    <3>1. RunType'
      BY <2>3, GotoType DEF Resolve, EnrichCompany, CheckBudget, Places, Claimed, Resolving
    <3> QED BY <2>3, <3>1 DEF TypeOK, RowType, LedgerType, CreatedType, AnnouncedType,
               FailuresType, FlagType, RowsReadType, BatchType, EnvType,
               Resolve, EnrichCompany, CheckBudget
  <2>4. CASE ChargeCheap(r) \/ CacheResolution(r)
    <3>1. RunType'
      BY <2>4, GotoType DEF ChargeCheap, CacheResolution, Places, Claimed, Resolving
    <3>2. LedgerType'
      BY <2>4, CostAssumption DEF TypeOK, LedgerType, RunType, Lead, ChargeCheap, CacheResolution
    <3> QED BY <2>4, <3>1, <3>2 DEF TypeOK, RowType, CreatedType, AnnouncedType,
               FailuresType, FlagType, RowsReadType, BatchType, EnvType,
               ChargeCheap, CacheResolution
  <2>5. CASE Pause(r)
    <3>1. RunType' /\ FailuresType' /\ circuitOpen' \in BOOLEAN
      BY <2>5, LeaveType DEF Pause
    <3>2. RowType'
      BY <2>5 DEF TypeOK, RowType, Statuses, Pause
    <3> QED BY <2>5, <3>1, <3>2 DEF TypeOK, LedgerType, CreatedType, AnnouncedType,
               FlagType, RowsReadType, BatchType, EnvType, Pause
  <2>6. CASE Charge(r)
    <3>1. PICK v \in Verdicts : run' = [run EXCEPT ![r].pc = "upsert", ![r].verdict = v]
      BY <2>6 DEF Charge
    <3>2. run' \in [Runners -> RunRecord] /\ run'[r].lead = run[r].lead
          /\ run'[r].verdict = v /\ \A q \in Runners \ {r} : run'[q] = run[q]
      BY <3>1 DEF TypeOK, RunType, RunRecord, Places, Claimed
    <3>3. RunType'
      BY <2>6, <3>2 DEF TypeOK, RunType, Charge
    <3>4. LedgerType'
      BY <2>6, CostAssumption DEF TypeOK, LedgerType, Charge
    <3> QED BY <2>6, <3>3, <3>4 DEF TypeOK, RowType, CreatedType, AnnouncedType,
               FailuresType, FlagType, RowsReadType, BatchType, EnvType, Charge
  <2>7. CASE Upsert(r) \/ Score(r)
    <3>1. RunType'
      BY <2>7, GotoType DEF Upsert, Score, Places, Claimed
    <3>2. RowType'
      BY <2>7 DEF TypeOK, RowType, RunType, Statuses, Lead, Upsert, Score
    <3> QED BY <2>7, <3>1, <3>2 DEF TypeOK, LedgerType, CreatedType, AnnouncedType,
               FailuresType, FlagType, RowsReadType, BatchType, EnvType, Upsert, Score
  <2>8. CASE Announce(r)
    <3>1. RunType' /\ FailuresType' /\ circuitOpen' \in BOOLEAN
      BY <2>8, LeaveType DEF Announce
    <3>2. AnnouncedType'
      BY <2>8, PublishedType DEF TypeOK, AnnouncedType, RunType, Lead, Announce
    <3> QED BY <2>8, <3>1, <3>2 DEF TypeOK, RowType, LedgerType, CreatedType,
               FlagType, RowsReadType, BatchType, EnvType, Announce
  <2> QED BY <1>9, <2>1, <2>2, <2>3, <2>4, <2>5, <2>6, <2>7, <2>8 DEF Pipeline
<1>10. ASSUME NEW r \in Runners, ResolveFails(r) PROVE TypeOK'
  <2>1. RunType'
    BY <1>10, GotoType DEF ResolveFails, Places, Claimed, Resolving
  <2>2. EnvType'
    BY <1>10, BoundAssumption DEF TypeOK, EnvType, ResolveFails, Fault
  <2> QED BY <1>10, <2>1, <2>2 DEF TypeOK, RowType, LedgerType, CreatedType, AnnouncedType,
             FailuresType, FlagType, RowsReadType, BatchType, ResolveFails
<1>11. ASSUME NEW r \in Runners, Fail(r) PROVE TypeOK'
  <2>1. RunType' /\ FailuresType' /\ circuitOpen' \in BOOLEAN
    BY <1>11, LeaveType DEF Fail
  <2>2. EnvType'
    BY <1>11, BoundAssumption DEF TypeOK, EnvType, Fail, Fault
  <2> QED BY <1>11, <2>1, <2>2 DEF TypeOK, RowType, LedgerType, CreatedType, AnnouncedType,
             FlagType, RowsReadType, BatchType, Fail
<1>12. ASSUME CircuitExpires PROVE TypeOK'
  <2>1. FlagType'
    BY <1>12 DEF TypeOK, FlagType, CircuitExpires
  <2> QED BY <1>12, <2>1 DEF TypeOK, RowType, LedgerType, CreatedType, AnnouncedType, RunType,
             FailuresType, RowsReadType, BatchType, EnvType, CircuitExpires
<1>13. ASSUME NEW l \in Leads, Age(l) PROVE TypeOK'
  <2>1. EnvType'
    BY <1>13 DEF TypeOK, EnvType, Age
  <2> QED BY <1>13, <2>1 DEF TypeOK, RowType, LedgerType, CreatedType, AnnouncedType, RunType,
             FailuresType, FlagType, RowsReadType, BatchType, Age
<1>14. ASSUME NewDay PROVE TypeOK'
  <2>1. LedgerType'
    BY <1>14 DEF TypeOK, LedgerType, NewDay
  <2> QED BY <1>14, <2>1 DEF TypeOK, RowType, CreatedType, AnnouncedType, RunType,
             FailuresType, FlagType, RowsReadType, BatchType, EnvType, NewDay
<1>15. ASSUME Crash PROVE TypeOK'
  <2>1. CreatedType' /\ AnnouncedType'
    BY <1>15, CapAssumption DEF CreatedType, AnnouncedType, Crash
  <2>2. RunType'
    BY <1>15 DEF RunType, RunRecord, Idle, Places, Crash
  <2>3. FailuresType' /\ EnvType'
    BY <1>15, BoundAssumption DEF TypeOK, FailuresType, EnvType, Crash
  <2>4. FlagType'
    BY <1>15 DEF FlagType, Crash
  <2>5. RowsReadType' /\ BatchType'
    BY <1>15 DEF RowsReadType, BatchType, Crash
  <2> QED BY <1>15, <2>1, <2>2, <2>3, <2>4, <2>5 DEF TypeOK, RowType, LedgerType, Crash
<1>16. ASSUME Restart PROVE TypeOK'
  <2>1. FlagType'
    BY <1>16 DEF TypeOK, FlagType, Restart
  <2> QED BY <1>16, <2>1 DEF TypeOK, RowType, LedgerType, CreatedType, AnnouncedType, RunType,
             FailuresType, RowsReadType, BatchType, EnvType, Restart
<1>17. ASSUME UNCHANGED vars PROVE TypeOK'
  BY <1>17 DEF TypeOK, RowType, LedgerType, CreatedType, AnnouncedType, RunType,
     FailuresType, FlagType, RowsReadType, BatchType, EnvType, vars
<1> QED
  BY <1>1, <1>2, <1>3, <1>4, <1>5, <1>7, <1>8, <1>9, <1>10, <1>11, <1>12, <1>13, <1>14,
     <1>15, <1>16, <1>17 DEF Next, Pollers

\* Every reachable state is well typed, for every value of the constants; a
\* runner in the pipeline always has a lead, and a verdict when it needs one.
THEOREM TypeCorrect == Spec => []TypeOK
  BY TypeInit, TypeStep, PTL DEF Spec

-----------------------------------------------------------------------------
(* Events and rows.                                                        *)

\* No step deletes a row.
LEMMA RowsPersist ==
  ASSUME TypeOK, [Next]_vars, NEW l \in Leads, Present(l)
  PROVE  Present(l)'
<1> USE DEF rowVars, ledgerVars, breakerVars, pollVars, envVars, pipeFrame
<1>1. ASSUME NEW s \in Scrapers, CommitBatch(s) PROVE Present(l)'
  BY <1>1 DEF CommitBatch, Present
<1>2. ASSUME NEW r \in Runners, Claim(r) \/ Pause(r) \/ Score(r) PROVE Present(l)'
  BY <1>2 DEF TypeOK, RowType, Claim, Pause, Score, Present
<1>3. CASE status' = status
  BY <1>3 DEF Present
<1>4. \/ \E s \in Scrapers : CommitBatch(s)
      \/ \E r \in Runners : Claim(r) \/ Pause(r) \/ Score(r)
      \/ status' = status
  <2>1. ASSUME NEW r \in Runners, Pipeline(r), ~(Claim(r) \/ Pause(r) \/ Score(r))
        PROVE  status' = status
    BY <2>1 DEF Pipeline, CheckStatus, Resolve, ChargeCheap, CacheResolution, EnrichCompany,
       CheckBudget, Charge, Upsert, Announce
  <2>2. ASSUME NEW r \in Runners, ResolveFails(r) \/ Fail(r) PROVE status' = status
    BY <2>2 DEF ResolveFails, Fail
  <2> QED BY <2>1, <2>2 DEF Next, vars, AnnounceBatch, SweepRead, ReprocessRead, Republish,
             SkipEvent, TakeEvent, AcceptRequest, CircuitExpires, Age, NewDay, Crash, Restart
<1> QED BY <1>1, <1>2, <1>3, <1>4

\* What a step leaves alone still refers to rows.
LEMMA FramePresent ==
  ASSUME TypeOK, EventsReferToRows, [Next]_vars
  PROVE  /\ created' = created => QueuedPresent'
         /\ rows' = rows => ReadPresent'
         /\ batch' = batch => BatchPresent'
         /\ run'[Worker].lead = run[Worker].lead /\ Working(Worker) => WorkerPresent'
         /\ run'[Worker] \in {run[Worker], Idle} => WorkerPresent'
<1>1. created' = created => QueuedPresent'
  BY RowsPersist DEF TypeOK, CreatedType, EventsReferToRows, QueuedPresent
<1>2. rows' = rows => ReadPresent'
  BY RowsPersist DEF TypeOK, RowsReadType, EventsReferToRows, ReadPresent
<1>3. batch' = batch => BatchPresent'
  BY RowsPersist DEF TypeOK, BatchType, EventsReferToRows, BatchPresent
<1>4. Working(Worker) => status'[run[Worker].lead] # "absent"
  BY RowsPersist DEF TypeOK, RunType, Runners, EventsReferToRows, WorkerPresent, Working, Present
<1> QED BY <1>1, <1>2, <1>3, <1>4 DEF WorkerPresent, Working, Present, Idle

LEMMA EventsInit == Init => EventsReferToRows
  BY DEF Init, EventsReferToRows, QueuedPresent, ReadPresent, BatchPresent, WorkerPresent,
     Working, Idle, Runners

\* Publishing events that refer to rows keeps the queue referring to rows.
LEMMA PublishPresent ==
  ASSUME TypeOK, EventsReferToRows, [Next]_vars, NEW es \in Seq(Leads),
         \A i \in 1..Len(es) : Present(es[i]), created' = PublishedAll(created, es)
  PROVE  QueuedPresent'
<1> DEFINE q == PublishedAll(created, es)
<1>1. \A j \in 1..Len(created) : created[j] \in Leads /\ Present(created[j])
  BY DEF TypeOK, CreatedType, EventsReferToRows, QueuedPresent
<1>2. \A j \in 1..Len(es) : es[j] \in Leads /\ Present(es[j])
  OBVIOUS
<1>3. \A i \in 1..Len(q) : q[i] \in Leads /\ Present(q[i])
  <2>1. created \in Seq(Leads) /\ Len(created) <= Cap
    BY DEF TypeOK, CreatedType
  <2>2. \A i \in 1..Len(q) : \/ \E j \in 1..Len(created) : q[i] = created[j]
                             \/ \E j \in 1..Len(es) : q[i] = es[j]
    BY <2>1, PublishedAllType
  <2> HIDE DEF q
  <2> QED BY <1>1, <1>2, <2>2
<1>4. \A l \in Leads : Present(l) => status'[l] # "absent"
  BY RowsPersist DEF Present
<1>5. \A i \in 1..Len(q) : status'[q[i]] # "absent"
  <2> HIDE DEF q
  <2> QED BY <1>3, <1>4
<1>6. created' = q
  OBVIOUS
<1> HIDE DEF q
<1> QED BY <1>5, <1>6 DEF QueuedPresent, Present

LEMMA EventsStep == TypeOK /\ EventsReferToRows /\ [Next]_vars => EventsReferToRows'
<1> SUFFICES ASSUME TypeOK, EventsReferToRows, [Next]_vars PROVE EventsReferToRows'
  OBVIOUS
<1> USE DEF rowVars, ledgerVars, breakerVars, pollVars, envVars, pipeFrame
<1>0. \A l \in Leads : Present(l) => status'[l] # "absent"
  BY RowsPersist DEF Present
<1>1. ASSUME NEW s \in Scrapers, CommitBatch(s) PROVE EventsReferToRows'
  <2>1. PICK S \in SUBSET {l \in Leads : status[l] = "absent"} :
           /\ \E b \in SetToSeqs(S) : batch' = [batch EXCEPT ![s] = b]
           /\ status' = [l \in Leads |-> IF l \in S THEN "new" ELSE status[l]]
    BY <1>1 DEF CommitBatch
  <2>2. PICK b \in SetToSeqs(S) : batch' = [batch EXCEPT ![s] = b]
    BY <2>1
  <2>3. b \in Seq(S)
    BY LeadsAssumption, FS_Subset, OrderingType
  <2>4. \A i \in 1..Len(b) : status'[b[i]] # "absent"
    BY <2>1, <2>3
  <2>5. \A q \in Scrapers \ {s} : \A i \in 1..Len(batch[q]) : status'[batch[q][i]] # "absent"
    BY <1>0 DEF TypeOK, BatchType, EventsReferToRows, BatchPresent
  <2>6. BatchPresent'
    BY <2>2, <2>4, <2>5 DEF TypeOK, BatchType, BatchPresent, Present
  <2> QED BY <1>1, <2>6, FramePresent DEF CommitBatch, EventsReferToRows
<1>2. ASSUME NEW s \in Scrapers, AnnounceBatch(s) PROVE EventsReferToRows'
  <2>1. QueuedPresent'
    BY <1>2, PublishPresent DEF AnnounceBatch, TypeOK, BatchType, EventsReferToRows, BatchPresent
  <2>2. BatchPresent'
    BY <1>2 DEF AnnounceBatch, TypeOK, BatchType, EventsReferToRows, BatchPresent, Present
  <2> QED BY <1>2, <2>1, <2>2, FramePresent DEF AnnounceBatch, EventsReferToRows
<1>3. ASSUME NEW p \in Pollers, SweepRead(p) \/ ReprocessRead(p) PROVE EventsReferToRows'
  <2>1. PICK eligible \in SUBSET {l \in Leads : Present(l)}, limit \in Nat :
           ReadRows(p, eligible, limit)
    <3>1. CASE SweepRead(p)
      BY <3>1, LimitAssumption DEF SweepRead, TypeOK, EnvType, Present, RESWEEP_STATUSES
    <3>2. CASE ReprocessRead(p)
      BY <3>2, LimitAssumption DEF ReprocessRead, Present
    <3> QED BY <1>3, <3>1, <3>2
  <2>2. /\ \A q \in Pollers \ {p} : rows'[q] = rows[q]
        /\ rows'[p] \in Seq(eligible)
    BY <2>1, ReadRowsType
  <2>3. \A i \in 1..Len(rows'[p]) : Present(rows'[p][i])
    BY <2>2
  <2>4. status' = status
    BY <1>3 DEF SweepRead, ReprocessRead
  <2>5. ReadPresent'
    BY <2>2, <2>3, <2>4 DEF EventsReferToRows, ReadPresent, Present
  <2> QED BY <1>3, <2>5, FramePresent DEF SweepRead, ReprocessRead, EventsReferToRows
<1>4. ASSUME NEW p \in Pollers, Republish(p) PROVE EventsReferToRows'
  <2>1. QueuedPresent'
    BY <1>4, PublishPresent DEF Republish, TypeOK, RowsReadType, EventsReferToRows, ReadPresent
  <2>2. ReadPresent'
    BY <1>4 DEF Republish, TypeOK, RowsReadType, EventsReferToRows, ReadPresent, Present
  <2> QED BY <1>4, <2>1, <2>2, FramePresent DEF Republish, EventsReferToRows
<1>5. ASSUME SkipEvent \/ TakeEvent PROVE EventsReferToRows'
  <2>1. created # <<>> /\ created' = Tail(created) /\ status' = status
    BY <1>5 DEF SkipEvent, TakeEvent
  <2>2. QueuedPresent' /\ status'[Head(created)] # "absent"
    BY <2>1, HeadTailProperties DEF TypeOK, CreatedType, EventsReferToRows, QueuedPresent, Present
  <2>3. run'[Worker] \in {run[Worker], Start(Head(created))}
    BY <1>5 DEF SkipEvent, TakeEvent, TypeOK, RunType, Runners
  <2>4. WorkerPresent'
    BY <2>2, <2>3, FramePresent DEF WorkerPresent, Start, Present
  <2> QED BY <1>5, <2>2, <2>4, FramePresent DEF SkipEvent, TakeEvent, EventsReferToRows
<1>6. ASSUME NEW r \in Requests, AcceptRequest(r) PROVE EventsReferToRows'
  BY <1>6, RunnerAssumption, FramePresent DEF AcceptRequest, EventsReferToRows, TypeOK, RunType, Runners
<1>7. ASSUME NEW r \in Runners, Pipeline(r) \/ ResolveFails(r) \/ Fail(r) PROVE EventsReferToRows'
  <2>1. run[r].pc # "idle"
    BY <1>7 DEF Pipeline, CheckStatus, Claim, Resolve, ChargeCheap, CacheResolution, EnrichCompany,
       CheckBudget, Pause, Charge, Upsert, Score, Announce, ResolveFails, Resolving, Fail
  <2>2. \/ Leave(r)
        \/ \E place \in Places : Goto(r, place)
        \/ \E v \in Verdicts : run' = [run EXCEPT ![r].pc = "upsert", ![r].verdict = v]
    BY <1>7 DEF Pipeline, CheckStatus, Claim, Resolve, ChargeCheap, CacheResolution, EnrichCompany,
       CheckBudget, Pause, Charge, Upsert, Score, Announce, ResolveFails, Fail,
       LeaveUncounted, LeaveScored, LeaveFailed, Places, BeforeClaim, Claimed, Resolving
  <2>3. \/ run'[Worker] \in {run[Worker], Idle}
        \/ run'[Worker].lead = run[Worker].lead /\ Working(Worker)
    BY <2>1, <2>2 DEF Leave, Goto, TypeOK, RunType, RunRecord, Runners, Working
  <2>4. created' = created /\ rows' = rows /\ batch' = batch
    BY <1>7 DEF Pipeline, CheckStatus, Claim, Resolve, ChargeCheap, CacheResolution, EnrichCompany,
       CheckBudget, Pause, Charge, Upsert, Score, Announce, ResolveFails, Fail
  <2> QED BY <2>3, <2>4, FramePresent DEF EventsReferToRows
<1>8. ASSUME CircuitExpires \/ (\E l \in Leads : Age(l)) \/ NewDay \/ Restart \/ UNCHANGED vars
      PROVE  EventsReferToRows'
  BY <1>8, FramePresent DEF CircuitExpires, Age, NewDay, Restart, vars, EventsReferToRows
<1>9. ASSUME Crash PROVE EventsReferToRows'
  BY <1>9 DEF Crash, EventsReferToRows, QueuedPresent, ReadPresent, BatchPresent, WorkerPresent,
     Working, Idle, Runners
<1> QED BY <1>1, <1>2, <1>3, <1>4, <1>5, <1>6, <1>7, <1>8, <1>9 DEF Next, Pollers

\* No event in flight names a lead without a row, for any queue bound, any
\* number of scrapes, sweeps and requests, and any crash.
THEOREM EventsCorrect == Spec => []EventsReferToRows
  BY TypeInit, TypeStep, EventsInit, EventsStep, PTL DEF Spec

-----------------------------------------------------------------------------
(* Steps of runners.                                                       *)

RunnerStep(r) == Pipeline(r) \/ ResolveFails(r) \/ Fail(r)

\* A step of a runner moves no other runner.
LEMMA RunnerFrame ==
  ASSUME TypeOK, NEW r \in Runners, RunnerStep(r)
  PROVE  /\ run[r].pc # "idle"
         /\ \A q \in Runners \ {r} : run'[q] = run[q]
         /\ run'[r] = Idle \/ run'[r].lead = run[r].lead
<1>1. \/ Leave(r)
      \/ \E place \in Places : Goto(r, place)
      \/ \E v \in Verdicts : run' = [run EXCEPT ![r].pc = "upsert", ![r].verdict = v]
  BY DEF RunnerStep, Pipeline, CheckStatus, Claim, Resolve, ChargeCheap, CacheResolution,
     EnrichCompany, CheckBudget, Pause, Charge, Upsert, Score, Announce, ResolveFails, Fail,
     LeaveUncounted, LeaveScored, LeaveFailed, Places, BeforeClaim, Claimed, Resolving
<1>2. run[r].pc # "idle"
  BY DEF RunnerStep, Pipeline, CheckStatus, Claim, Resolve, ChargeCheap, CacheResolution,
     EnrichCompany, CheckBudget, Pause, Charge, Upsert, Score, Announce, ResolveFails,
     Resolving, Fail
<1> QED BY <1>1, <1>2 DEF Leave, Goto, TypeOK, RunType, RunRecord

\* The steps in which no runner moves.
QuietStep ==
  \/ \E s \in Scrapers : AnnounceBatch(s)
  \/ \E p \in Pollers : SweepRead(p) \/ ReprocessRead(p) \/ Republish(p)
  \/ SkipEvent
  \/ \E l \in Leads : Age(l)
  \/ Restart
  \/ UNCHANGED vars

LEMMA QuietFrame ==
  ASSUME QuietStep
  PROVE  UNCHANGED <<status, score, enrichment, run, failures, circuitOpen, resolved, smartSpent,
                     cheapSpent, faults, crashes>>
  BY DEF QuietStep, AnnounceBatch, SweepRead, ReprocessRead, Republish, SkipEvent, Age, Restart,
     vars, rowVars, ledgerVars, breakerVars, envVars

\* Every step is one of these, named once for the proofs below.
LEMMA StepCases ==
  ASSUME [Next]_vars
  PROVE  \/ QuietStep
         \/ \E s \in Scrapers : CommitBatch(s)
         \/ TakeEvent
         \/ \E r \in Requests : AcceptRequest(r)
         \/ \E r \in Runners : RunnerStep(r)
         \/ CircuitExpires \/ NewDay \/ Crash
  BY DEF Next, QuietStep, RunnerStep, Pollers

-----------------------------------------------------------------------------
(* The breaker.                                                            *)

LEMMA GateStep == TypeOK /\ CircuitGate /\ [Next]_vars => CircuitGate'
<1> SUFFICES ASSUME TypeOK, CircuitGate, [Next]_vars PROVE CircuitGate'
  OBVIOUS
<1> USE DEF rowVars, ledgerVars, breakerVars, pollVars, envVars, pipeFrame
<1>1. CASE QuietStep
  BY <1>1, QuietFrame DEF CircuitGate, Working
<1>2. CASE (\E s \in Scrapers : CommitBatch(s)) \/ NewDay
  BY <1>2 DEF CommitBatch, NewDay, CircuitGate, Working
<1>3. CASE TakeEvent \/ CircuitExpires \/ Crash
  BY <1>3 DEF TakeEvent, CircuitExpires, Crash, CircuitGate
<1>4. ASSUME NEW r \in Requests, AcceptRequest(r) PROVE CircuitGate'
  BY <1>4, RunnerAssumption DEF AcceptRequest, CircuitGate, Working, TypeOK, RunType, Runners
<1>5. ASSUME NEW r \in Runners, RunnerStep(r) PROVE CircuitGate'
  <2>1. circuitOpen' = circuitOpen \/ LeaveFailed(r)
    BY <1>5 DEF RunnerStep, Pipeline, CheckStatus, Claim, Resolve, ChargeCheap, CacheResolution,
       EnrichCompany, CheckBudget, Pause, Charge, Upsert, Score, Announce, ResolveFails, Fail,
       LeaveUncounted, LeaveScored
  <2>2. CASE r = Worker
    <3>1. ~circuitOpen
      BY <1>5, <2>2, RunnerFrame DEF CircuitGate, Working
    <3>2. LeaveFailed(r) => run'[Worker] = Idle
      BY <2>2 DEF LeaveFailed, Leave, TypeOK, RunType
    <3>3. run'[Worker] = Idle => run'[Worker].pc = "idle"
      BY DEF Idle
    <3> QED BY <2>1, <2>2, <3>1, <3>2, <3>3, Zenon DEF CircuitGate, Working
  <2>3. CASE r # Worker
    <3>1. circuitOpen' = circuitOpen
      BY <2>1, <2>3, Zenon DEF LeaveFailed
    <3>2. run'[Worker] = run[Worker]
      BY <1>5, <2>3, RunnerFrame DEF Runners
    <3> QED BY <3>1, <3>2 DEF CircuitGate, Working
  <2> QED BY <2>2, <2>3
<1> QED BY <1>1, <1>2, <1>3, <1>4, <1>5, StepCases

\* The worker is idle as long as its circuit is open, whoever fails beside it
\* and however many failures open it.
THEOREM CircuitCorrect == Spec => []CircuitGate
<1>1. Init => CircuitGate
  BY DEF Init, CircuitGate
<1> QED BY <1>1, TypeInit, TypeStep, GateStep, PTL DEF Spec

-----------------------------------------------------------------------------
(* Claims.                                                                 *)

Owner(r, l) == run[r].lead = l /\ run[r].pc \in Claimed

LEMMA ClaimStep == TypeOK /\ ClaimHasRunner /\ [Next]_vars => ClaimHasRunner'
<1> SUFFICES ASSUME TypeOK, ClaimHasRunner, [Next]_vars,
                    NEW l \in Leads, status'[l] = "enriching", ~(faults' > 0), ~(crashes' > 0)
             PROVE  \E r \in Runners : run'[r].lead = l /\ run'[r].pc \in Claimed
  BY DEF ClaimHasRunner
<1> USE DEF rowVars, ledgerVars, breakerVars, pollVars, envVars, pipeFrame
<1>1. ASSUME status[l] = "enriching", ~(faults > 0), ~(crashes > 0)
      PROVE  \E r \in Runners : Owner(r, l)
  BY <1>1 DEF ClaimHasRunner, Owner
<1>2. CASE QuietStep
  BY <1>1, <1>2, QuietFrame DEF Owner
<1>3. CASE (\E s \in Scrapers : CommitBatch(s)) \/ NewDay \/ CircuitExpires
  BY <1>1, <1>3 DEF CommitBatch, NewDay, CircuitExpires, Owner
<1>4. ASSUME NEW r \in Runners, run[r] = Idle, NEW k, run' = [run EXCEPT ![r] = Start(k)],
             UNCHANGED <<status, faults, crashes>>
      PROVE  \E q \in Runners : run'[q].lead = l /\ run'[q].pc \in Claimed
  <2>1. PICK q \in Runners : Owner(q, l)
    BY <1>1, <1>4
  <2>2. q # r
    BY <1>4, <2>1 DEF Owner, Idle, Claimed, Resolving
  <2> QED BY <1>4, <2>1, <2>2 DEF Owner, TypeOK, RunType
<1>5. CASE TakeEvent \/ \E r \in Requests : AcceptRequest(r)
  BY <1>4, <1>5 DEF TakeEvent, AcceptRequest, Runners
<1>6. ASSUME NEW r \in Runners, RunnerStep(r)
      PROVE  \E q \in Runners : run'[q].lead = l /\ run'[q].pc \in Claimed
  <2>1. Pipeline(r) /\ ~(faults > 0) /\ ~(crashes > 0)
    BY <1>6 DEF RunnerStep, ResolveFails, Fail, Fault, TypeOK, EnvType, Pipeline, CheckStatus, Claim,
       Resolve, ChargeCheap, CacheResolution, EnrichCompany, CheckBudget, Pause, Charge, Upsert,
       Score, Announce
  <2>2. ASSUME NEW q \in Runners, Owner(q, l), q # r
        PROVE  run'[q].lead = l /\ run'[q].pc \in Claimed
    BY <1>6, <2>2, RunnerFrame DEF Owner
  <2>3. CASE Claim(r)
    <3>1. run'[r].pc \in Claimed /\ run'[r].lead = run[r].lead
      BY <2>3 DEF Claim, Goto, Claimed, Resolving, TypeOK, RunType, RunRecord
    <3>2. CASE run[r].lead = l
      BY <3>1, <3>2
    <3>3. CASE run[r].lead # l
      BY <1>1, <2>1, <2>2, <2>3, <3>3 DEF Claim, Owner, Lead, TypeOK, RowType
    <3> QED BY <3>2, <3>3
  <2>4. CASE Pause(r) \/ Score(r)
    BY <1>1, <2>1, <2>2, <2>4 DEF Pause, Score, Owner, Lead, TypeOK, RowType
  <2>5. CASE CheckStatus(r) \/ Announce(r)
    BY <1>1, <2>1, <2>2, <2>5 DEF CheckStatus, Announce, Owner, Claimed, Resolving
  <2>6. CASE Resolve(r) \/ ChargeCheap(r) \/ CacheResolution(r) \/ EnrichCompany(r)
             \/ CheckBudget(r) \/ Charge(r) \/ Upsert(r)
    <3>1. run'[r].pc \in Claimed /\ run'[r].lead = run[r].lead
      BY <2>6 DEF Resolve, ChargeCheap, CacheResolution, EnrichCompany, CheckBudget, Charge, Upsert,
         Goto, Claimed, Resolving, TypeOK, RunType, RunRecord
    <3>2. status' = status
      BY <2>6 DEF Resolve, ChargeCheap, CacheResolution, EnrichCompany, CheckBudget, Charge, Upsert
    <3> QED BY <1>1, <2>1, <2>2, <3>1, <3>2 DEF Owner
  <2> QED BY <2>1, <2>3, <2>4, <2>5, <2>6 DEF Pipeline
<1>7. CASE Crash
  BY <1>7 DEF Crash, TypeOK, EnvType
<1> QED BY <1>2, <1>3, <1>5, <1>6, <1>7, StepCases

\* As long as no call fails and the process lives, a lead is "enriching" only
\* while a runner is at work on it, for any number of requests on any leads.
THEOREM ClaimCorrect == Spec => []ClaimHasRunner
<1>1. Init => ClaimHasRunner
  BY DEF Init, ClaimHasRunner
<1> QED BY <1>1, TypeInit, TypeStep, ClaimStep, PTL DEF Spec

-----------------------------------------------------------------------------
(* The budget.                                                             *)

\* The runners that passed the check and whose classification is not logged yet.
Charging == {r \in Runners : run[r].pc = "charge"}

\* BudgetOvershoot is not inductive: it forgets the calls that are under way.
OvershootInv ==
  smartSpent + SmartCost * Cardinality(Charging) < Budget + SmartCost * Cardinality(Runners)

LEMMA RunnersFinite ==
  /\ IsFiniteSet(Runners) /\ Cardinality(Runners) \in Nat
  /\ \A S \in SUBSET Runners : /\ IsFiniteSet(S) /\ Cardinality(S) \in Nat
                               /\ Cardinality(S) <= Cardinality(Runners)
<1>1. IsFiniteSet(Runners)
  BY RunnerAssumption, FS_Singleton, FS_Union DEF Runners
<1> QED BY <1>1, FS_Subset, FS_CardinalityType

LEMMA CostMonotone ==
  ASSUME NEW m \in Nat, NEW n \in Nat, m <= n
  PROVE  SmartCost * m \in Nat /\ SmartCost * n \in Nat /\ SmartCost * m <= SmartCost * n
  BY CostAssumption

LEMMA OvershootStep == TypeOK /\ OvershootInv /\ [Next]_vars => OvershootInv'
<1> SUFFICES ASSUME TypeOK, OvershootInv, [Next]_vars PROVE OvershootInv'
  OBVIOUS
<1> USE DEF rowVars, ledgerVars, breakerVars, pollVars, envVars, pipeFrame
<1> DEFINE all == SmartCost * Cardinality(Runners)
<1>0. /\ smartSpent \in Nat /\ cheapSpent \in Nat /\ Budget \in Nat /\ SmartCost \in Nat
      /\ Charging \in SUBSET Runners /\ Charging' \in SUBSET Runners
      /\ Cardinality(Charging) \in Nat /\ Cardinality(Charging') \in Nat
      /\ all \in Nat /\ SmartCost * Cardinality(Charging) \in Nat
      /\ SmartCost * Cardinality(Charging') \in Nat
      /\ SmartCost * Cardinality(Charging') <= all
  <2>1. Charging \in SUBSET Runners /\ Charging' \in SUBSET Runners
    BY DEF Charging, Runners
  <2> QED BY <2>1, RunnersFinite, CostMonotone, CostAssumption DEF TypeOK, LedgerType
<1>1. ASSUME Charging' \subseteq Charging, smartSpent' \in Nat, smartSpent' <= smartSpent
      PROVE  OvershootInv'
  <2>1. Cardinality(Charging') <= Cardinality(Charging)
    BY <1>0, <1>1, RunnersFinite, FS_Subset
  <2>2. SmartCost * Cardinality(Charging') <= SmartCost * Cardinality(Charging)
    BY <1>0, <2>1, CostMonotone
  <2> QED BY <1>0, <1>1, <2>2 DEF OvershootInv
<1>2. CASE QuietStep
  BY <1>0, <1>1, <1>2, QuietFrame DEF Charging
<1>3. CASE (\E s \in Scrapers : CommitBatch(s)) \/ CircuitExpires
  BY <1>0, <1>1, <1>3 DEF CommitBatch, CircuitExpires, Charging
<1>4. CASE NewDay
  BY <1>0, <1>1, <1>4 DEF NewDay, Charging
<1>5. CASE Crash
  BY <1>0, <1>1, <1>5 DEF Crash, Charging, Idle
<1>6. CASE TakeEvent \/ \E r \in Requests : AcceptRequest(r)
  BY <1>0, <1>1, <1>6 DEF TakeEvent, AcceptRequest, Charging, Start, Runners, TypeOK, RunType
<1>7. ASSUME NEW r \in Runners, RunnerStep(r) PROVE OvershootInv'
  <2>1. CASE CheckBudget(r)
    <3>1. CASE smartSpent + cheapSpent >= Budget
      BY <1>0, <1>1, <2>1, <3>1 DEF CheckBudget, Goto, Charging, TypeOK, RunType
    <3>2. CASE smartSpent + cheapSpent < Budget
      BY <1>0, <2>1, <3>2 DEF CheckBudget, OvershootInv
    <3> QED BY <1>0, <3>1, <3>2
  <2>2. CASE Charge(r)
    <3>1. Charging' = Charging \ {r} /\ r \in Charging /\ smartSpent' = smartSpent + SmartCost
      BY <2>2 DEF Charge, Charging, TypeOK, RunType
    <3>2. Cardinality(Charging') = Cardinality(Charging) - 1
      BY <1>0, <3>1, RunnersFinite, FS_RemoveElement
    <3>3. SmartCost * Cardinality(Charging') = SmartCost * Cardinality(Charging) - SmartCost
      BY <1>0, <3>2
    <3> QED BY <1>0, <3>1, <3>3 DEF OvershootInv
  <2>3. CASE ~CheckBudget(r) /\ ~Charge(r)
    <3>1. smartSpent' = smartSpent
      BY <1>7, <2>3 DEF RunnerStep, Pipeline, CheckStatus, Claim, Resolve, ChargeCheap,
         CacheResolution, EnrichCompany, Pause, Upsert, Score, Announce, ResolveFails, Fail
    <3>2. run'[r].pc # "charge"
      <4>1. Leave(r) \/ \E place \in Places \ {"charge"} : Goto(r, place)
        BY <1>7, <2>3 DEF RunnerStep, Pipeline, CheckStatus, Claim, Resolve, ChargeCheap,
           CacheResolution, EnrichCompany, Pause, Upsert, Score, Announce, ResolveFails, Fail,
           LeaveUncounted, LeaveScored, LeaveFailed, Places, BeforeClaim, Claimed, Resolving
      <4> QED BY <4>1 DEF Leave, Goto, Idle, TypeOK, RunType, RunRecord
    <3>3. Charging' \subseteq Charging
      BY <1>7, <3>2, RunnerFrame DEF Charging, Runners
    <3> QED BY <1>0, <1>1, <3>1, <3>3
  <2> QED BY <2>1, <2>2, <2>3
<1> QED BY <1>2, <1>3, <1>4, <1>5, <1>6, <1>7, StepCases

\* Whatever the number of runners that classify at once, one day's
\* classifications cost less than the budget and one call of each of them.
THEOREM OvershootCorrect == Spec => []BudgetOvershoot
<1>1. Init => OvershootInv
  <2> SUFFICES ASSUME Init PROVE OvershootInv
    OBVIOUS
  <2>1. smartSpent = 0 /\ Charging = {}
    BY DEF Init, Charging, Idle
  <2>2. Cardinality(Charging) = 0
    BY <2>1, FS_EmptySet
  <2>3. SmartCost * Cardinality(Runners) \in Nat
    BY RunnersFinite, CostMonotone
  <2> QED BY <2>1, <2>2, <2>3, CostAssumption DEF OvershootInv
<1>2. TypeOK /\ OvershootInv => BudgetOvershoot
  <2> SUFFICES ASSUME TypeOK, OvershootInv PROVE BudgetOvershoot
    OBVIOUS
  <2>1. Charging \in SUBSET Runners
    BY DEF Charging
  <2>2. SmartCost * Cardinality(Charging) \in Nat /\ SmartCost * Cardinality(Runners) \in Nat
    BY <2>1, RunnersFinite, CostMonotone
  <2> QED BY <2>2, CostAssumption DEF OvershootInv, BudgetOvershoot, TypeOK, LedgerType
<1> QED BY <1>1, <1>2, TypeInit, TypeStep, OvershootStep, PTL DEF Spec

-----------------------------------------------------------------------------
(* The resolver.                                                           *)

\* A runner and a lead it may still have resolved at no further cost: the pairs
\* whose call has been paid for, or will never be made.
Paid ==
  {p \in Runners \X NoDomain :
     IF p[2] \in resolved THEN ~(run[p[1]].pc = "chargeCheap" /\ run[p[1]].lead = p[2])
                          ELSE run[p[1]].pc = "remember" /\ run[p[1]].lead = p[2]}

\* ResolutionsBounded is not inductive: it forgets the calls that are to come of
\* runners which looked the lead up and found nothing.
Calls == Cardinality(Paid) + faults + crashes * Cardinality(Runners)
ResolverInv ==
  /\ cheapSpent <= CheapCost * Calls
  /\ \A r \in Runners : run[r].pc \in Resolving => run[r].lead \in NoDomain

LEMMA PaidFinite ==
  /\ IsFiniteSet(Paid) /\ Cardinality(Paid) \in Nat
  /\ Cardinality(Paid) <= Cardinality(NoDomain) * Cardinality(Runners)
  /\ Cardinality(NoDomain) \in Nat
<1>1. IsFiniteSet(Runners) /\ IsFiniteSet(NoDomain)
  BY RunnersFinite, LeadsAssumption, FS_Subset
<1>2. /\ IsFiniteSet(Runners \X NoDomain)
      /\ Cardinality(Runners \X NoDomain) = Cardinality(Runners) * Cardinality(NoDomain)
  BY <1>1, FS_Product
<1>3. Paid \in SUBSET (Runners \X NoDomain)
  BY DEF Paid
<1>4. /\ IsFiniteSet(Paid) /\ Cardinality(Paid) <= Cardinality(Runners \X NoDomain)
      /\ Cardinality(Paid) \in Nat
  BY <1>2, <1>3, FS_Subset, FS_CardinalityType
<1>5. Cardinality(Runners) \in Nat /\ Cardinality(NoDomain) \in Nat
  BY <1>1, FS_CardinalityType
<1> QED BY <1>2, <1>4, <1>5

\* The same of the next state.
LEMMA PaidFiniteNext ==
  IsFiniteSet(Paid') /\ Cardinality(Paid') \in Nat
<1>1. IsFiniteSet(Runners) /\ IsFiniteSet(NoDomain)
  BY RunnersFinite, LeadsAssumption, FS_Subset
<1>2. IsFiniteSet(Runners \X NoDomain)
  BY <1>1, FS_Product
<1>3. Paid' \in SUBSET (Runners \X NoDomain)
  BY DEF Paid, Runners
<1> QED BY <1>2, <1>3, FS_Subset, FS_CardinalityType

\* The bound grows with the number of calls.
LEMMA CheapMonotone ==
  ASSUME NEW m \in Nat, NEW n \in Nat, m <= n
  PROVE  CheapCost * m \in Nat /\ CheapCost * n \in Nat /\ CheapCost * m <= CheapCost * n
  BY CostAssumption

LEMMA CallsType == TypeOK => Calls \in Nat
<1> SUFFICES ASSUME TypeOK PROVE Calls \in Nat
  OBVIOUS
<1>1. crashes \in Nat /\ Cardinality(Runners) \in Nat
  BY RunnersFinite, BoundAssumption DEF TypeOK, EnvType
<1>2. crashes * Cardinality(Runners) \in Nat
  BY <1>1
<1>3. faults \in Nat
  BY BoundAssumption DEF TypeOK, EnvType
<1> QED BY <1>2, <1>3, PaidFinite DEF Calls

LEMMA ResolverStep == TypeOK /\ ResolverInv /\ [Next]_vars => ResolverInv'
<1> SUFFICES ASSUME TypeOK, ResolverInv, [Next]_vars PROVE ResolverInv'
  OBVIOUS
<1> USE DEF rowVars, ledgerVars, breakerVars, pollVars, envVars, pipeFrame
<1> DEFINE all == Cardinality(Runners)
           Settled == \A r \in Runners : run'[r].pc \in Resolving => run'[r].lead \in NoDomain
<1>0. /\ cheapSpent \in Nat /\ CheapCost \in Nat /\ faults \in Nat /\ crashes \in Nat /\ all \in Nat
      /\ Cardinality(Paid) \in Nat /\ Cardinality(Paid') \in Nat /\ Calls \in Nat
      /\ IsFiniteSet(Paid) /\ IsFiniteSet(Paid')
  BY RunnersFinite, PaidFinite, PaidFiniteNext, CallsType, CostAssumption, BoundAssumption
     DEF TypeOK, LedgerType, EnvType
<1>1. TypeOK' /\ Calls' \in Nat /\ Runners' = Runners
      /\ Calls' = Cardinality(Paid') + faults' + crashes' * all
  <2>1. TypeOK' /\ Runners' = Runners
    BY TypeStep DEF Runners
  <2>2. faults' \in Nat /\ crashes' \in Nat
    BY <2>1, BoundAssumption DEF TypeOK, EnvType
  <2>3. crashes' * all \in Nat
    BY <1>0, <2>2
  <2>4. Calls' = Cardinality(Paid') + faults' + crashes' * all
    BY <2>1 DEF Calls
  <2> QED BY <1>0, <2>1, <2>2, <2>3, <2>4
<1> HIDE DEF all
<1>2. ASSUME Settled, cheapSpent' \in Nat, cheapSpent' <= cheapSpent, Calls <= Calls'
      PROVE  ResolverInv'
  <2>1. CheapCost * Calls <= CheapCost * Calls' /\ CheapCost * Calls' \in Nat /\ CheapCost * Calls \in Nat
    BY <1>0, <1>1, <1>2, CheapMonotone
  <2> QED BY <1>0, <1>1, <1>2, <2>1 DEF ResolverInv
<1>3. ASSUME Settled, cheapSpent' \in Nat, cheapSpent' <= cheapSpent, Paid \subseteq Paid',
             UNCHANGED <<faults, crashes>>
      PROVE  ResolverInv'
  <2>1. Cardinality(Paid) <= Cardinality(Paid')
    BY <1>0, <1>3, FS_Subset
  <2>2. Calls = Cardinality(Paid) + faults + crashes * all /\ crashes * all \in Nat
    BY <1>0 DEF Calls, all
  <2>3. Calls <= Calls'
    BY <1>0, <1>1, <1>3, <2>1, <2>2
  <2> QED BY <1>2, <1>3, <2>3
<1>4. CASE QuietStep
  BY <1>0, <1>3, <1>4, QuietFrame DEF Paid, ResolverInv, Runners
<1>5. CASE (\E s \in Scrapers : CommitBatch(s)) \/ CircuitExpires \/ NewDay
  BY <1>0, <1>3, <1>5 DEF CommitBatch, CircuitExpires, NewDay, Paid, ResolverInv, Runners
<1>6. ASSUME NEW r \in Runners, run[r] = Idle, NEW k, run' = [run EXCEPT ![r] = Start(k)],
             UNCHANGED <<resolved, cheapSpent, faults, crashes>>
      PROVE  ResolverInv'
  <2>1. /\ run'[r].pc = "fetch" /\ run[r].pc = "idle"
        /\ \A q \in Runners \ {r} : run'[q] = run[q]
    BY <1>6 DEF Start, Idle, TypeOK, RunType
  <2>2. Settled
    BY <2>1 DEF ResolverInv, Resolving
  <2>3. Paid \subseteq Paid'
    BY <1>6, <2>1 DEF Paid, Runners
  <2> QED BY <1>0, <1>3, <1>6, <2>2, <2>3
<1>7. CASE TakeEvent \/ \E r \in Requests : AcceptRequest(r)
  BY <1>6, <1>7 DEF TakeEvent, AcceptRequest, Runners
<1>8. CASE Crash
  <2>1. /\ run' = [r \in Runners |-> Idle] /\ crashes' = crashes + 1
        /\ UNCHANGED <<resolved, cheapSpent, faults>>
    BY <1>8 DEF Crash
  <2>2. Settled
    BY <2>1 DEF Idle, Resolving
  <2> DEFINE Lost == Paid \ Paid'
             f == [p \in Lost |-> p[1]]
  <2>3. ASSUME NEW p \in Lost PROVE p \in Runners \X NoDomain /\ p[2] = run[p[1]].lead
    BY <2>1 DEF Paid, Idle, Runners
  <2>4. f \in [Lost -> Runners] /\ \A p, q \in Lost : f[p] = f[q] => p = q
    BY <2>3
  <2>5. f \in Injection(Lost, Runners)
    BY <2>4 DEF Injection, IsInjective
  <2>6. IsFiniteSet(Lost) /\ Cardinality(Lost) <= all
    BY <2>5, RunnersFinite, FS_Injection DEF all
  <2> HIDE DEF Lost
  <2>7. Paid \subseteq Paid' \cup Lost
    BY DEF Lost
  <2>8. /\ IsFiniteSet(Paid' \cup Lost) /\ Cardinality(Paid' \cup Lost) \in Nat
        /\ Cardinality(Paid' \cup Lost) <= Cardinality(Paid') + Cardinality(Lost)
        /\ Cardinality(Lost) \in Nat
    <3>1. IsFiniteSet(Paid' \cap Lost)
      BY <1>0, FS_Intersection
    <3>2. Cardinality(Paid' \cap Lost) \in Nat
      BY <3>1, FS_CardinalityType
    <3>3. Cardinality(Lost) \in Nat
      BY <2>6, FS_CardinalityType
    <3>4. /\ IsFiniteSet(Paid' \cup Lost)
          /\ Cardinality(Paid' \cup Lost)
               = Cardinality(Paid') + Cardinality(Lost) - Cardinality(Paid' \cap Lost)
      BY <1>0, <2>6, FS_Union
    <3> QED BY <1>0, <3>2, <3>3, <3>4, FS_CardinalityType
  <2>9. Cardinality(Paid) <= Cardinality(Paid') + all
    BY <1>0, <2>6, <2>7, <2>8, FS_Subset
  <2>10. (crashes + 1) * all = crashes * all + all /\ crashes * all \in Nat
    BY <1>0
  <2>11. Calls <= Calls'
    BY <1>0, <1>1, <2>1, <2>9, <2>10 DEF Calls, all
  <2> QED BY <1>0, <1>2, <2>1, <2>2, <2>11
<1>9. ASSUME NEW r \in Runners, RunnerStep(r) PROVE ResolverInv'
  <2> DEFINE mine == <<r, run[r].lead>>
  <2>0. /\ run[r] \in RunRecord
        /\ \A q \in Runners \ {r} : run'[q] = run[q]
        /\ run'[r] = Idle \/ run'[r].lead = run[r].lead
    BY <1>9, RunnerFrame DEF TypeOK, RunType
  <2>1. ASSUME run'[r].pc \in Resolving => run[r].lead \in NoDomain PROVE Settled
    BY <2>0, <2>1 DEF ResolverInv, Idle, Resolving
  <2>2. ASSUME NEW p \in Runners \X NoDomain, p # mine, UNCHANGED resolved
        PROVE  p \in Paid <=> p \in Paid'
    <3>1. CASE p[1] # r
      BY <2>0, <2>2, <3>1 DEF Paid, Runners
    <3>2. CASE p[1] = r
      BY <2>0, <2>2, <3>2 DEF Paid, Runners, Idle
    <3> QED BY <3>1, <3>2
  <2>3. CASE ChargeCheap(r)
    <3>1. /\ run[r].pc = "chargeCheap" /\ run'[r].pc = "remember" /\ run'[r].lead = run[r].lead
          /\ cheapSpent' = cheapSpent + CheapCost /\ UNCHANGED <<resolved, faults, crashes>>
      BY <2>3 DEF ChargeCheap, Goto, TypeOK, RunType, RunRecord
    <3>2. run[r].lead \in NoDomain
      BY <3>1 DEF ResolverInv, Resolving
    <3>3. mine \in Runners \X NoDomain /\ mine \notin Paid /\ mine \in Paid'
      BY <3>1, <3>2 DEF Paid, Runners
    <3>4. Paid' = Paid \cup {mine}
      BY <2>2, <3>1, <3>3 DEF Paid, Runners
    <3>5. Cardinality(Paid') = Cardinality(Paid) + 1
      BY <1>0, <3>3, <3>4, FS_AddElement
    <3>6. Calls' = Calls + 1
      <4>1. crashes * all \in Nat
        BY <1>0
      <4> QED BY <1>0, <1>1, <3>1, <3>5, <4>1 DEF Calls, all
    <3>7. CheapCost * Calls' = CheapCost * Calls + CheapCost /\ CheapCost * Calls \in Nat
      BY <1>0, <3>6
    <3> QED BY <1>0, <1>1, <2>1, <3>1, <3>2, <3>7 DEF ResolverInv
  <2>4. CASE CacheResolution(r)
    <3>1. /\ run[r].pc = "remember" /\ run'[r].pc = "company"
          /\ resolved' = resolved \cup {run[r].lead} /\ UNCHANGED <<cheapSpent, faults, crashes>>
          /\ run'[r].lead = run[r].lead
      BY <2>4 DEF CacheResolution, Goto, Lead, TypeOK, RunType, RunRecord
    <3>2. ASSUME NEW p \in Paid PROVE p \in Paid'
      <4>1. p \in Runners \X NoDomain /\ p[1] \in Runners
        BY DEF Paid
      <4>2. CASE p[1] = r
        BY <3>1, <4>1, <4>2 DEF Paid, Runners
      <4>3. CASE p[1] # r
        BY <2>0, <3>1, <4>1, <4>3 DEF Paid, Runners
      <4> QED BY <4>2, <4>3
    <3>3. Settled
      BY <2>1, <3>1 DEF Resolving
    <3> QED BY <1>0, <1>3, <3>1, <3>2, <3>3
  <2>5. CASE ResolveFails(r)
    <3>1. /\ run'[r].pc = "company" /\ faults' = faults + 1
          /\ UNCHANGED <<resolved, cheapSpent, crashes>>
      BY <2>5 DEF ResolveFails, Fault, Goto, TypeOK, RunType, RunRecord
    <3>2. Paid \ {mine} \subseteq Paid'
      BY <2>2, <3>1 DEF Paid
    <3>3. /\ IsFiniteSet(Paid \ {mine}) /\ Cardinality(Paid \ {mine}) \in Nat
          /\ Cardinality(Paid) <= Cardinality(Paid \ {mine}) + 1
      <4>1. /\ IsFiniteSet(Paid \ {mine})
            /\ Cardinality(Paid \ {mine})
                 = IF mine \in Paid THEN Cardinality(Paid) - 1 ELSE Cardinality(Paid)
        BY <1>0, FS_RemoveElement
      <4>2. Cardinality(Paid \ {mine}) \in Nat
        BY <4>1, FS_CardinalityType
      <4> QED BY <1>0, <4>1, <4>2
    <3>4. Cardinality(Paid \ {mine}) <= Cardinality(Paid')
      BY <1>0, <3>2, FS_Subset
    <3>5. Calls <= Calls'
      <4>1. crashes * all \in Nat
        BY <1>0
      <4> QED BY <1>0, <1>1, <3>1, <3>3, <3>4, <4>1 DEF Calls, all
    <3>6. Settled
      BY <2>1, <3>1 DEF Resolving
    <3> QED BY <1>0, <1>2, <3>1, <3>5, <3>6
  <2>6. CASE Fail(r)
    <3>1. /\ run'[r] = Idle /\ faults' = faults + 1 /\ UNCHANGED <<resolved, cheapSpent, crashes>>
          /\ run[r].pc \notin {"chargeCheap", "remember"}
      BY <2>6 DEF Fail, Fault, LeaveFailed, Leave, TypeOK, RunType
    <3>2. Settled
      BY <2>1, <3>1 DEF Resolving, Idle
    <3>3. Paid \subseteq Paid'
      <4>1. ASSUME NEW p \in Paid, p = mine PROVE p \in Paid'
        BY <3>1, <4>1 DEF Paid, Runners, Idle
      <4> QED BY <2>2, <3>1, <4>1 DEF Paid
    <3>4. Cardinality(Paid) <= Cardinality(Paid')
      BY <1>0, <3>3, FS_Subset
    <3>5. Calls <= Calls'
      <4>1. crashes * all \in Nat
        BY <1>0
      <4> QED BY <1>0, <1>1, <3>1, <3>4, <4>1 DEF Calls, all
    <3> QED BY <1>0, <1>2, <3>1, <3>2, <3>5
  <2>7. CASE Resolve(r)
    <3>1. /\ run[r].pc = "resolve" /\ run'[r].lead = run[r].lead
          /\ run'[r].pc = IF run[r].lead \in resolved THEN "company" ELSE "chargeCheap"
          /\ UNCHANGED <<resolved, cheapSpent, faults, crashes>>
      BY <2>0, <2>7 DEF Resolve, Goto, Lead, TypeOK, RunType, RunRecord
    <3>2. Settled
      BY <2>1, <3>1 DEF Resolving, ResolverInv
    <3>3. Paid \subseteq Paid'
      <4>1. ASSUME NEW p \in Paid, p = mine PROVE p \in Paid'
        BY <3>1, <4>1 DEF Paid, Runners
      <4> QED BY <2>2, <3>1, <4>1 DEF Paid
    <3> QED BY <1>0, <1>3, <3>1, <3>2, <3>3
  <2>8. CASE \/ CheckStatus(r) \/ Claim(r) \/ EnrichCompany(r) \/ CheckBudget(r) \/ Pause(r)
             \/ Charge(r) \/ Upsert(r) \/ Score(r) \/ Announce(r)
    <3>1. run[r].pc \notin Resolving
      BY <2>8 DEF CheckStatus, Claim, EnrichCompany, CheckBudget, Pause, Charge, Upsert, Score,
         Announce, Resolving
    <3>2. UNCHANGED <<resolved, cheapSpent, faults, crashes>>
      BY <2>8 DEF CheckStatus, Claim, EnrichCompany, CheckBudget, Pause, Charge, Upsert, Score,
         Announce
    <3>3. run'[r].pc \notin {"chargeCheap", "remember"}
      <4>1. \/ Leave(r)
            \/ \E place \in Places \ {"chargeCheap", "remember"} : Goto(r, place)
            \/ \E v \in Verdicts : run' = [run EXCEPT ![r].pc = "upsert", ![r].verdict = v]
        BY <2>8 DEF CheckStatus, Claim, EnrichCompany, CheckBudget, Pause, Charge, Upsert, Score,
           Announce, LeaveUncounted, LeaveScored, LeaveFailed, Places, BeforeClaim, Claimed, Resolving
      <4> QED BY <4>1 DEF Leave, Goto, Idle, TypeOK, RunType, RunRecord
    <3>4. run'[r].pc = "resolve" => run[r].lead \in NoDomain
      <4>1. \/ Leave(r)
            \/ \E place \in Places \ {"resolve"} : Goto(r, place)
            \/ \E v \in Verdicts : run' = [run EXCEPT ![r].pc = "upsert", ![r].verdict = v]
            \/ Goto(r, "resolve") /\ run[r].lead \in NoDomain
        BY <2>8 DEF CheckStatus, Claim, EnrichCompany, CheckBudget, Pause, Charge, Upsert, Score, Lead,
           Announce, LeaveUncounted, LeaveScored, LeaveFailed, Places, BeforeClaim, Claimed, Resolving
      <4> QED BY <4>1 DEF Leave, Goto, Idle, TypeOK, RunType, RunRecord
    <3>5. Settled
      BY <2>1, <3>3, <3>4 DEF Resolving
    <3>6. Paid \subseteq Paid'
      <4>1. ASSUME NEW p \in Paid, p = mine PROVE p \in Paid'
        BY <3>1, <3>2, <3>3, <4>1 DEF Paid, Runners, Resolving
      <4> QED BY <2>2, <3>2, <4>1 DEF Paid
    <3> QED BY <1>0, <1>3, <3>2, <3>5, <3>6
  <2> QED BY <1>9, <2>3, <2>4, <2>5, <2>6, <2>7, <2>8 DEF RunnerStep, Pipeline
<1> QED BY <1>4, <1>5, <1>7, <1>8, <1>9, StepCases

\* Each lead without a domain is resolved at most once by each runner, plus once
\* for every failing call and every runner of a crash: for any runners, leads,
\* costs, failures and crashes.
THEOREM ResolutionsCorrect == Spec => []ResolutionsBounded
<1>1. Init => ResolverInv
  <2> SUFFICES ASSUME Init PROVE ResolverInv
    OBVIOUS
  <2>1. TypeOK /\ cheapSpent = 0 /\ Calls \in Nat
    BY TypeInit, CallsType DEF Init
  <2>2. CheapCost * Calls \in Nat
    BY <2>1, CheapMonotone
  <2>3. \A r \in Runners : run[r].pc \notin Resolving
    BY DEF Init, Idle, Resolving
  <2> QED BY <2>1, <2>2, <2>3 DEF ResolverInv
<1>2. TypeOK /\ ResolverInv => ResolutionsBounded
  <2> SUFFICES ASSUME TypeOK, ResolverInv PROVE ResolutionsBounded
    OBVIOUS
  <2> DEFINE all == Cardinality(Runners)
             bound == Cardinality(NoDomain) * all + faults + crashes * all
  <2>1. faults \in Nat /\ crashes \in Nat /\ all \in Nat /\ cheapSpent \in Nat
    BY RunnersFinite, BoundAssumption DEF TypeOK, EnvType, LedgerType
  <2>2. Cardinality(NoDomain) * all \in Nat /\ crashes * all \in Nat
    BY <2>1, PaidFinite
  <2>3. Calls \in Nat /\ bound \in Nat /\ Calls <= bound
    BY <2>1, <2>2, PaidFinite, CallsType DEF Calls
  <2>4. CheapCost * Calls <= CheapCost * bound /\ CheapCost * Calls \in Nat /\ CheapCost * bound \in Nat
    BY <2>3, CheapMonotone
  <2> QED BY <2>1, <2>4 DEF ResolverInv, ResolutionsBounded
<1> QED BY <1>1, <1>2, TypeInit, TypeStep, ResolverStep, PTL DEF Spec
=============================================================================
