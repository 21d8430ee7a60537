------------------------------ MODULE Scraping ------------------------------
(***************************************************************************)
(* Scrape runs: POST /scrape/{adapter} calls ScrapeOrchestrator.run, which *)
(* asks the adapter's circuit breaker, fetches, inserts the batch in one   *)
(* transaction, publishes what it inserted and records the run.  Several   *)
(* requests may run together, for one adapter or for several.              *)
(*                                                                         *)
(* raw_leads has two unique constraints, dedup_hash and (source,           *)
(* source_id); only the first is the conflict target of the INSERT.  A row *)
(* that meets an uncommitted row of another transaction waits for it.      *)
(***************************************************************************)
EXTENDS Integers, Sequences, FiniteSets, SequencesExt

CONSTANTS
  Records,      \* normalized records the sources may return
  Adapters,
  FeedOf,       \* FeedOf[a]: the records adapter a may return
  SourceOf,     \* SourceOf[x]: its (source, source_id)
  HashOf,       \* HashOf[x]: compute_dedup_hash
  Requests,     \* POST /scrape requests that may be in flight together
  Threshold,    \* circuit_breaker_threshold
  MaxLog,       \* bound: runs of an adapter within the cooldown window
  MaxFaults,    \* bound: failing calls to Postgres
  MaxCrashes    \* bound: ends of the process

ASSUME RecordAssumption ==
  /\ IsFiniteSet(Records) /\ FeedOf \in [Adapters -> SUBSET Records]
  /\ DOMAIN SourceOf = Records /\ DOMAIN HashOf = Records
ASSUME LogAssumption == Threshold \in Nat \ {0} /\ MaxLog \in Nat \ {0}
ASSUME BoundAssumption == MaxFaults \in Nat /\ MaxCrashes \in Nat

VARIABLES
  stored,     \* the committed rows of raw_leads
  runLog,     \* scrape_runs of an adapter in the cooldown window, newest
              \* started_at first; "running" holds the place of an unrecorded run
  run,        \* where each request is in ScrapeOrchestrator.run
  offered,    \* rows for which a LeadCreated event was ever published
  faults, crashes

vars == <<stored, runLog, run, offered, faults, crashes>>

Idle == [pc |-> "idle", adapter |-> "none", batch |-> <<>>, todo |-> <<>>, mine |-> <<>>,
         error |-> "none"]

Init ==
  /\ stored = {}
  /\ runLog = [a \in Adapters |-> <<>>]
  /\ run = [r \in Requests |-> Idle]
  /\ offered = {} /\ faults = 0 /\ crashes = 0

Fault == faults < MaxFaults /\ faults' = faults + 1

-----------------------------------------------------------------------------
(* The run log and the breaker.                                            *)

Entry(r, st) == [by |-> r, status |-> st]
Settled(a) == SelectSeq(runLog[a], LAMBDA e : e.status # "running")

\* count_recent_failures: the newest Threshold recorded runs of the window, up
\* to the first that did not fail.
CircuitOpen(a) ==
  /\ Len(Settled(a)) >= Threshold
  /\ \A i \in 1..Threshold : Settled(a)[i].status = "error"

\* A run is ordered by the time it started, which is when its place is taken.
TakePlace(a, r) == [runLog EXCEPT ![a] = <<Entry(r, "running")>> \o @]
Settle(a, r, st) ==
  [runLog EXCEPT ![a] = [i \in DOMAIN @ |->
     IF @[i] = Entry(r, "running") THEN Entry("past", st) ELSE @[i]]]
\* The entries at the positions K, in their order.
Only(s, K) ==
  [n \in 1..Cardinality(K) |-> s[CHOOSE i \in K : Cardinality({j \in K : j <= i}) = n]]
Unrecorded(a, R) ==
  {i \in DOMAIN runLog[a] : runLog[a][i].status = "running" /\ runLog[a][i].by \in R}
LosePlaces(R) == [a \in Adapters |-> Only(runLog[a], DOMAIN runLog[a] \ Unrecorded(a, R))]

\* The oldest run of the window leaves it.
CooldownPasses(a) ==
  /\ runLog[a] # <<>>
  /\ runLog' = [runLog EXCEPT ![a] = Front(@)]
  /\ UNCHANGED <<stored, run, offered, faults, crashes>>

-----------------------------------------------------------------------------
(* ScrapeOrchestrator.run.                                                 *)

AcceptScrape(r, a) ==
  /\ run[r] = Idle /\ Len(runLog[a]) < MaxLog
  /\ run' = [run EXCEPT ![r] = [Idle EXCEPT !.pc = "check", !.adapter = a]]
  /\ runLog' = TakePlace(a, r)
  /\ UNCHANGED <<stored, offered, faults, crashes>>

\* A variant that records the runs it refuses, as it does the others.
CheckCircuit_RecordRefused(r) ==
  /\ run[r].pc = "check"
  /\ IF CircuitOpen(run[r].adapter)
       THEN /\ run' = [run EXCEPT ![r] = Idle]
            /\ runLog' = Settle(run[r].adapter, r, "error")
       ELSE run' = [run EXCEPT ![r].pc = "fetch"] /\ UNCHANGED runLog
  /\ UNCHANGED <<stored, offered, faults, crashes>>

\* A refused run answers with an error report that is never recorded.
CheckCircuit(r) ==
  /\ run[r].pc = "check"
  /\ IF CircuitOpen(run[r].adapter)
       THEN run' = [run EXCEPT ![r] = Idle] /\ runLog' = LosePlaces({r})
       ELSE run' = [run EXCEPT ![r].pc = "fetch"] /\ UNCHANGED runLog
  /\ UNCHANGED <<stored, offered, faults, crashes>>

\* fetch_raw answers and every record that normalizes joins the batch, in the
\* order of the feed; insert_leads returns at once for an empty one.
Fetch(r) ==
  /\ run[r].pc = "fetch"
  /\ \E S \in SUBSET FeedOf[run[r].adapter] : \E b \in SetToSeqs(S) :
       run' = [run EXCEPT ![r].pc = IF b = <<>> THEN "record" ELSE "insert",
                          ![r].batch = b, ![r].todo = b]
  /\ UNCHANGED <<stored, runLog, offered, faults, crashes>>

\* A variant that keeps the list of inserted ids after the rollback.
Abort_KeepRows(r, why) ==
  run' = [run EXCEPT ![r].pc = "record", ![r].error = why, ![r].todo = <<>>]

\* The transaction is rolled back and the run ends as an error run.
Abort(r, why) ==
  run' = [run EXCEPT ![r].pc = "record", ![r].error = why, ![r].mine = <<>>, ![r].todo = <<>>]

\* fetch_raw raises: an unreachable or misbehaving source is not a bounded fault.
FetchFails(r) ==
  /\ run[r].pc = "fetch"
  /\ Abort(r, "fetch")
  /\ UNCHANGED <<stored, runLog, offered, faults, crashes>>

-----------------------------------------------------------------------------
(* insert_leads, one INSERT ... ON CONFLICT (dedup_hash) DO NOTHING a step. *)

Row(r) == Head(run[r].todo)
SameHash(x, S) == \E y \in S : HashOf[y] = HashOf[x]
SameSource(x, S) == \E y \in S : SourceOf[y] = SourceOf[x]
Visible(r) == stored \cup ToSet(run[r].mine)
Inserting(r) == run[r].pc = "insert" /\ run[r].todo # <<>>

\* The transactions whose outcome the next INSERT of r waits for: the conflict
\* target is looked up first, the other unique index when the tuple is written.
WaitsFor(r) ==
  LET holders(Same(_, _)) == {q \in Requests \ {r} : Same(Row(r), ToSet(run[q].mine) \ stored)}
  IN  IF ~Inserting(r) \/ SameHash(Row(r), Visible(r)) THEN {}
      ELSE IF holders(SameHash) # {} THEN holders(SameHash) ELSE holders(SameSource)

Advance(r) == [run[r] EXCEPT !.todo = Tail(@)]

\* RETURNING yields no row: counted as a duplicate.
SkipRow(r) ==
  /\ Inserting(r) /\ SameHash(Row(r), Visible(r))
  /\ run' = [run EXCEPT ![r] = Advance(r)]
  /\ UNCHANGED <<stored, runLog, offered, faults, crashes>>

\* A variant for a table without the second unique constraint.
AddRow_OneConstraint(r) ==
  /\ Inserting(r) /\ WaitsFor(r) = {} /\ ~SameHash(Row(r), Visible(r))
  /\ run' = [run EXCEPT ![r] = [Advance(r) EXCEPT !.mine = Append(@, Row(r))]]
  /\ UNCHANGED <<stored, runLog, offered, faults, crashes>>

AddRow(r) ==
  /\ Inserting(r) /\ WaitsFor(r) = {}
  /\ ~SameHash(Row(r), Visible(r)) /\ ~SameSource(Row(r), Visible(r))
  /\ run' = [run EXCEPT ![r] = [Advance(r) EXCEPT !.mine = Append(@, Row(r))]]
  /\ UNCHANGED <<stored, runLog, offered, faults, crashes>>

ConflictingRow(r) ==
  /\ Inserting(r) /\ WaitsFor(r) = {}
  /\ ~SameHash(Row(r), Visible(r)) /\ SameSource(Row(r), Visible(r))

\* A variant that restarts the transaction and goes on with the next record.
RowConflicts_GoOn(r) ==
  /\ ConflictingRow(r)
  /\ run' = [run EXCEPT ![r] = [Advance(r) EXCEPT !.mine = <<>>]]
  /\ UNCHANGED <<stored, runLog, offered, faults, crashes>>

\* A variant that restarts the transaction and tries the record again.
RowConflicts_Retry(r) ==
  /\ ConflictingRow(r)
  /\ run' = [run EXCEPT ![r].mine = <<>>]
  /\ UNCHANGED <<stored, runLog, offered, faults, crashes>>

\* IntegrityError: the handler's session.rollback() ends the transaction of the
\* enclosing "async with session.begin()", and the session.begin() after it
\* raises InvalidRequestError, which leaves insert_leads.
RowConflicts(r) ==
  /\ ConflictingRow(r)
  /\ Abort(r, "integrity")
  /\ UNCHANGED <<stored, runLog, offered, faults, crashes>>

\* Two transactions wait for each other: Postgres cancels one of them.
DeadlockVictim(r) ==
  /\ \E q \in WaitsFor(r) : r \in WaitsFor(q)
  /\ Abort(r, "deadlock")
  /\ UNCHANGED <<stored, runLog, offered, faults, crashes>>

\* A variant that publishes nothing when the batch held a duplicate.
Commit_OnlyCleanBatch(r) ==
  /\ run[r].pc = "insert" /\ run[r].todo = <<>>
  /\ stored' = stored \cup ToSet(run[r].mine)
  /\ run' = [run EXCEPT ![r].pc = IF run[r].mine = run[r].batch THEN "publish" ELSE "record",
                        ![r].mine = IF run[r].mine = run[r].batch THEN @ ELSE <<>>]
  /\ UNCHANGED <<runLog, offered, faults, crashes>>

\* The transaction commits and the orchestrator has the new ids.
Commit(r) ==
  /\ run[r].pc = "insert" /\ run[r].todo = <<>>
  /\ stored' = stored \cup ToSet(run[r].mine)
  /\ run' = [run EXCEPT ![r].pc = IF run[r].mine = <<>> THEN "record" ELSE "publish"]
  /\ UNCHANGED <<runLog, offered, faults, crashes>>

\* publish_new_leads: one event per inserted id, without suspending.
Publish(r) ==
  /\ run[r].pc = "publish"
  /\ offered' = offered \cup ToSet(run[r].mine)
  /\ run' = [run EXCEPT ![r].pc = "record", ![r].mine = <<>>]
  /\ UNCHANGED <<stored, runLog, faults, crashes>>

\* record_run: the report becomes visible to the breaker.
RecordRun(r) ==
  /\ run[r].pc = "record"
  /\ runLog' = Settle(run[r].adapter, r, IF run[r].error = "none" THEN "success" ELSE "error")
  /\ run' = [run EXCEPT ![r] = Idle]
  /\ UNCHANGED <<stored, offered, faults, crashes>>

-----------------------------------------------------------------------------
(* Failures of Postgres, and of the process.                               *)

\* The connection breaks in the transaction, before or after it took effect.
InsertFails(r) ==
  /\ run[r].pc = "insert" /\ Fault
  /\ Abort(r, "database")
  /\ \/ UNCHANGED stored
     \/ run[r].todo = <<>> /\ stored' = stored \cup ToSet(run[r].mine)
  /\ UNCHANGED <<runLog, offered, crashes>>

\* Outside the try block an exception leaves run and nothing is recorded.
LogFails(r) ==
  /\ run[r].pc \in {"check", "record"} /\ Fault
  /\ run' = [run EXCEPT ![r] = Idle]
  /\ runLog' = LosePlaces({r})
  /\ UNCHANGED <<stored, offered, crashes>>

\* The process ends: Postgres rolls back what was not committed.
Crash ==
  /\ crashes < MaxCrashes /\ crashes' = crashes + 1
  /\ run' = [r \in Requests |-> Idle]
  /\ runLog' = LosePlaces(Requests)
  /\ UNCHANGED <<stored, offered, faults>>

Work(r) ==
  \/ CheckCircuit(r) \/ Fetch(r) \/ FetchFails(r) \/ SkipRow(r) \/ AddRow(r)
  \/ RowConflicts(r) \/ DeadlockVictim(r) \/ Commit(r) \/ Publish(r) \/ RecordRun(r)

Next ==
  \/ \E r \in Requests :
       \/ \E a \in Adapters : AcceptScrape(r, a)
       \/ Work(r) \/ InsertFails(r) \/ LogFails(r)
  \/ \E a \in Adapters : CooldownPasses(a)
  \/ Crash

Spec == Init /\ [][Next]_vars

(***************************************************************************)
(* Every wait of a request ends (fetchers and Postgres have timeouts, and  *)
(* Postgres breaks deadlocks), and the cooldown window moves with time.    *)
(* Strong fairness of a request: Postgres wakes the waiter of a row as     *)
(* soon as the transaction it waits for ends, long before the request that *)
(* ended it has fetched again.  Nothing makes a caller trigger a scrape.   *)
(***************************************************************************)
Fairness ==
  /\ \A r \in Requests : SF_vars(Work(r))
  /\ \A a \in Adapters : WF_vars(CooldownPasses(a))

FairSpec == Spec /\ Fairness

-----------------------------------------------------------------------------
(* Properties.                                                             *)

Places == {"idle", "check", "fetch", "insert", "publish", "record"}
Errors == {"none", "fetch", "integrity", "deadlock", "database"}

TypeOK ==
  /\ stored \subseteq Records /\ offered \subseteq Records
  /\ runLog \in [Adapters ->
       Seq([by : Requests \cup {"past"}, status : {"running", "success", "error"}])]
  /\ run \in [Requests -> [pc : Places, adapter : Adapters \cup {"none"}, batch : Seq(Records),
                           todo : Seq(Records), mine : Seq(Records), error : Errors]]
  /\ \A r \in Requests : run[r].pc \notin {"insert", "publish"} => run[r].mine = <<>>
  /\ faults \in 0..MaxFaults /\ crashes \in 0..MaxCrashes

\* raw_leads never holds two rows with one hash or one source key, and the rows
\* open transactions are about to add keep it so (waits included).
KeysStayUnique ==
  \A x, y \in stored \cup UNION {ToSet(run[r].mine) : r \in Requests} :
     x # y => HashOf[x] # HashOf[y] /\ SourceOf[x] # SourceOf[y]

\* A run about to be recorded as a success has every record of its batch in the
\* table, itself or as the duplicate that was there, whichever transactions it
\* waited for and whatever they did (insert_leads).
SuccessMeansStored ==
  \A r \in Requests : run[r].pc \in {"publish", "record"} /\ run[r].error = "none" =>
    \A x \in ToSet(run[r].batch) : SameHash(x, stored)

\* While Postgres answers and the process lives, a committed row is published
\* by the run that inserted it, duplicates in the batch or not; the resweeper is
\* needed only after a failure or an overflow.
EveryRowOffered ==
  \A x \in stored \ offered :
    \/ faults > 0 \/ crashes > 0
    \/ \E r \in Requests : run[r].pc = "publish" /\ x \in ToSet(run[r].mine)

\* The breaker resets by itself: refused runs do not prolong the pause, however
\* often the adapter is triggered (_is_circuit_open).
BreakerResets == \A a \in Adapters : CircuitOpen(a) ~> ~CircuitOpen(a)

\* Every accepted scrape answers: no transaction waits for ever for the rows of
\* another, and none keeps its rows after its run is over.
ScrapesAnswer == \A r \in Requests : run[r].pc # "idle" ~> run[r].pc = "idle"

\* The comment in insert_leads on a (source, source_id) conflict, "Skip it": the
\* conflict of one record does not fail the run and lose the other records.
ConflictIsSkipped == \A r \in Requests : run[r].error # "integrity"
=============================================================================
