--------------------------- MODULE ScrapingProofs ---------------------------
(***************************************************************************)
(* Theorems about Scraping, for any records, feeds, hashes, source keys    *)
(* and number of concurrent requests, with failures of Postgres and ends   *)
(* of the process.                                                         *)
(*                                                                         *)
(* ScrapeInv says of each run what its transaction has done so far: every  *)
(* record of the batch is still to come, or has a row of its hash that the *)
(* transaction sees.  The run log plays no part in it: it decides which    *)
(* runs are refused, not what the others store.  LogInv gives its type.    *)
(***************************************************************************)
EXTENDS Scraping, SequenceTheorems, FiniteSetTheorems, WellFoundedInduction, TLAPS

RunRecord == [pc : Places, adapter : Adapters \cup {"none"}, batch : Seq(Records),
              todo : Seq(Records), mine : Seq(Records), error : Errors]

\* What a run knows when the committed rows are S.
GoodRun(x, S) ==
  /\ x.pc \notin {"insert", "publish"} => x.mine = <<>>
  /\ x.pc \in {"check", "fetch", "insert", "publish"} => x.error = "none"
  /\ x.pc \in {"fetch", "insert", "publish", "record", "check"} => x.adapter \in Adapters
  /\ x.pc = "insert" =>
       \A y \in ToSet(x.batch) : y \in ToSet(x.todo) \/ SameHash(y, S \cup ToSet(x.mine))
  /\ x.pc = "publish" => ToSet(x.mine) \subseteq S
  /\ x.pc \in {"publish", "record"} /\ x.error = "none" =>
       \A y \in ToSet(x.batch) : SameHash(y, S)

Pending == UNION {ToSet(run[r].mine) : r \in Requests}
Unique(S) == \A x, y \in S : x # y => HashOf[x] # HashOf[y] /\ SourceOf[x] # SourceOf[y]

ScrapeInv ==
  /\ stored \subseteq Records /\ faults \in Nat /\ crashes \in Nat
  /\ run \in [Requests -> RunRecord]
  /\ \A r \in Requests : GoodRun(run[r], stored)
  /\ KeysStayUnique /\ EveryRowOffered

-----------------------------------------------------------------------------
(* Records and sequences.                                                  *)

\* A run stays a run whatever field it gets anew.
LEMMA RunUpdates ==
  ASSUME NEW x \in RunRecord
  PROVE  /\ \A p \in Places : [x EXCEPT !.pc = p] \in RunRecord
         /\ \A a \in Adapters : [x EXCEPT !.adapter = a] \in RunRecord
         /\ \A s \in Seq(Records) : /\ [x EXCEPT !.batch = s] \in RunRecord
                                    /\ [x EXCEPT !.todo = s] \in RunRecord
                                    /\ [x EXCEPT !.mine = s] \in RunRecord
         /\ \A e \in Errors : [x EXCEPT !.error = e] \in RunRecord
BY DEF RunRecord

LEMMA IdleTyped == Idle \in RunRecord /\ Idle.pc = "idle" /\ Idle.mine = <<>> /\ Idle.error = "none"
<1>1. <<>> \in Seq(Records)
  OBVIOUS
<1> QED BY <1>1 DEF Idle, RunRecord, Places, Errors

\* What a sequence holds.
LEMMA Contents ==
  ASSUME NEW s \in Seq(Records)
  PROVE  /\ ToSet(s) \subseteq Records
         /\ \A e \in Records : Append(s, e) \in Seq(Records) /\ ToSet(Append(s, e)) = ToSet(s) \cup {e}
         /\ s # <<>> => /\ Head(s) \in Records /\ Tail(s) \in Seq(Records)
                        /\ ToSet(s) = {Head(s)} \cup ToSet(Tail(s))
         /\ s = <<>> => ToSet(s) = {}
<1>1. ToSet(s) \subseteq Records
  BY DEF ToSet
<1>2. ASSUME NEW e \in Records
      PROVE  Append(s, e) \in Seq(Records) /\ ToSet(Append(s, e)) = ToSet(s) \cup {e}
  <2>1. /\ Append(s, e) \in Seq(Records) /\ Len(Append(s, e)) = Len(s) + 1 /\ Len(s) \in Nat
        /\ \A i \in 1..Len(s) : Append(s, e)[i] = s[i]
        /\ Append(s, e)[Len(s) + 1] = e
    BY AppendProperties
  <2>2. DOMAIN s = 1..Len(s) /\ DOMAIN Append(s, e) = 1..Len(s) + 1
    BY <2>1, LenProperties
  <2>3. 1..Len(s) + 1 = (1..Len(s)) \cup {Len(s) + 1}
    BY <2>1
  <2> QED BY <2>1, <2>2, <2>3 DEF ToSet
<1>3. ASSUME s # <<>>
      PROVE  /\ Head(s) \in Records /\ Tail(s) \in Seq(Records)
             /\ ToSet(s) = {Head(s)} \cup ToSet(Tail(s))
  <2>1. /\ Head(s) \in Records /\ Tail(s) \in Seq(Records) /\ Len(Tail(s)) = Len(s) - 1
        /\ \A i \in 1..Len(Tail(s)) : Tail(s)[i] = s[i + 1]
    BY <1>3, HeadTailProperties
  <2>2. DOMAIN s = 1..Len(s) /\ DOMAIN Tail(s) = 1..Len(s) - 1 /\ Head(s) = s[1] /\ Len(s) \in Nat \ {0}
    BY <1>3, <2>1, LenProperties, EmptySeq
  <2>3. ASSUME NEW y \in ToSet(s) PROVE y \in {Head(s)} \cup ToSet(Tail(s))
    <3>1. PICK i \in 1..Len(s) : y = s[i]
      BY <2>2, <2>3 DEF ToSet
    <3>2. CASE i # 1
      <4>1. i - 1 \in 1..Len(s) - 1 /\ Tail(s)[i - 1] = s[i]
        BY <2>1, <2>2, <3>2
      <4> QED BY <2>2, <3>1, <4>1 DEF ToSet
    <3> QED BY <2>2, <3>1, <3>2
  <2>4. ASSUME NEW y \in ToSet(Tail(s)) PROVE y \in ToSet(s)
    <3>1. PICK i \in 1..Len(s) - 1 : y = Tail(s)[i]
      BY <2>2, <2>4 DEF ToSet
    <3>2. i + 1 \in 1..Len(s) /\ y = s[i + 1]
      BY <2>1, <2>2, <3>1
    <3> QED BY <2>2, <3>2 DEF ToSet
  <2>5. Head(s) \in ToSet(s)
    BY <2>2 DEF ToSet
  <2> QED BY <2>1, <2>3, <2>4, <2>5
<1>4. s = <<>> => ToSet(s) = {}
  BY DEF ToSet
<1> QED BY <1>1, <1>2, <1>3, <1>4

\* A batch is a sequence of records of the feed.
LEMMA BatchTyped ==
  ASSUME NEW a \in Adapters, NEW S \in SUBSET FeedOf[a], NEW b \in SetToSeqs(S)
  PROVE  b \in Seq(Records)
<1>1. S \subseteq Records /\ IsFiniteSet(S)
  BY RecordAssumption, FS_Subset
<1>2. Cardinality(S) \in Nat
  BY <1>1, FS_CardinalityType
<1>3. b \in [1..Cardinality(S) -> S]
  BY DEF SetToSeqs
<1> QED BY <1>1, <1>2, <1>3
-----------------------------------------------------------------------------
(* Steps of one request.                                                   *)

\* What a run knows stays true when other transactions commit.
LEMMA GoodRunGrows ==
  ASSUME NEW S, NEW T, S \subseteq T, NEW x, GoodRun(x, S)
  PROVE  GoodRun(x, T)
BY DEF GoodRun, SameHash

\* What a request does to the run, the rows and the events, at most.
Leads(r, x) ==
  /\ run' = [run EXCEPT ![r] = x]
  /\ stored \subseteq stored' /\ offered \subseteq offered'
  /\ faults' \in Nat /\ faults' >= faults /\ UNCHANGED crashes
  /\ \A z \in stored' \ offered' :
       \/ faults' > 0
       \/ z \in stored /\ ~(run[r].pc = "publish" /\ z \in ToSet(run[r].mine))
       \/ x.pc = "publish" /\ z \in ToSet(x.mine)

\* Every committed row is still offered, or about to be.
LEMMA OfferedKept ==
  ASSUME ScrapeInv, NEW r \in Requests, NEW x, Leads(r, x)
  PROVE  EveryRowOffered'
<1> SUFFICES ASSUME NEW z \in stored' \ offered', ~(faults' > 0), ~(crashes' > 0)
             PROVE  \E q \in Requests : run'[q].pc = "publish" /\ z \in ToSet(run'[q].mine)
  BY DEF EveryRowOffered, ToSet
<1>1. run'[r] = x /\ \A q \in Requests \ {r} : run'[q] = run[q]
  BY DEF Leads, ScrapeInv
<1>2. CASE z \in stored /\ ~(run[r].pc = "publish" /\ z \in ToSet(run[r].mine))
  <2>1. ~(faults > 0) /\ ~(crashes > 0) /\ z \in stored \ offered
    BY <1>2 DEF Leads, ScrapeInv
  <2>2. PICK q \in Requests : run[q].pc = "publish" /\ z \in ToSet(run[q].mine)
    BY <2>1 DEF ScrapeInv, EveryRowOffered
  <2> QED BY <1>1, <1>2, <2>2
<1>3. CASE x.pc = "publish" /\ z \in ToSet(x.mine)
  BY <1>1, <1>3
<1> QED BY <1>2, <1>3 DEF Leads

\* A step of a request, when the rows stay rows with keys of their own.
LEMMA LeadsKeeps ==
  ASSUME ScrapeInv, NEW r \in Requests, NEW x \in RunRecord, Leads(r, x), GoodRun(x, stored'),
         stored' \subseteq Records, KeysStayUnique'
  PROVE  ScrapeInv'
<1>1. run'[r] = x /\ (\A q \in Requests \ {r} : run'[q] = run[q]) /\ run' \in [Requests -> RunRecord]
  BY DEF Leads, ScrapeInv
<1>2. stored \subseteq stored' /\ faults' \in Nat /\ crashes' \in Nat
  BY DEF Leads, ScrapeInv
<1>3. ASSUME NEW q \in Requests PROVE GoodRun(run'[q], stored')
  BY <1>1, <1>2, GoodRunGrows DEF ScrapeInv
<1>4. (\A q \in Requests : GoodRun(run[q], stored))'
  BY <1>3 DEF GoodRun, SameHash, ToSet
<1> QED BY <1>1, <1>2, <1>4, OfferedKept DEF ScrapeInv

\* What the rows of the table and of the transactions become.
LEMMA PendingAfter ==
  ASSUME ScrapeInv, NEW r \in Requests, NEW x, Leads(r, x)
  PROVE  /\ Pending' \subseteq Pending \cup ToSet(x.mine)
         /\ Unique(stored \cup Pending) /\ stored \cup Pending \subseteq Records
         /\ Unique(stored' \cup Pending') => KeysStayUnique'
<1>1. run'[r] = x /\ \A q \in Requests \ {r} : run'[q] = run[q]
  BY DEF Leads, ScrapeInv
<1>2. Pending' = UNION {ToSet(run'[q].mine) : q \in Requests}
  BY DEF Pending, ToSet
<1>3. Pending' \subseteq Pending \cup ToSet(x.mine)
  BY <1>1, <1>2 DEF Pending
<1>4. Unique(stored \cup Pending)
  BY DEF ScrapeInv, KeysStayUnique, Unique, Pending
<1>5. \A q \in Requests : ToSet(run[q].mine) \subseteq Records
  BY Contents DEF ScrapeInv, RunRecord
<1>6. stored \cup Pending \subseteq Records
  BY <1>5 DEF ScrapeInv, Pending
<1>7. Unique(stored' \cup Pending') => KeysStayUnique'
  BY DEF KeysStayUnique, Unique, Pending
<1> QED BY <1>3, <1>4, <1>6, <1>7

\* A step that adds no row to a transaction.
LEMMA NoRowKeeps ==
  ASSUME ScrapeInv, NEW r \in Requests, NEW x \in RunRecord, Leads(r, x), GoodRun(x, stored'),
         stored' \cup ToSet(x.mine) \subseteq stored \cup ToSet(run[r].mine)
  PROVE  ScrapeInv'
<1>1. ToSet(run[r].mine) \subseteq Pending
  BY DEF Pending
<1>2. stored' \cup Pending' \subseteq stored \cup Pending
  BY <1>1, PendingAfter
<1>3. Unique(stored' \cup Pending') /\ stored' \subseteq Records
  BY <1>2, PendingAfter DEF Unique
<1> QED BY <1>3, PendingAfter, LeadsKeeps

\* Nothing but runs and the run log changes, and a fault may be counted.
Quiet ==
  /\ stored' = stored /\ offered' = offered /\ crashes' = crashes
  /\ faults' \in Nat /\ faults' >= faults

\* A run that leaves, gives up or goes on without a row.
LEMMA LeavesKeeps ==
  ASSUME ScrapeInv, NEW r \in Requests, NEW x \in RunRecord, run' = [run EXCEPT ![r] = x],
         Quiet, run[r].pc # "publish", ToSet(x.mine) \subseteq ToSet(run[r].mine), GoodRun(x, stored)
  PROVE  ScrapeInv'
<1>1. Leads(r, x)
  BY DEF Leads, Quiet
<1>2. GoodRun(x, stored')
  BY DEF Quiet
<1>3. stored' \cup ToSet(x.mine) \subseteq stored \cup ToSet(run[r].mine)
  BY DEF Quiet
<1> QED BY <1>1, <1>2, <1>3, NoRowKeeps

LEMMA QuietStep == ASSUME ScrapeInv, UNCHANGED <<stored, offered, faults, crashes>> PROVE Quiet
BY DEF ScrapeInv, Quiet

LEMMA RunFacts ==
  ASSUME ScrapeInv, NEW r \in Requests
  PROVE  /\ run[r] \in RunRecord /\ run \in [Requests -> RunRecord]
         /\ GoodRun(run[r], stored)
BY DEF ScrapeInv

LEMMA IdleGood == GoodRun(Idle, stored) /\ ToSet(Idle.mine) = {}
BY IdleTyped DEF GoodRun, ToSet

\* A run that becomes idle before its rows are published.
LEMMA IdleKeeps ==
  ASSUME ScrapeInv, NEW r \in Requests, run' = [run EXCEPT ![r] = Idle],
         Quiet, run[r].pc # "publish"
  PROVE  ScrapeInv'
BY IdleTyped, IdleGood, LeavesKeeps

LEMMA AbortKeeps ==
  ASSUME ScrapeInv, NEW r \in Requests, NEW why \in Errors \ {"none"}, Abort(r, why),
         run[r].pc \in {"fetch", "insert"}, UNCHANGED <<offered, crashes>>,
         faults' \in Nat, faults' >= faults,
         \/ UNCHANGED stored
         \/ stored' = stored \cup ToSet(run[r].mine) /\ faults' > 0
  PROVE  ScrapeInv'
<1> DEFINE x1 == [run[r] EXCEPT !.pc = "record"]
           x2 == [x1 EXCEPT !.error = why]
           x3 == [x2 EXCEPT !.mine = <<>>]
           x == [x3 EXCEPT !.todo = <<>>]
<1>0. run[r] \in RunRecord /\ run \in [Requests -> RunRecord] /\ run[r].adapter \in Adapters
  BY DEF ScrapeInv, GoodRun
<1>1. run' = [run EXCEPT ![r] = x]
  BY <1>0 DEF Abort
<1>2. x1 \in RunRecord /\ x1.pc = "record" /\ x1.adapter \in Adapters
  BY <1>0 DEF RunRecord, Places
<1> HIDE DEF x1
<1>3. x2 \in RunRecord /\ x2.pc = "record" /\ x2.error = why /\ x2.adapter \in Adapters
  BY <1>2 DEF RunRecord
<1> HIDE DEF x2
<1>e. <<>> \in Seq(Records)
  OBVIOUS
<1>4. x3 \in RunRecord /\ x3.pc = "record" /\ x3.error = why /\ x3.mine = <<>> /\ x3.adapter \in Adapters
  BY <1>3, <1>e DEF RunRecord
<1> HIDE DEF x3
<1>5. x \in RunRecord /\ x.pc = "record" /\ x.error = why /\ x.mine = <<>> /\ x.adapter \in Adapters
  BY <1>4, <1>e DEF RunRecord
<1> HIDE DEF x
<1>6. GoodRun(x, stored')
  BY <1>5 DEF GoodRun
<1>7. ToSet(x.mine) = {}
  BY <1>5 DEF ToSet
<1>8. Leads(r, x)
  BY <1>1, <1>7 DEF Leads
<1> QED BY <1>5, <1>6, <1>7, <1>8, NoRowKeeps

LEMMA AcceptScrapeKeeps ==
  ASSUME ScrapeInv, NEW r \in Requests, NEW a \in Adapters, AcceptScrape(r, a)
  PROVE  ScrapeInv'
<1> DEFINE x1 == [Idle EXCEPT !.pc = "check"]
           x == [x1 EXCEPT !.adapter = a]
<1>1. run' = [run EXCEPT ![r] = x] /\ run[r] = Idle
  BY DEF AcceptScrape
<1>2. x1 \in RunRecord /\ x1.pc = "check" /\ x1.mine = <<>> /\ x1.error = "none"
  BY IdleTyped DEF RunRecord, Places
<1> HIDE DEF x1
<1>3. x \in RunRecord /\ x.pc = "check" /\ x.mine = <<>> /\ x.error = "none" /\ x.adapter \in Adapters
  BY <1>2 DEF RunRecord
<1> HIDE DEF x
<1>4. GoodRun(x, stored)
  BY <1>3 DEF GoodRun
<1>5. ToSet(x.mine) = {} /\ run[r].pc # "publish"
  BY <1>1, <1>3, IdleTyped DEF ToSet
<1>6. Quiet
  BY DEF AcceptScrape, ScrapeInv, Quiet
<1> QED BY <1>1, <1>3, <1>4, <1>5, <1>6, LeavesKeeps

LEMMA CheckCircuitKeeps ==
  ASSUME ScrapeInv, NEW r \in Requests, CheckCircuit(r)
  PROVE  ScrapeInv'
<1>0. /\ run[r] \in RunRecord /\ run \in [Requests -> RunRecord] /\ run[r].pc = "check"
      /\ Quiet
  BY RunFacts, QuietStep DEF CheckCircuit
<1>a. run[r].adapter \in Adapters /\ run[r].mine = <<>> /\ run[r].error = "none"
  BY <1>0, RunFacts DEF GoodRun
<1>1. CASE run' = [run EXCEPT ![r] = Idle]
  BY <1>0, <1>1, IdleKeeps
<1>2. CASE run' = [run EXCEPT ![r].pc = "fetch"]
  <2> DEFINE x == [run[r] EXCEPT !.pc = "fetch"]
  <2>1. run' = [run EXCEPT ![r] = x]
    BY <1>0, <1>2
  <2>2. x \in RunRecord /\ x.pc = "fetch" /\ x.mine = <<>> /\ x.error = "none" /\ x.adapter \in Adapters
    BY <1>0, <1>a DEF RunRecord, Places
  <2> HIDE DEF x
  <2>3. GoodRun(x, stored) /\ ToSet(x.mine) = {}
    BY <2>2 DEF GoodRun, ToSet
  <2> QED BY <1>0, <1>a, <2>1, <2>2, <2>3, LeavesKeeps
<1> QED BY <1>1, <1>2 DEF CheckCircuit

LEMMA FetchKeeps ==
  ASSUME ScrapeInv, NEW r \in Requests, Fetch(r)
  PROVE  ScrapeInv'
<1>0. /\ run[r] \in RunRecord /\ run \in [Requests -> RunRecord] /\ run[r].pc = "fetch"
      /\ Quiet
  BY RunFacts, QuietStep DEF Fetch
<1>a. run[r].adapter \in Adapters /\ run[r].mine = <<>> /\ run[r].error = "none"
  BY <1>0, RunFacts DEF GoodRun
<1>1. PICK S \in SUBSET FeedOf[run[r].adapter] : \E b \in SetToSeqs(S) :
        run' = [run EXCEPT ![r].pc = IF b = <<>> THEN "record" ELSE "insert",
                           ![r].batch = b, ![r].todo = b]
  BY DEF Fetch
<1>2. PICK b \in SetToSeqs(S) :
        run' = [run EXCEPT ![r].pc = IF b = <<>> THEN "record" ELSE "insert",
                           ![r].batch = b, ![r].todo = b]
  BY <1>1
<1>3. b \in Seq(Records)
  BY <1>a, BatchTyped
<1> DEFINE p == IF b = <<>> THEN "record" ELSE "insert"
           x1 == [run[r] EXCEPT !.pc = p]
           x2 == [x1 EXCEPT !.batch = b]
           x == [x2 EXCEPT !.todo = b]
<1>4. run' = [run EXCEPT ![r] = x]
  BY <1>0, <1>2
<1>5. p \in {"record", "insert"} /\ (p = "record" => b = <<>>)
  OBVIOUS
<1> HIDE DEF p
<1>6. x1 \in RunRecord /\ x1.pc = p /\ x1.mine = <<>> /\ x1.error = "none" /\ x1.adapter \in Adapters
  BY <1>0, <1>a, <1>5 DEF RunRecord, Places
<1> HIDE DEF x1
<1>7. /\ x2 \in RunRecord /\ x2.pc = p /\ x2.mine = <<>> /\ x2.error = "none" /\ x2.adapter \in Adapters
      /\ x2.batch = b
  BY <1>3, <1>6 DEF RunRecord
<1> HIDE DEF x2
<1>8. /\ x \in RunRecord /\ x.pc = p /\ x.mine = <<>> /\ x.error = "none" /\ x.adapter \in Adapters
      /\ x.batch = b /\ x.todo = b
  BY <1>3, <1>7 DEF RunRecord
<1> HIDE DEF x
<1>9. ToSet(x.mine) = {} /\ (p = "record" => ToSet(x.batch) = {})
  BY <1>5, <1>8 DEF ToSet
<1>10. GoodRun(x, stored)
  BY <1>5, <1>8, <1>9 DEF GoodRun
<1> QED BY <1>0, <1>a, <1>4, <1>8, <1>9, <1>10, LeavesKeeps

LEMMA FetchFailsKeeps ==
  ASSUME ScrapeInv, NEW r \in Requests, FetchFails(r)
  PROVE  ScrapeInv'
BY QuietStep, AbortKeeps DEF FetchFails, Quiet, Errors

LEMMA RowConflictsKeeps ==
  ASSUME ScrapeInv, NEW r \in Requests, RowConflicts(r)
  PROVE  ScrapeInv'
BY QuietStep, AbortKeeps DEF RowConflicts, ConflictingRow, Inserting, Quiet, Errors

LEMMA DeadlockVictimKeeps ==
  ASSUME ScrapeInv, NEW r \in Requests, DeadlockVictim(r)
  PROVE  ScrapeInv'
<1>1. Inserting(r)
  BY DEF DeadlockVictim, WaitsFor
<1> QED BY <1>1, QuietStep, AbortKeeps DEF DeadlockVictim, Inserting, Quiet, Errors

LEMMA InsertFailsKeeps ==
  ASSUME ScrapeInv, NEW r \in Requests, InsertFails(r)
  PROVE  ScrapeInv'
<1>1. faults' \in Nat /\ faults' >= faults /\ faults' > 0
  BY DEF InsertFails, Fault, ScrapeInv
<1> QED BY <1>1, AbortKeeps DEF InsertFails, Errors

LEMMA SkipRowKeeps ==
  ASSUME ScrapeInv, NEW r \in Requests, SkipRow(r)
  PROVE  ScrapeInv'
<1>0. /\ run[r] \in RunRecord /\ run \in [Requests -> RunRecord] /\ run[r].pc = "insert"
      /\ run[r].todo # <<>> /\ run[r].todo \in Seq(Records) /\ Quiet
      /\ SameHash(Head(run[r].todo), stored \cup ToSet(run[r].mine))
  BY RunFacts, QuietStep DEF SkipRow, Inserting, Row, Visible, RunRecord
<1>1. /\ Tail(run[r].todo) \in Seq(Records)
      /\ ToSet(run[r].todo) = {Head(run[r].todo)} \cup ToSet(Tail(run[r].todo))
  BY <1>0, Contents
<1> DEFINE x == [run[r] EXCEPT !.todo = Tail(run[r].todo)]
<1>2. run' = [run EXCEPT ![r] = x]
  BY DEF SkipRow, Advance
<1>3. /\ x \in RunRecord /\ x.pc = "insert" /\ x.todo = Tail(run[r].todo) /\ x.mine = run[r].mine
      /\ x.batch = run[r].batch /\ x.error = run[r].error /\ x.adapter = run[r].adapter
  BY <1>0, <1>1 DEF RunRecord
<1> HIDE DEF x
<1>4. GoodRun(x, stored)
  BY <1>0, <1>1, <1>3, RunFacts DEF GoodRun
<1> QED BY <1>0, <1>2, <1>3, <1>4, LeavesKeeps

\* No other transaction holds a key of the row a request may add.
LEMMA NoHolder ==
  ASSUME NEW r \in Requests, Inserting(r), WaitsFor(r) = {}, ~SameHash(Row(r), Visible(r)),
         NEW q \in Requests \ {r}
  PROVE  /\ ~SameHash(Row(r), ToSet(run[q].mine) \ stored)
         /\ ~SameSource(Row(r), ToSet(run[q].mine) \ stored)
<1>1. {p \in Requests \ {r} : SameHash(Row(r), ToSet(run[p].mine) \ stored)} = {}
  BY DEF WaitsFor
<1>2. {p \in Requests \ {r} : SameSource(Row(r), ToSet(run[p].mine) \ stored)} = {}
  BY <1>1 DEF WaitsFor
<1> QED BY <1>1, <1>2

LEMMA AddRowKeeps ==
  ASSUME ScrapeInv, NEW r \in Requests, AddRow(r)
  PROVE  ScrapeInv'
<1>0. /\ run[r] \in RunRecord /\ run \in [Requests -> RunRecord] /\ run[r].pc = "insert"
      /\ run[r].todo # <<>> /\ run[r].todo \in Seq(Records) /\ run[r].mine \in Seq(Records) /\ Quiet
  BY RunFacts, QuietStep DEF AddRow, Inserting, RunRecord
<1> DEFINE e == Head(run[r].todo)
<1>1. /\ Tail(run[r].todo) \in Seq(Records) /\ e \in Records
      /\ ToSet(run[r].todo) = {e} \cup ToSet(Tail(run[r].todo))
      /\ Append(run[r].mine, e) \in Seq(Records)
      /\ ToSet(Append(run[r].mine, e)) = ToSet(run[r].mine) \cup {e}
  BY <1>0, Contents
<1> DEFINE x1 == [run[r] EXCEPT !.todo = Tail(run[r].todo)]
           x == [x1 EXCEPT !.mine = Append(run[r].mine, e)]
<1>2. run' = [run EXCEPT ![r] = x]
  BY DEF AddRow, Advance, Row
<1>3. /\ x1 \in RunRecord /\ x1.pc = "insert" /\ x1.todo = Tail(run[r].todo) /\ x1.mine = run[r].mine
      /\ x1.batch = run[r].batch /\ x1.error = run[r].error /\ x1.adapter = run[r].adapter
  BY <1>0, <1>1 DEF RunRecord
<1> HIDE DEF x1
<1>4. /\ x \in RunRecord /\ x.pc = "insert" /\ x.todo = Tail(run[r].todo)
      /\ x.mine = Append(run[r].mine, e)
      /\ x.batch = run[r].batch /\ x.error = run[r].error /\ x.adapter = run[r].adapter
  BY <1>0, <1>1, <1>3 DEF RunRecord
<1> HIDE DEF x
<1>5. GoodRun(x, stored')
  <2>1. ASSUME NEW y \in ToSet(x.batch)
        PROVE  y \in ToSet(x.todo) \/ SameHash(y, stored \cup ToSet(x.mine))
    <3>1. y \in ToSet(run[r].todo) \/ SameHash(y, stored \cup ToSet(run[r].mine))
      BY <1>0, <1>4, <2>1, RunFacts DEF GoodRun
    <3> QED BY <1>1, <1>4, <3>1 DEF SameHash
  <2> QED BY <1>0, <1>4, <2>1, RunFacts DEF GoodRun, Quiet
<1>6. Leads(r, x)
  BY <1>0, <1>2 DEF Leads, Quiet
<1>7. ASSUME NEW z \in stored \cup Pending
      PROVE  HashOf[z] # HashOf[e] /\ SourceOf[z] # SourceOf[e]
  <2>1. CASE z \in stored \cup ToSet(run[r].mine)
    BY <2>1 DEF AddRow, Row, Visible, SameHash, SameSource
  <2>2. CASE z \notin stored \cup ToSet(run[r].mine)
    <3>1. PICK q \in Requests \ {r} : z \in ToSet(run[q].mine) \ stored
      BY <1>7, <2>2 DEF Pending
    <3>2. ~SameHash(e, ToSet(run[q].mine) \ stored) /\ ~SameSource(e, ToSet(run[q].mine) \ stored)
      BY <3>1, NoHolder DEF AddRow, Row
    <3> QED BY <3>1, <3>2 DEF SameHash, SameSource
  <2> QED BY <2>1, <2>2
<1>8. Pending' \subseteq Pending \cup {e}
  <2>1. ToSet(run[r].mine) \subseteq Pending
    BY DEF Pending
  <2> QED BY <1>1, <1>4, <1>6, <2>1, PendingAfter
<1>9. Unique(stored \cup Pending) /\ stored' = stored
  BY <1>0, <1>6, PendingAfter DEF Quiet
<1> HIDE DEF e
<1>10. Unique(stored' \cup Pending')
  BY <1>7, <1>8, <1>9 DEF Unique
<1>11. KeysStayUnique' /\ stored' \subseteq Records
  BY <1>6, <1>9, <1>10, PendingAfter DEF ScrapeInv
<1> QED BY <1>4, <1>5, <1>6, <1>11, LeadsKeeps

LEMMA CommitKeeps ==
  ASSUME ScrapeInv, NEW r \in Requests, Commit(r)
  PROVE  ScrapeInv'
<1>0. /\ run[r] \in RunRecord /\ run \in [Requests -> RunRecord] /\ run[r].pc = "insert"
      /\ run[r].todo = <<>> /\ run[r].mine \in Seq(Records)
  BY RunFacts DEF Commit, RunRecord
<1>1. /\ stored' = stored \cup ToSet(run[r].mine)
      /\ offered' = offered /\ faults' = faults /\ crashes' = crashes /\ faults \in Nat
  BY DEF Commit, ScrapeInv
<1> DEFINE p == IF run[r].mine = <<>> THEN "record" ELSE "publish"
           x == [run[r] EXCEPT !.pc = p]
<1>2. run' = [run EXCEPT ![r] = x]
  BY <1>0 DEF Commit
<1>3. p \in {"record", "publish"} /\ (p = "record" <=> run[r].mine = <<>>)
  OBVIOUS
<1> HIDE DEF p
<1>4. /\ x \in RunRecord /\ x.pc = p /\ x.mine = run[r].mine
      /\ x.batch = run[r].batch /\ x.error = run[r].error /\ x.adapter = run[r].adapter
  BY <1>0, <1>3 DEF RunRecord, Places
<1> HIDE DEF x
<1>5. ToSet(run[r].todo) = {} /\ (p = "record" => ToSet(run[r].mine) = {})
  BY <1>0, <1>3 DEF ToSet
<1>6. ASSUME NEW y \in ToSet(x.batch) PROVE SameHash(y, stored')
  BY <1>0, <1>1, <1>4, <1>5, <1>6, RunFacts DEF GoodRun
<1>7. GoodRun(x, stored')
  BY <1>0, <1>1, <1>3, <1>4, <1>6, RunFacts DEF GoodRun
<1>8. Leads(r, x)
  BY <1>0, <1>1, <1>2, <1>3, <1>4, <1>5 DEF Leads
<1>9. stored' \cup ToSet(x.mine) \subseteq stored \cup ToSet(run[r].mine)
  BY <1>1, <1>4
<1> QED BY <1>4, <1>7, <1>8, <1>9, NoRowKeeps

LEMMA PublishKeeps ==
  ASSUME ScrapeInv, NEW r \in Requests, Publish(r)
  PROVE  ScrapeInv'
<1>0. run[r] \in RunRecord /\ run \in [Requests -> RunRecord] /\ run[r].pc = "publish"
  BY RunFacts DEF Publish
<1>1. /\ offered' = offered \cup ToSet(run[r].mine)
      /\ stored' = stored /\ faults' = faults /\ crashes' = crashes /\ faults \in Nat
  BY DEF Publish, ScrapeInv
<1>e. <<>> \in Seq(Records)
  OBVIOUS
<1> DEFINE x1 == [run[r] EXCEPT !.pc = "record"]
           x == [x1 EXCEPT !.mine = <<>>]
<1>2. run' = [run EXCEPT ![r] = x]
  BY <1>0 DEF Publish
<1>3. /\ x1 \in RunRecord /\ x1.pc = "record"
      /\ x1.batch = run[r].batch /\ x1.error = run[r].error /\ x1.adapter = run[r].adapter
  BY <1>0 DEF RunRecord, Places
<1> HIDE DEF x1
<1>4. /\ x \in RunRecord /\ x.pc = "record" /\ x.mine = <<>>
      /\ x.batch = run[r].batch /\ x.error = run[r].error /\ x.adapter = run[r].adapter
  BY <1>3, <1>e DEF RunRecord
<1> HIDE DEF x
<1>5. GoodRun(x, stored') /\ ToSet(x.mine) = {}
  BY <1>0, <1>1, <1>4, RunFacts DEF GoodRun, ToSet
<1>6. Leads(r, x)
  BY <1>1, <1>2 DEF Leads
<1> QED BY <1>1, <1>4, <1>5, <1>6, NoRowKeeps

LEMMA RecordRunKeeps ==
  ASSUME ScrapeInv, NEW r \in Requests, RecordRun(r)
  PROVE  ScrapeInv'
BY QuietStep, IdleKeeps DEF RecordRun

LEMMA LogFailsKeeps ==
  ASSUME ScrapeInv, NEW r \in Requests, LogFails(r)
  PROVE  ScrapeInv'
<1>1. Quiet
  BY DEF LogFails, Fault, Quiet, ScrapeInv
<1> QED BY <1>1, IdleKeeps DEF LogFails

LEMMA CrashKeeps == ASSUME ScrapeInv, Crash PROVE ScrapeInv'
<1>1. /\ \A r \in Requests : run'[r] = Idle
      /\ run' \in [Requests -> RunRecord] /\ stored' = stored /\ faults' = faults
      /\ crashes' \in Nat /\ crashes' > 0
  BY IdleTyped DEF Crash, ScrapeInv
<1>2. \A r \in Requests : ToSet(run'[r].mine) = {}
  BY <1>1, IdleGood
<1>3. (\A r \in Requests : GoodRun(run[r], stored))'
  <2>1. ASSUME NEW r \in Requests PROVE GoodRun(run'[r], stored')
    BY <1>1, IdleGood
  <2> QED BY <2>1 DEF GoodRun, SameHash, ToSet
<1>4. KeysStayUnique'
  <2>1. UNION {ToSet(run'[r].mine) : r \in Requests} = {}
    BY <1>2
  <2>2. Unique(stored)
    BY DEF ScrapeInv, KeysStayUnique, Unique
  <2>3. Unique(stored' \cup UNION {ToSet(run'[r].mine) : r \in Requests})
    BY <1>1, <2>1, <2>2
  <2> QED BY <2>3 DEF KeysStayUnique, Unique, ToSet
<1>5. EveryRowOffered'
  BY <1>1 DEF EveryRowOffered
<1> QED BY <1>1, <1>3, <1>4, <1>5 DEF ScrapeInv

LEMMA StutterKeeps ==
  ASSUME ScrapeInv, UNCHANGED <<stored, run, offered, faults, crashes>>
  PROVE  ScrapeInv'
BY DEF ScrapeInv, GoodRun, SameHash, KeysStayUnique, EveryRowOffered, ToSet

-----------------------------------------------------------------------------
LEMMA ScrapeInvInit == ASSUME Init PROVE ScrapeInv
<1>1. run \in [Requests -> RunRecord] /\ \A r \in Requests : run[r] = Idle
  BY IdleTyped DEF Init
<1>2. \A r \in Requests : GoodRun(run[r], stored) /\ ToSet(run[r].mine) = {}
  BY <1>1, IdleGood
<1>3. KeysStayUnique /\ EveryRowOffered
  BY <1>2 DEF Init, KeysStayUnique, EveryRowOffered
<1> QED BY <1>1, <1>2, <1>3 DEF Init, ScrapeInv

LEMMA ScrapeInvNext == ASSUME ScrapeInv, [Next]_vars PROVE ScrapeInv'
<1>1. ASSUME NEW r \in Requests, Work(r) PROVE ScrapeInv'
  BY <1>1, CheckCircuitKeeps, FetchKeeps, FetchFailsKeeps, SkipRowKeeps, AddRowKeeps,
     RowConflictsKeeps, DeadlockVictimKeeps, CommitKeeps, PublishKeeps, RecordRunKeeps DEF Work
<1>2. ASSUME NEW a \in Adapters, CooldownPasses(a) PROVE ScrapeInv'
  BY <1>2, StutterKeeps DEF CooldownPasses
<1>3. CASE UNCHANGED vars
  BY <1>3, StutterKeeps DEF vars
<1> QED BY <1>1, <1>2, <1>3, AcceptScrapeKeeps, InsertFailsKeeps, LogFailsKeeps, CrashKeeps DEF Next

LEMMA ScrapeInvHolds == Spec => []ScrapeInv
<1> QED BY ScrapeInvInit, ScrapeInvNext, PTL DEF Spec

\* No interleaving of transactions, failures and ends of the process leaves two
\* rows with one hash or one source key (the unique constraints and their waits).
THEOREM KeysCorrect == Spec => []KeysStayUnique
<1>1. ScrapeInv => KeysStayUnique
  BY DEF ScrapeInv
<1> QED BY <1>1, ScrapeInvHolds, PTL

\* A run recorded as a success has all of its batch in the table, whatever the
\* transactions it waited for did (insert_leads).
THEOREM SuccessCorrect == Spec => []SuccessMeansStored
<1>1. ScrapeInv => SuccessMeansStored
  BY DEF ScrapeInv, GoodRun, SuccessMeansStored
<1> QED BY <1>1, ScrapeInvHolds, PTL

\* A committed row is published by the run that inserted it, unless Postgres
\* failed or the process ended.
THEOREM OfferedCorrect == Spec => []EveryRowOffered
<1>1. ScrapeInv => EveryRowOffered
  BY DEF ScrapeInv
<1> QED BY <1>1, ScrapeInvHolds, PTL

-----------------------------------------------------------------------------
(* The run log keeps its type whatever leaves it.                          *)

\* Every set of numbers has a least.
LEMMA LeastNat ==
  ASSUME NEW S \in SUBSET Nat, S # {}
  PROVE  \E m \in S : \A n \in S : m <= n
<1>1. PICK m \in S : \A n \in S : <<n, m>> \notin OpToRel(<, Nat)
  BY NatLessThanWellFounded, WFMin
<1>2. \A n \in S : ~(n < m)
  BY <1>1 DEF OpToRel
<1> QED BY <1>2

\* Among numbers up to len, one has the rank n.
LEMMA Rank ==
  ASSUME NEW len \in Nat, NEW K \in SUBSET (1..len), NEW n \in 1..Cardinality(K)
  PROVE  \E i \in K : Cardinality({j \in K : j <= i}) = n
<1> DEFINE Upto(i) == {j \in K : j <= i}
<1>1. IsFiniteSet(K)
  <2>1. IsFiniteSet(1..len)
    BY FS_Interval
  <2> QED BY <2>1, FS_Subset
<1>2. ASSUME NEW i \in Int PROVE Cardinality(Upto(i)) \in Nat /\ IsFiniteSet(Upto(i))
  <2>1. Upto(i) \subseteq K
    OBVIOUS
  <2> HIDE DEF Upto
  <2> QED BY <1>1, <2>1, FS_Subset, FS_CardinalityType
<1>k. \A j \in K : j \in Int /\ 1 <= j /\ j <= len
  OBVIOUS
<1>3. Upto(len) = K /\ Upto(0) = {}
  <2>1. \A j \in K : j \in Upto(len)
    BY <1>k
  <2>2. \A j \in K : ~(j <= 0)
    BY <1>k
  <2> QED BY <2>1, <2>2
<1>4. ASSUME NEW i \in 1..len
      PROVE  /\ Upto(i) = Upto(i - 1) \/ (i \in K /\ Upto(i) = Upto(i - 1) \cup {i})
             /\ i \notin Upto(i - 1)
  <2>1. \A j \in K : (j <= i) <=> (j <= i - 1 \/ j = i)
    BY <1>k
  <2>2. i \notin Upto(i - 1)
    OBVIOUS
  <2>3. CASE i \in K
    <3>1. \A j : j \in Upto(i) <=> j \in Upto(i - 1) \/ j = i
      BY <2>1, <2>3
    <3> QED BY <2>2, <2>3, <3>1
  <2>4. CASE i \notin K
    <3>1. \A j : j \in Upto(i) <=> j \in Upto(i - 1)
      BY <2>1, <2>4
    <3>2. Upto(i) = Upto(i - 1)
      BY <3>1
    <3> HIDE DEF Upto
    <3> QED BY <2>2, <3>2
  <2> QED BY <2>3, <2>4
<1> HIDE DEF Upto
<1>5. Cardinality(K) \in Nat /\ Cardinality(Upto(0)) = 0
  BY <1>1, <1>3, FS_CardinalityType, FS_EmptySet
<1> DEFINE C == {i \in 0..len : Cardinality(Upto(i)) >= n}
<1>6. len \in C /\ C \subseteq Nat
  BY <1>3, <1>5
<1>7. PICK i \in C : \A m \in C : i <= m
  <2> HIDE DEF C
  <2> QED BY <1>6, LeastNat
<1>8. i \in 0..len /\ Cardinality(Upto(i)) >= n
  BY <1>7
<1>9. i # 0
  BY <1>5, <1>8
<1>10. i \in 1..len /\ i - 1 \in 0..len
  BY <1>8, <1>9
<1>11. ~(Cardinality(Upto(i - 1)) >= n)
  <2>1. i - 1 \notin C
    BY <1>7, <1>10
  <2> QED BY <1>10, <2>1
<1> HIDE DEF C
<1>12. i \in K /\ Upto(i) = Upto(i - 1) \cup {i} /\ i \notin Upto(i - 1)
  BY <1>4, <1>8, <1>10, <1>11
<1>13. /\ IsFiniteSet(Upto(i - 1)) /\ Cardinality(Upto(i - 1)) \in Nat
  BY <1>2, <1>10
<1>14. Cardinality(Upto(i)) = Cardinality(Upto(i - 1)) + 1
  BY <1>12, <1>13, FS_AddElement
<1>15. Cardinality(Upto(i)) = n
  BY <1>8, <1>11, <1>13, <1>14
<1> QED BY <1>12, <1>15 DEF Upto

\* What is left of a log is a log.
LEMMA OnlyTyped ==
  ASSUME NEW E, NEW s \in Seq(E), NEW K \in SUBSET DOMAIN s
  PROVE  Only(s, K) \in Seq(E)
<1>1. Len(s) \in Nat /\ DOMAIN s = 1..Len(s)
  BY LenProperties
<1>2. IsFiniteSet(1..Len(s))
  BY <1>1, FS_Interval
<1>3. Cardinality(K) \in Nat
  BY <1>1, <1>2, FS_Subset, FS_CardinalityType
<1>4. ASSUME NEW n \in 1..Cardinality(K)
      PROVE  s[CHOOSE i \in K : Cardinality({j \in K : j <= i}) = n] \in E
  <2> DEFINE P(i) == Cardinality({j \in K : j <= i}) = n
  <2>1. \E i \in K : P(i)
    BY <1>1, Rank
  <2> HIDE DEF P
  <2>2. (CHOOSE i \in K : P(i)) \in K
    BY <2>1
  <2>3. \A i \in K : s[i] \in E
    BY <1>1
  <2> QED BY <2>2, <2>3 DEF P
<1>5. Only(s, K) \in [1..Cardinality(K) -> E]
  BY <1>4 DEF Only
<1> HIDE DEF Only
<1> QED BY <1>3, <1>5

Entries == [by : Requests \cup {"past"}, status : {"running", "success", "error"}]
LogTyped == runLog \in [Adapters -> Seq(Entries)]

LogInv ==
  /\ LogTyped /\ offered \subseteq Records
  /\ faults \in 0..MaxFaults /\ crashes \in 0..MaxCrashes

LEMMA TakePlaceTyped ==
  ASSUME LogTyped, NEW r \in Requests, NEW a \in Adapters, runLog' = TakePlace(a, r)
  PROVE  LogTyped'
<1>1. Entry(r, "running") \in Entries
  BY DEF Entry, Entries
<1>2. \A s \in Seq(Entries) : <<Entry(r, "running")>> \o s \in Seq(Entries)
  <2> HIDE DEF Entries
  <2>1. <<Entry(r, "running")>> \in Seq(Entries)
    BY <1>1
  <2> QED BY <2>1, ConcatProperties
<1> QED BY <1>2 DEF TakePlace, LogTyped

LEMMA SettleTyped ==
  ASSUME LogTyped, NEW r \in Requests, NEW a \in Adapters, NEW st \in {"success", "error"},
         runLog' = Settle(a, r, st)
  PROVE  LogTyped'
<1>1. Entry("past", st) \in Entries
  BY DEF Entry, Entries
<1>2. ASSUME NEW s \in Seq(Entries)
      PROVE  [i \in DOMAIN s |-> IF s[i] = Entry(r, "running") THEN Entry("past", st) ELSE s[i]]
               \in Seq(Entries)
  <2> HIDE DEF Entries
  <2>1. DOMAIN s = 1..Len(s) /\ Len(s) \in Nat
    BY LenProperties
  <2>2. \A i \in DOMAIN s : s[i] \in Entries
    BY <2>1
  <2>3. [i \in DOMAIN s |-> IF s[i] = Entry(r, "running") THEN Entry("past", st) ELSE s[i]]
           \in [1..Len(s) -> Entries]
    BY <1>1, <2>1, <2>2
  <2> QED BY <2>1, <2>3
<1> QED BY <1>2 DEF Settle, LogTyped

LEMMA LosePlacesTyped ==
  ASSUME LogTyped, NEW R, runLog' = LosePlaces(R)
  PROVE  LogTyped'
<1>1. ASSUME NEW a \in Adapters
      PROVE  Only(runLog[a], DOMAIN runLog[a] \ Unrecorded(a, R)) \in Seq(Entries)
  BY OnlyTyped DEF LogTyped
<1> QED BY <1>1 DEF LosePlaces, LogTyped

LEMMA CooldownTyped ==
  ASSUME LogTyped, NEW a \in Adapters, CooldownPasses(a)
  PROVE  LogTyped'
<1>1. ASSUME NEW s \in Seq(Entries), s # <<>> PROVE Front(s) \in Seq(Entries)
  <2>1. Len(s) \in Nat /\ Len(s) >= 1 /\ DOMAIN s = 1..Len(s)
    BY <1>1, LenProperties, EmptySeq
  <2>2. SubSeq(s, 1, Len(s) - 1) \in Seq(Entries)
    BY <2>1, SubSeqProperties
  <2> QED BY <2>2 DEF Front
<1>2. runLog[a] \in Seq(Entries) /\ runLog[a] # <<>>
  BY DEF LogTyped, CooldownPasses
<1>3. Front(runLog[a]) \in Seq(Entries)
  BY <1>1, <1>2
<1> QED BY <1>3 DEF CooldownPasses, LogTyped

-----------------------------------------------------------------------------
LEMMA LogInvInit == ASSUME Init PROVE LogInv
<1>1. <<>> \in Seq(Entries)
  OBVIOUS
<1> QED BY <1>1, BoundAssumption DEF Init, LogInv, LogTyped

LEMMA LogInvNext == ASSUME ScrapeInv, LogInv, [Next]_vars PROVE LogInv'
<1> USE DEF LogInv
<1>1. ASSUME NEW r \in Requests, NEW a \in Adapters, AcceptScrape(r, a) PROVE LogInv'
  BY <1>1, TakePlaceTyped DEF AcceptScrape
<1>2. ASSUME NEW r \in Requests, CheckCircuit(r) PROVE LogInv'
  BY <1>2, LosePlacesTyped DEF CheckCircuit, LogTyped
<1>3. ASSUME NEW r \in Requests,
             \/ Fetch(r) \/ FetchFails(r) \/ SkipRow(r) \/ AddRow(r)
             \/ RowConflicts(r) \/ DeadlockVictim(r) \/ Commit(r)
      PROVE  LogInv'
  BY <1>3 DEF Fetch, FetchFails, SkipRow, AddRow, RowConflicts, DeadlockVictim, Commit, LogTyped
<1>4. ASSUME NEW r \in Requests, Publish(r) PROVE LogInv'
  <2>1. ToSet(run[r].mine) \subseteq stored /\ stored \subseteq Records
    BY <1>4 DEF Publish, ScrapeInv, GoodRun
  <2> QED BY <1>4, <2>1 DEF Publish, LogTyped
<1>5. ASSUME NEW r \in Requests, RecordRun(r) PROVE LogInv'
  <2>1. run[r].adapter \in Adapters
    BY <1>5 DEF RecordRun, ScrapeInv, GoodRun
  <2> QED BY <1>5, <2>1, SettleTyped DEF RecordRun
<1>6. ASSUME NEW r \in Requests, InsertFails(r) PROVE LogInv'
  BY <1>6, BoundAssumption DEF InsertFails, Fault, LogTyped
<1>7. ASSUME NEW r \in Requests, LogFails(r) PROVE LogInv'
  BY <1>7, LosePlacesTyped, BoundAssumption DEF LogFails, Fault
<1>8. ASSUME NEW a \in Adapters, CooldownPasses(a) PROVE LogInv'
  BY <1>8, CooldownTyped DEF CooldownPasses
<1>9. CASE Crash
  BY <1>9, LosePlacesTyped, BoundAssumption DEF Crash
<1>10. CASE UNCHANGED vars
  BY <1>10 DEF vars, LogTyped
<1> QED BY <1>1, <1>2, <1>3, <1>4, <1>5, <1>6, <1>7, <1>8, <1>9, <1>10 DEF Next, Work

\* Rows, events, runs and the run log keep their types, whatever fails: what is
\* left of the log when unrecorded runs leave it is a log (record_run, run).
THEOREM ScrapeTypeCorrect == Spec => []TypeOK
<1>1. ScrapeInv /\ LogInv => TypeOK
  BY DEF ScrapeInv, LogInv, LogTyped, Entries, GoodRun, RunRecord, TypeOK
<1>2. Spec => []LogInv
  BY ScrapeInvHolds, LogInvInit, LogInvNext, PTL DEF Spec
<1> QED BY <1>1, <1>2, ScrapeInvHolds, PTL
=============================================================================
