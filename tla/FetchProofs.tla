----------------------------- MODULE FetchProofs -----------------------------
(***************************************************************************)
(* Theorems about SourceFetch, for any set of callers, any retry limit,    *)
(* budget, calendar and length of pages and threads.                       *)
(*                                                                         *)
(* FetchInv is the type invariant with what a request knows of its tries:  *)
(* it sleeps only while tries are left, and no longer than a minute for    *)
(* each that failed.  The other invariants are inductive with it.          *)
(***************************************************************************)
EXTENDS SourceFetch, SequenceTheorems, FiniteSetTheorems, TLAPS

-----------------------------------------------------------------------------
(* One request.                                                            *)

GoodCall(x) ==
  /\ x.pc = "idle" => x = NoCall
  /\ x.pc = "sent" => x.attempt >= 1 /\ x.slept <= MaxWait * (x.attempt - 1)
  /\ x.pc = "asleep" => /\ x.attempt >= 1 /\ x.attempt < MaxRetries
                        /\ x.slept <= MaxWait * x.attempt
  /\ x.pc = "done" => x.slept = 0

CallInv == call \in [Callers -> Calls] /\ \A c \in Callers : GoodCall(call[c])

\* A step of the request of c and of nobody else's, which leaves it at one of P.
CallMoves(c, P) ==
  /\ CallInv'
  /\ \A d \in Callers \ {c} : call'[d] = call[d]
  /\ call'[c].pc \in P

\* Replacing the request of one caller by a good one.
LEMMA CallUpdate ==
  ASSUME CallInv, NEW c \in Callers, NEW x \in Calls, GoodCall(x), NEW P, x.pc \in P,
         call' = [call EXCEPT ![c] = x]
  PROVE  CallMoves(c, P)
<1>1. call' \in [Callers -> Calls] /\ call'[c] = x /\ \A d \in Callers \ {c} : call'[d] = call[d]
  BY DEF CallInv
<1>2. \A d \in Callers : GoodCall(call'[d])
  BY <1>1 DEF CallInv
<1>3. (\A d \in Callers : GoodCall(call[d]))'
  BY <1>2 DEF GoodCall
<1> QED BY <1>1, <1>3 DEF CallMoves, CallInv

\* No request is under way.
LEMMA NoCallGood == NoCall \in Calls /\ GoodCall(NoCall)
BY RetryAssumption DEF NoCall, Calls, GoodCall, Outcomes

\* A request begins sent, or has failed for want of tries.
LEMMA BeginCallMoves ==
  ASSUME CallInv, NEW c \in Callers, BeginCall(c)
  PROVE  CallMoves(c, {"sent", "done"})
<1>1. CASE MaxRetries = 0
  <2> DEFINE x == [NoCall EXCEPT !.pc = "done", !.outcome = "transient"]
  <2>0. x.pc = "done" /\ x.slept = 0
    BY DEF NoCall
  <2>1. x \in Calls /\ GoodCall(x) /\ x.pc = "done"
    <3> DEFINE y == [NoCall EXCEPT !.pc = "done"]
    <3>1. y \in Calls
      BY NoCallGood DEF Calls
    <3>2. x = [y EXCEPT !.outcome = "transient"]
      OBVIOUS
    <3> HIDE DEF x, y
    <3>3. x \in Calls
      BY <3>1, <3>2 DEF Calls, Outcomes, Typed
    <3>4. GoodCall(x)
      BY <2>0 DEF GoodCall
    <3> QED BY <2>0, <3>3, <3>4
  <2> HIDE DEF x
  <2>2. call' = [call EXCEPT ![c] = x]
    BY <1>1 DEF BeginCall, x
  <2>3. x.pc \in {"sent", "done"}
    BY <2>1
  <2> QED BY <2>1, <2>2, <2>3, CallUpdate
<1>2. CASE MaxRetries # 0
  <2> DEFINE x == [NoCall EXCEPT !.pc = "sent", !.attempt = 1]
  <2>0. x.pc = "sent" /\ x.attempt = 1 /\ x.slept = 0
    BY DEF NoCall
  <2>1. x \in Calls /\ GoodCall(x) /\ x.pc = "sent"
    <3> DEFINE y == [NoCall EXCEPT !.pc = "sent"]
    <3>1. y \in Calls
      BY NoCallGood DEF Calls
    <3>2. x = [y EXCEPT !.attempt = 1]
      OBVIOUS
    <3> HIDE DEF x, y
    <3>3. x \in Calls
      BY <1>2, <3>1, <3>2, RetryAssumption DEF Calls
    <3>4. GoodCall(x)
      BY <2>0 DEF GoodCall, MaxWait
    <3> QED BY <2>0, <3>3, <3>4
  <2> HIDE DEF x
  <2>2. call' = [call EXCEPT ![c] = x]
    BY <1>2 DEF BeginCall, x
  <2>3. x.pc \in {"sent", "done"}
    BY <2>1
  <2> QED BY <2>1, <2>2, <2>3, CallUpdate
<1> QED BY <1>1, <1>2

\* An answer that is taken leaves no request.
LEMMA EndCallMoves ==
  ASSUME CallInv, NEW c \in Callers, EndCall(c)
  PROVE  CallMoves(c, {"idle"})
BY NoCallGood, CallUpdate DEF EndCall, NoCall

\* A request that ends: it is good whatever became of it.
LEMMA FinishMoves ==
  ASSUME CallInv, NEW c \in Callers, NEW o \in Outcomes, Finish(c, o)
  PROVE  CallMoves(c, {"sent", "asleep", "done"})
<1> DEFINE x == [call[c] EXCEPT !.pc = "done", !.slept = 0, !.outcome = o]
<1>1. x \in Calls /\ GoodCall(x) /\ x.pc = "done"
  BY DEF CallInv, Calls, GoodCall
<1>2. call' = [call EXCEPT ![c] = x]
  BY DEF Finish, CallInv, Calls
<1> HIDE DEF x
<1>3. x.pc \in {"sent", "asleep", "done"}
  BY <1>1
<1> QED BY <1>1, <1>2, <1>3, CallUpdate

\* A sleep after a failed try is good while tries are left.
LEMMA SleepMoves ==
  ASSUME CallInv, NEW c \in Callers, NEW w \in 0..MaxWait, Sleep(c, w),
         call[c].pc = "sent", call[c].attempt < MaxRetries
  PROVE  CallMoves(c, {"sent", "asleep", "done"})
<1> DEFINE x == [call[c] EXCEPT !.pc = "asleep", !.slept = @ + w]
<1>0. /\ call[c] \in Calls
      /\ call[c].attempt >= 1 /\ call[c].slept <= MaxWait * (call[c].attempt - 1)
  BY DEF CallInv, GoodCall
<1>1. x \in Calls /\ GoodCall(x) /\ x.pc = "asleep"
  <2>1. /\ x.pc = "asleep" /\ x.attempt = call[c].attempt
        /\ x.slept = call[c].slept + w /\ x.outcome = call[c].outcome
    BY <1>0 DEF Calls
  <2>2. x \in Calls
    <3> DEFINE y == [call[c] EXCEPT !.pc = "asleep"]
    <3>1. y \in Calls /\ y.slept = call[c].slept
      BY <1>0 DEF Calls
    <3>2. x = [y EXCEPT !.slept = call[c].slept + w]
      OBVIOUS
    <3> HIDE DEF x, y
    <3> QED BY <3>1, <3>2 DEF Calls, MaxWait
  <2> HIDE DEF x
  <2>3. x.slept <= MaxWait * x.attempt
    BY <1>0, <2>1 DEF Calls, MaxWait
  <2>4. GoodCall(x)
    BY <1>0, <2>1, <2>3 DEF GoodCall
  <2> QED BY <2>1, <2>2, <2>4
<1>2. call' = [call EXCEPT ![c] = x]
  BY DEF Sleep, CallInv, Calls
<1> HIDE DEF x
<1> QED BY <1>1, <1>2, CallUpdate

\* So is a sleep of the table.
LEMMA BackoffMoves ==
  ASSUME CallInv, NEW c \in Callers, Backoff(c), call[c].pc = "sent", ~LastTry(c)
  PROVE  CallMoves(c, {"sent", "asleep", "done"})
<1>0. call[c] \in Calls /\ call[c].attempt >= 1 /\ call[c].attempt < MaxRetries
  BY RetryAssumption DEF CallInv, Calls, GoodCall, LastTry
<1>1. CASE call[c].attempt <= Len(wait_times)
  <2>1. wait_times[call[c].attempt] \in 0..MaxWait
    BY <1>0, <1>1 DEF wait_times, MaxWait, Calls
  <2> QED BY <1>0, <1>1, <2>1, SleepMoves DEF Backoff
<1>2. CASE ~(call[c].attempt <= Len(wait_times))
  BY <1>2, FinishMoves DEF Backoff, Outcomes
<1> QED BY <1>1, <1>2

\* A request under way is still good after the next answer or sleep.
LEMMA CallStepMoves ==
  ASSUME CallInv, NEW c \in Callers, CallStep(c)
  PROVE  call[c].pc \in {"sent", "asleep"} /\ CallMoves(c, {"sent", "asleep", "done"})
<1>0. call[c] \in Calls /\ GoodCall(call[c])
  BY DEF CallInv
<1>1. CASE Succeed(c)
  BY <1>1, FinishMoves DEF Succeed, Outcomes
<1>6. CASE Escape(c)
  BY <1>6, FinishMoves DEF Escape, Outcomes
<1>2. CASE ClientError(c)
  BY <1>2, FinishMoves DEF ClientError, Outcomes, Typed
<1>3. CASE TooManyRequests(c)
  <2>1. PICK ra \in RetryAfters :
          IF LastTry(c) THEN Finish(c, "rate_limited")
          ELSE IF ra = 0 THEN Backoff(c)
          ELSE Sleep(c, IF ra < MaxWait THEN ra ELSE MaxWait)
    BY <1>3 DEF TooManyRequests
  <2>2. call[c].pc = "sent"
    BY <1>3 DEF TooManyRequests
  <2>3. CASE LastTry(c)
    BY <2>1, <2>2, <2>3, FinishMoves DEF Outcomes, Typed
  <2>4. CASE ~LastTry(c) /\ ra = 0
    BY <2>1, <2>2, <2>4, BackoffMoves
  <2>5. CASE ~LastTry(c) /\ ra # 0
    <3>1. (IF ra < MaxWait THEN ra ELSE MaxWait) \in 0..MaxWait
      BY RetryAssumption DEF MaxWait
    <3>2. call[c].attempt < MaxRetries
      BY <1>0, <2>5, RetryAssumption DEF LastTry, Calls
    <3> QED BY <2>1, <2>2, <2>5, <3>1, <3>2, SleepMoves
  <2> QED BY <2>3, <2>4, <2>5
<1>4. CASE Unavailable(c)
  <2>1. CASE LastTry(c)
    BY <1>4, <2>1, FinishMoves DEF Unavailable, Outcomes, Typed
  <2>2. CASE ~LastTry(c)
    BY <1>4, <2>2, BackoffMoves DEF Unavailable
  <2> QED BY <1>4, <2>1, <2>2 DEF Unavailable
<1>5. CASE Wake(c)
  <2> DEFINE x == [call[c] EXCEPT !.pc = "sent", !.attempt = @ + 1]
  <2>0. /\ call[c].pc = "asleep" /\ call[c].attempt < MaxRetries
        /\ call[c].attempt >= 1 /\ call[c].slept <= MaxWait * call[c].attempt
    BY <1>0, <1>5 DEF Wake, GoodCall
  <2>1. x \in Calls /\ GoodCall(x) /\ x.pc = "sent"
    <3>1. /\ x.pc = "sent" /\ x.attempt = call[c].attempt + 1 /\ x.slept = call[c].slept
          /\ x.outcome = call[c].outcome
      BY <1>0 DEF Calls
    <3>2. x \in Calls
      <4> DEFINE y == [call[c] EXCEPT !.pc = "sent"]
      <4>1. y \in Calls /\ y.attempt = call[c].attempt
        BY <1>0 DEF Calls
      <4>2. x = [y EXCEPT !.attempt = call[c].attempt + 1]
        OBVIOUS
      <4> HIDE DEF x, y
      <4> QED BY <4>1, <4>2, <2>0, RetryAssumption DEF Calls
    <3> HIDE DEF x
    <3>3. x.slept <= MaxWait * (x.attempt - 1) /\ x.attempt >= 1
      BY <1>0, <2>0, <3>1 DEF Calls, MaxWait
    <3>4. GoodCall(x)
      BY <3>1, <3>3 DEF GoodCall
    <3> QED BY <3>1, <3>2, <3>4
  <2>2. call' = [call EXCEPT ![c] = x]
    BY <1>5 DEF Wake, CallInv, Calls
  <2> HIDE DEF x
  <2>3. x.pc \in {"sent", "asleep", "done"}
    BY <2>1
  <2>4. CallMoves(c, {"sent", "asleep", "done"})
    BY <2>1, <2>2, <2>3, CallUpdate
  <2> QED BY <1>5, <2>4 DEF Wake
<1> QED BY <1>1, <1>2, <1>3, <1>4, <1>5, <1>6 DEF CallStep

\* What a step of the system may do to the requests: at most one of them moves.
CallChange ==
  \/ UNCHANGED call
  \/ \E c \in Callers :
       \/ CallStep(c)
       \/ /\ call[c].pc \in {"idle", "done"}
          /\ EndCall(c) \/ BeginCall(c)

\* The requests stay good.
LEMMA CallChangeGood ==
  ASSUME CallInv, CallChange
  PROVE  CallInv'
<1>1. CASE UNCHANGED call
  BY <1>1 DEF CallInv, GoodCall
<1>2. ASSUME NEW c \in Callers, CallStep(c) PROVE CallInv'
  BY <1>2, CallStepMoves DEF CallMoves
<1>3. ASSUME NEW c \in Callers, EndCall(c) PROVE CallInv'
  BY <1>3, EndCallMoves DEF CallMoves
<1>4. ASSUME NEW c \in Callers, BeginCall(c) PROVE CallInv'
  BY <1>4, BeginCallMoves DEF CallMoves
<1> QED BY <1>1, <1>2, <1>3, <1>4 DEF CallChange

-----------------------------------------------------------------------------
(* One run.                                                                *)

\* What a run of any adapter but hnhiring has, n sources from its start.
Has(r, n) ==
  /\ r.got \cup r.lost = 1..n
  /\ r.adapter \notin Swallowing => r.lost = {}
  /\ r.adapter \in OneShot => r.plan = 1

GoodRun(r) ==
  /\ r \in Runs
  /\ r.pc = "finding" => r.adapter = "hnhiring"
  /\ r.pc # "idle" => r.adapter \in Adapters
  /\ r.pc = "fetching" => r.at >= 1
  /\ r.pc = "fetching" /\ r.adapter # "hnhiring" => r.at <= r.plan /\ Has(r, r.at - 1)

\* A run r has a request k under way exactly while it waits for one.
InStep(r, k) == k.pc = "idle" <=> r.pc \notin {"finding", "fetching"} \/ r.adapter = "wellfound"

FetchInv ==
  /\ CallInv
  /\ run \in [Callers -> Runs]
  /\ \A c \in Callers : GoodRun(run[c]) /\ InStep(run[c], call[c])
  /\ today \in Nat /\ quota \in [day : Nat, count : Nat] /\ tier \in [sent : Nat, failed : Nat]

\* A step that makes of the run of c a good run r, complete if it returns.
Makes(c, r) ==
  /\ run' = [run EXCEPT ![c] = r]
  /\ GoodRun(r) /\ InStep(r, call'[c])
  /\ \A d \in Callers \ {c} : call'[d] = call[d]
  /\ CallChange
  /\ Busy(c) => r.adapter = run[c].adapter /\ (r.pc = "returned" => Whole(r))

\* A run that returns or raises has no request any more.
LEMMA ReturnMakes ==
  ASSUME FetchInv, NEW c \in Callers, NEW r \in Runs, r.adapter \in Adapters,
         Busy(c) => r.adapter = run[c].adapter, call[c].pc \in {"idle", "done"}, Return(c, r), Whole([r EXCEPT !.pc = "returned"])
  PROVE  Makes(c, [r EXCEPT !.pc = "returned"])
<1> DEFINE y == [r EXCEPT !.pc = "returned"]
<1>1. y \in Runs /\ y.pc = "returned" /\ y.adapter = r.adapter
  BY DEF Runs
<1>2. GoodRun(y)
  BY <1>1 DEF GoodRun
<1>3. run' = [run EXCEPT ![c] = y] /\ EndCall(c) /\ Whole(y)
  BY DEF Return
<1>4. call'[c].pc = "idle" /\ \A d \in Callers \ {c} : call'[d] = call[d]
  BY <1>3 DEF EndCall, NoCall, FetchInv, CallInv
<1>5. CallChange
  BY <1>3 DEF CallChange
<1> HIDE DEF y
<1>6. InStep(y, call'[c])
  BY <1>1, <1>4 DEF InStep
<1>7. Makes(c, y)
  BY <1>1, <1>2, <1>3, <1>4, <1>5, <1>6 DEF Makes
<1> QED BY <1>7 DEF y

LEMMA RaiseMakes ==
  ASSUME FetchInv, NEW c \in Callers, call[c].pc \in {"idle", "done"}, Busy(c), Raise(c)
  PROVE  Makes(c, [run[c] EXCEPT !.pc = "raised"])
<1> DEFINE y == [run[c] EXCEPT !.pc = "raised"]
<1>0. GoodRun(run[c]) /\ run \in [Callers -> Runs]
  BY DEF FetchInv
<1>1. y \in Runs /\ y.pc = "raised" /\ y.adapter = run[c].adapter
  BY <1>0 DEF GoodRun, Runs
<1>2. GoodRun(y)
  BY <1>0, <1>1 DEF GoodRun, Busy
<1>3. run' = [run EXCEPT ![c] = y] /\ EndCall(c)
  BY DEF Raise
<1>4. call'[c].pc = "idle" /\ \A d \in Callers \ {c} : call'[d] = call[d]
  BY <1>3 DEF EndCall, NoCall, FetchInv, CallInv
<1>5. CallChange
  BY <1>3 DEF CallChange
<1> HIDE DEF y
<1>6. InStep(y, call'[c])
  BY <1>1, <1>4 DEF InStep
<1>7. Makes(c, y)
  BY <1>1, <1>2, <1>3, <1>4, <1>5, <1>6 DEF Makes
<1> QED BY <1>7 DEF y

\* A request that begins is under way.
LEMMA BegunCall ==
  ASSUME FetchInv, NEW c \in Callers, call[c].pc \in {"idle", "done"}, BeginCall(c)
  PROVE  call'[c].pc # "idle" /\ CallChange /\ \A d \in Callers \ {c} : call'[d] = call[d]
<1>1. CallMoves(c, {"sent", "done"})
  BY BeginCallMoves DEF FetchInv
<1> QED BY <1>1 DEF CallMoves, CallChange

\* The head of the loop makes the run complete or asks for the next source.
LEMMA AskMakes ==
  ASSUME FetchInv, NEW c \in Callers, NEW r \in Runs, r.pc = "fetching",
         r.adapter \in Adapters \ {"hnhiring"}, Has(r, r.at), r.at <= r.plan,
         Busy(c) => r.adapter = run[c].adapter,
         call[c].pc \in {"idle", "done"}, r.adapter = "wellfound" => call[c].pc = "idle",
         Ask(c, r)
  PROVE  \E y : Makes(c, y) /\ y.adapter = r.adapter
<1>1. CASE r.at = r.plan
  <2> DEFINE y == [r EXCEPT !.pc = "returned"]
  <2>1. y \in Runs /\ y.pc = "returned" /\ y.adapter = r.adapter
        /\ y.got = r.got /\ y.lost = r.lost /\ y.plan = r.plan
    BY DEF Runs
  <2>2. run' = [run EXCEPT ![c] = y] /\ EndCall(c)
    BY <1>1 DEF Ask, Return
  <2> HIDE DEF y
  <2>3. GoodRun(y)
    BY <2>1 DEF GoodRun
  <2>4. Whole(y)
    BY <1>1, <2>1 DEF Whole, Has
  <2>5. call'[c].pc = "idle" /\ \A d \in Callers \ {c} : call'[d] = call[d]
    BY <2>2 DEF EndCall, NoCall, FetchInv, CallInv
  <2>6. CallChange
    BY <2>2 DEF CallChange
  <2>7. InStep(y, call'[c])
    BY <2>1, <2>5 DEF InStep
  <2> QED BY <2>1, <2>2, <2>3, <2>4, <2>5, <2>6, <2>7 DEF Makes
<1>2. CASE r.at # r.plan
  <2> DEFINE y == [r EXCEPT !.at = @ + 1]
  <2>1. y \in Runs /\ y.pc = "fetching" /\ y.adapter = r.adapter /\ y.at = r.at + 1
        /\ y.got = r.got /\ y.lost = r.lost /\ y.plan = r.plan
    <3>1. r.at + 1 \in Nat
      BY DEF Runs
    <3>2. y \in Runs
      BY <3>1 DEF Runs
    <3> QED BY <3>2 DEF Runs
  <2>2. /\ run' = [run EXCEPT ![c] = y]
        /\ IF r.adapter = "wellfound" THEN UNCHANGED call ELSE BeginCall(c)
    BY <1>2 DEF Ask
  <2> HIDE DEF y
  <2>3. r.at \in Nat /\ r.plan \in Nat
    BY DEF Runs
  <2>4. Has(y, y.at - 1) /\ y.at <= y.plan /\ y.at >= 1
    BY <1>2, <2>1, <2>3 DEF Has
  <2>5. GoodRun(y)
    BY <2>1, <2>4 DEF GoodRun
  <2>6. /\ InStep(y, call'[c]) /\ CallChange
        /\ \A d \in Callers \ {c} : call'[d] = call[d]
    <3>1. CASE r.adapter = "wellfound"
      BY <2>1, <2>2, <3>1 DEF InStep, CallChange
    <3>2. CASE r.adapter # "wellfound"
      BY <2>1, <2>2, <3>2, BegunCall DEF InStep
    <3> QED BY <3>1, <3>2
  <2> QED BY <2>1, <2>2, <2>5, <2>6 DEF Makes
<1> QED BY <1>1, <1>2
\* What an adapter other than hnhiring does with an answer.
Answer(c) ==
  \/ Reddit(c) \/ LinkedIn(c) \/ Wellfound(c) \/ Funding(c) \/ RssMulti(c)
  \/ HackerNews(c) \/ RemoteOK(c) \/ ProductHunt(c) \/ GoogleCSE(c)

LEMMA AnswerCases ==
  ASSUME NEW c, Answer(c)
  PROVE  /\ run[c].pc = "fetching" /\ run[c].adapter \in Adapters \ {"hnhiring"}
         /\ run[c].adapter # "wellfound" => call[c].pc = "done"
         /\ \/ Ask(c, Got(c)) \/ Raise(c)
            \/ run[c].adapter \in Swallowing /\ Ask(c, Lost(c))
            \/ run[c].adapter \in OneShot /\ Return(c, Got(c))
            \/ run[c].adapter = "google_cse" /\ ~CanQuery(quota') /\ Return(c, Got(c))
<1> USE DEF AtWork, Answered200, Failed, Adapters, Swallowing, OneShot, Optional
<1>1. CASE Reddit(c) \/ Wellfound(c)
  BY <1>1 DEF Reddit, Wellfound
<1>2. CASE LinkedIn(c)
  <2>1. run[c].pc = "fetching" /\ run[c].adapter = "linkedin" /\ call[c].pc = "done"
    BY <1>2 DEF LinkedIn
  <2>2. Ask(c, Got(c)) \/ Ask(c, Lost(c))
    BY <1>2 DEF LinkedIn
  <2> QED BY <2>1, <2>2
<1>3. CASE Funding(c) \/ RssMulti(c) \/ HackerNews(c) \/ RemoteOK(c) \/ ProductHunt(c)
  BY <1>3 DEF Funding, RssMulti, HackerNews, RemoteOK, ProductHunt
<1>4. CASE GoogleCSE(c)
  BY <1>4 DEF GoogleCSE
<1> QED BY <1>1, <1>2, <1>3, <1>4 DEF Answer

\* The source a run is at becomes one it has or one it has given up.
LEMMA GotLost ==
  ASSUME NEW c, GoodRun(run[c]), run[c].pc = "fetching", run[c].adapter # "hnhiring"
  PROVE  /\ run[c].adapter \in Adapters /\ run[c].at \in Nat /\ run[c].plan \in Nat
         /\ run[c].at <= run[c].plan
         /\ \A r \in {Got(c), Lost(c)} :
              r \in Runs /\ r.pc = "fetching" /\ r.adapter = run[c].adapter /\ r.at = run[c].at
              /\ r.plan = run[c].plan
         /\ Has(Got(c), Got(c).at)
         /\ run[c].adapter \in Swallowing => Has(Lost(c), Lost(c).at)
<1>1. /\ run[c] \in Runs /\ run[c].adapter \in Adapters /\ run[c].at \in Nat /\ run[c].plan \in Nat
      /\ run[c].at >= 1 /\ run[c].at <= run[c].plan /\ Has(run[c], run[c].at - 1)
      /\ run[c].got \in SUBSET Nat /\ run[c].lost \in SUBSET Nat
  BY DEF GoodRun, Runs
<1>2. /\ Got(c) \in Runs /\ Got(c).pc = "fetching" /\ Got(c).adapter = run[c].adapter
      /\ Got(c).at = run[c].at /\ Got(c).plan = run[c].plan
      /\ Got(c).got = run[c].got \cup {run[c].at} /\ Got(c).lost = run[c].lost
  <2>1. run[c].got \cup {run[c].at} \in SUBSET Nat
    BY <1>1
  <2>2. Got(c) = [run[c] EXCEPT !.got = run[c].got \cup {run[c].at}]
    BY DEF Got
  <2> QED BY <1>1, <2>1, <2>2 DEF Runs
<1>3. /\ Lost(c) \in Runs /\ Lost(c).pc = "fetching" /\ Lost(c).adapter = run[c].adapter
      /\ Lost(c).at = run[c].at /\ Lost(c).plan = run[c].plan
      /\ Lost(c).lost = run[c].lost \cup {run[c].at} /\ Lost(c).got = run[c].got
  <2>1. run[c].lost \cup {run[c].at} \in SUBSET Nat
    BY <1>1
  <2>2. Lost(c) = [run[c] EXCEPT !.lost = run[c].lost \cup {run[c].at}]
    BY DEF Lost
  <2> QED BY <1>1, <2>1, <2>2 DEF Runs
<1>4. 1..run[c].at = (1..(run[c].at - 1)) \cup {run[c].at}
  BY <1>1
<1>5. (run[c].got \cup {run[c].at}) \cup run[c].lost = 1..run[c].at
      /\ run[c].got \cup (run[c].lost \cup {run[c].at}) = 1..run[c].at
  BY <1>1, <1>4 DEF Has
<1>6. Has(Got(c), Got(c).at)
  BY <1>1, <1>2, <1>5 DEF Has
<1>7. ASSUME run[c].adapter \in Swallowing PROVE Has(Lost(c), Lost(c).at)
  <2>1. run[c].adapter \in OneShot => run[c].plan = 1
    BY <1>1 DEF Has
  <2> QED BY <1>3, <1>5, <1>7, <2>1 DEF Has
<1> QED BY <1>1, <1>2, <1>3, <1>6, <1>7

LEMMA AnswerMakes ==
  ASSUME FetchInv, NEW c \in Callers, Answer(c)
  PROVE  \E y : Makes(c, y)
<1>1. /\ run[c].pc = "fetching" /\ run[c].adapter \in Adapters \ {"hnhiring"} /\ Busy(c)
      /\ run[c].adapter # "wellfound" => call[c].pc = "done"
  BY AnswerCases DEF Busy
<1>2. GoodRun(run[c]) /\ InStep(run[c], call[c])
  BY DEF FetchInv
<1>3. /\ call[c].pc \in {"idle", "done"}
      /\ run[c].adapter = "wellfound" => call[c].pc = "idle"
  BY <1>1, <1>2 DEF InStep
<1>4. CASE Ask(c, Got(c))
  BY <1>1, <1>2, <1>3, <1>4, GotLost, AskMakes
<1>8. CASE run[c].adapter \in Swallowing /\ Ask(c, Lost(c))
  BY <1>1, <1>2, <1>3, <1>8, GotLost, AskMakes
<1>5. CASE Raise(c)
  BY <1>1, <1>3, <1>5, RaiseMakes
<1>6. CASE /\ Return(c, Got(c))
           /\ \/ run[c].adapter \in OneShot
              \/ run[c].adapter = "google_cse" /\ ~CanQuery(quota')
  <2> DEFINE r == Got(c)
             y == [r EXCEPT !.pc = "returned"]
  <2>1. /\ r \in Runs /\ r.pc = "fetching" /\ r.adapter = run[c].adapter /\ r.at = run[c].at
        /\ r.plan = run[c].plan /\ Has(r, r.at) /\ r.at \in Nat /\ r.at <= r.plan /\ r.plan \in Nat
    BY <1>1, <1>2, GotLost
  <2>2. r.at >= 1 /\ Return(c, r)
    BY <1>1, <1>2, <1>6, <2>1 DEF GoodRun
  <2> HIDE DEF r
  <2>3. y.pc = "returned" /\ y.adapter = r.adapter /\ y.got = r.got /\ y.lost = r.lost
        /\ y.plan = r.plan /\ y \in Runs
    BY <2>1 DEF Runs
  <2>4. r.adapter \notin Swallowing /\ r.adapter \in Adapters
    BY <1>1, <1>6, <2>1 DEF Swallowing, OneShot
  <2>5. y.lost = {} /\ y.got = 1..r.at
    BY <2>1, <2>3, <2>4 DEF Has
  <2> HIDE DEF y
  <2>6. Whole(y)
    <3>1. CASE r.adapter \in OneShot
      <4>1. r.at = y.plan
        BY <2>1, <2>2, <2>3, <3>1 DEF Has
      <4> QED BY <4>1, <2>5 DEF Whole
    <3>2. CASE r.adapter = "google_cse" /\ ~CanQuery(quota')
      BY <2>3, <2>5, <3>2 DEF Whole
    <3> QED BY <1>6, <2>1, <3>1, <3>2
  <2>7. Makes(c, [r EXCEPT !.pc = "returned"])
    BY <1>3, <2>1, <2>2, <2>4, <2>6, ReturnMakes DEF y
  <2> QED BY <2>7
<1>7. \/ Ask(c, Got(c)) \/ Raise(c)
      \/ run[c].adapter \in Swallowing /\ Ask(c, Lost(c))
      \/ run[c].adapter \in OneShot /\ Return(c, Got(c))
      \/ run[c].adapter = "google_cse" /\ ~CanQuery(quota') /\ Return(c, Got(c))
  BY AnswerCases
<1> QED BY <1>4, <1>5, <1>6, <1>7, <1>8
-----------------------------------------------------------------------------
(* The pages of hnhiring.                                                  *)

\* A page holds comments of the thread.
LEMMA PageOfThread ==
  ASSUME NEW r \in Runs, r.at >= 1
  PROVE  Hits(r) \in Seq(Nat) /\ TopLevel(Hits(r)) \in SUBSET Nat
<1> DEFINE m == (r.at - 1) * PerPage + 1
           n == IF r.at * PerPage < Len(r.thread) THEN r.at * PerPage ELSE Len(r.thread)
<1>1. r.thread \in Seq(Nat) /\ r.at \in Nat /\ PerPage \in Nat
  BY FetchAssumption DEF Runs
<1>2. m \in Int /\ m >= 1 /\ n \in Int /\ n <= Len(r.thread)
  BY <1>1
<1>3. Hits(r) = SubSeq(r.thread, m, n)
  BY DEF Hits
<1> HIDE DEF m, n
<1>4. \A i \in m..n : r.thread[i] \in Nat
  <2> TAKE i \in m..n
  <2>1. i \in 1..Len(r.thread)
    BY <1>1, <1>2
  <2> QED BY <1>1, <2>1
<1>5. Hits(r) \in Seq(Nat)
  BY <1>2, <1>3, <1>4, SubSeqProperties
<1>6. \A i \in DOMAIN Hits(r) : Hits(r)[i] \in Nat
  BY <1>5
<1> QED BY <1>5, <1>6 DEF TopLevel

\* After a page the run returns or asks for the next one.
LEMMA NextPageMakes ==
  ASSUME FetchInv, NEW c \in Callers, NEW r \in Runs, r.pc = "fetching", r.adapter = "hnhiring",
         Busy(c) => run[c].adapter = "hnhiring", call[c].pc \in {"idle", "done"}, NextPage(c, r)
  PROVE  \E y : Makes(c, y)
<1>1. CASE Return(c, r)
  <2> DEFINE z == [r EXCEPT !.pc = "returned"]
  <2>1. z.adapter = "hnhiring"
    BY DEF Runs
  <2>2. Whole(z)
    BY <2>1 DEF Whole
  <2>3. Makes(c, z)
    BY <1>1, <2>2, ReturnMakes DEF Adapters
  <2> QED BY <2>3
<1>2. CASE run' = [run EXCEPT ![c] = [r EXCEPT !.at = @ + 1]] /\ BeginCall(c)
  <2> DEFINE z == [r EXCEPT !.at = @ + 1]
  <2>1. z \in Runs /\ z.pc = "fetching" /\ z.adapter = "hnhiring" /\ z.at = r.at + 1
    <3>1. r.at + 1 \in Nat
      BY DEF Runs
    <3>2. z \in Runs
      BY <3>1 DEF Runs
    <3> QED BY <3>2 DEF Runs
  <2>2. run' = [run EXCEPT ![c] = z]
    BY <1>2
  <2> HIDE DEF z
  <2>3. GoodRun(z)
    BY <2>1 DEF GoodRun, Adapters, Runs
  <2>4. call'[c].pc # "idle" /\ CallChange /\ \A d \in Callers \ {c} : call'[d] = call[d]
    BY <1>2, BegunCall
  <2>5. InStep(z, call'[c])
    BY <2>1, <2>4 DEF InStep
  <2>6. Makes(c, z)
    BY <2>1, <2>2, <2>3, <2>4, <2>5 DEF Makes
  <2> QED BY <2>6
<1> QED BY <1>1, <1>2 DEF NextPage

LEMMA FindLatestThreadMakes ==
  ASSUME FetchInv, NEW c \in Callers, FindLatestThread(c)
  PROVE  \E y : Makes(c, y)
<1>1. /\ run[c] \in Runs /\ run[c].pc = "finding" /\ run[c].adapter = "hnhiring"
      /\ call[c].pc = "done" /\ Busy(c)
  BY DEF FindLatestThread, FetchInv, GoodRun, Failed, Answered200, Busy
<1>2. CASE Raise(c)
  BY <1>1, <1>2, RaiseMakes
<1>3. CASE Return(c, run[c])
  <2> DEFINE z == [run[c] EXCEPT !.pc = "returned"]
  <2>1. z.adapter = "hnhiring"
    BY <1>1 DEF Runs
  <2>2. Whole(z)
    BY <2>1 DEF Whole
  <2>3. Makes(c, z)
    BY <1>1, <1>3, <2>2, ReturnMakes DEF Adapters
  <2> QED BY <2>3
<1>4. ASSUME NEW t \in Threads, NextPage(c, [run[c] EXCEPT !.pc = "fetching", !.thread = t])
      PROVE  \E y : Makes(c, y)
  <2> DEFINE x == [run[c] EXCEPT !.pc = "fetching"]
             z == [x EXCEPT !.thread = t]
  <2>1. x \in Runs /\ x.pc = "fetching" /\ x.adapter = "hnhiring"
    BY <1>1 DEF Runs
  <2>2. [run[c] EXCEPT !.pc = "fetching", !.thread = t] = z
    OBVIOUS
  <2> HIDE DEF x
  <2>3. z \in Runs /\ z.pc = "fetching" /\ z.adapter = "hnhiring"
    BY <2>1, FetchAssumption DEF Runs
  <2> HIDE DEF z
  <2>4. NextPage(c, z)
    BY <1>4, <2>2
  <2> QED BY <1>1, <2>3, <2>4, NextPageMakes
<1> QED BY <1>2, <1>3, <1>4 DEF FindLatestThread

LEMMA TopLevelCommentsMakes ==
  ASSUME FetchInv, NEW c \in Callers, TopLevelComments(c)
  PROVE  \E y : Makes(c, y)
<1>1. /\ run[c] \in Runs /\ run[c].pc = "fetching" /\ run[c].adapter = "hnhiring"
      /\ run[c].at >= 1 /\ call[c].pc = "done" /\ Busy(c)
  BY DEF TopLevelComments, AtWork, FetchInv, GoodRun, Failed, Answered200, Busy
<1>2. CASE Raise(c)
  BY <1>1, <1>2, RaiseMakes
<1> DEFINE hits == Hits(run[c])
           z == [run[c] EXCEPT !.got = @ \cup TopLevel(hits)]
<1>3. CASE Return(c, z) \/ NextPage(c, z)
  <2>1. TopLevel(hits) \in SUBSET Nat
    BY <1>1, PageOfThread
  <2>2. run[c].got \cup TopLevel(hits) \in SUBSET Nat
    BY <1>1, <2>1 DEF Runs
  <2>3. z \in Runs /\ z.pc = "fetching" /\ z.adapter = "hnhiring"
    BY <1>1, <2>2 DEF Runs
  <2> HIDE DEF z
  <2>4. CASE NextPage(c, z)
    BY <1>1, <2>3, <2>4, NextPageMakes
  <2>5. CASE Return(c, z)
    <3> DEFINE w == [z EXCEPT !.pc = "returned"]
    <3>1. w.adapter = "hnhiring"
      BY <2>3 DEF Runs
    <3>2. Whole(w)
      BY <3>1 DEF Whole
    <3>3. Makes(c, w)
      BY <1>1, <2>3, <2>5, <3>2, ReturnMakes DEF Adapters
    <3> QED BY <3>3
  <2> QED BY <1>3, <2>4, <2>5
<1>4. Raise(c) \/ Return(c, z) \/ NextPage(c, z)
  BY DEF TopLevelComments
<1> QED BY <1>2, <1>3, <1>4

\* A thread that moves is still one.
LEMMA ThreadMovesMakes ==
  ASSUME FetchInv, NEW c \in Callers, ThreadMoves(c)
  PROVE  \E y : Makes(c, y)
<1> DEFINE t == run[c].thread
<1>1. /\ run[c] \in Runs /\ run[c].pc = "fetching" /\ run[c].adapter = "hnhiring"
      /\ t \in Seq(Nat) /\ GoodRun(run[c]) /\ InStep(run[c], call[c]) /\ run \in [Callers -> Runs]
  BY DEF ThreadMoves, AtWork, FetchInv, Runs
<1>2. UNCHANGED call
  BY DEF ThreadMoves
<1>3. ASSUME NEW y \in Runs, run' = [run EXCEPT ![c] = y], y.pc = "fetching",
             y.adapter = "hnhiring", y.at = run[c].at
      PROVE  Makes(c, y)
  <2>1. GoodRun(y) /\ InStep(y, call'[c])
    BY <1>1, <1>2, <1>3 DEF GoodRun, InStep
  <2> QED BY <1>1, <1>2, <1>3, <2>1 DEF Makes, CallChange
<1>4. ASSUME NEW i \in 1..Len(t) + 1, run' = [run EXCEPT ![c].thread = InsertAt(t, i, 0)]
      PROVE  \E y : Makes(c, y)
  <2>1. InsertAt(t, i, 0) \in Seq(Nat)
    <3>1. SubSeq(t, 1, i - 1) \in Seq(Nat) /\ SubSeq(t, i, Len(t)) \in Seq(Nat)
      BY <1>1, SubSeqProperties
    <3>2. <<0>> \in Seq(Nat)
      OBVIOUS
    <3>3. SubSeq(t, 1, i - 1) \o <<0>> \in Seq(Nat)
      BY <3>1, <3>2, ConcatProperties
    <3> QED BY <3>1, <3>3, ConcatProperties DEF InsertAt
  <2> DEFINE y == [run[c] EXCEPT !.thread = InsertAt(t, i, 0)]
  <2>2. y \in Runs /\ y.pc = "fetching" /\ y.adapter = "hnhiring" /\ y.at = run[c].at
    BY <1>1, <2>1 DEF Runs
  <2>3. run' = [run EXCEPT ![c] = y]
    BY <1>1, <1>4
  <2> HIDE DEF y
  <2> QED BY <1>3, <2>2, <2>3
<1>5. ASSUME NEW i \in 1..Len(t),
             run' = [run EXCEPT ![c].thread = RemoveAt(t, i), ![c].shrunk = TRUE]
      PROVE  \E y : Makes(c, y)
  <2>1. RemoveAt(t, i) \in Seq(Nat)
    <3>1. SubSeq(t, 1, i - 1) \in Seq(Nat) /\ SubSeq(t, i + 1, Len(t)) \in Seq(Nat)
      BY <1>1, SubSeqProperties
    <3> QED BY <3>1, ConcatProperties DEF RemoveAt
  <2> DEFINE x == [run[c] EXCEPT !.thread = RemoveAt(t, i)]
             y == [x EXCEPT !.shrunk = TRUE]
  <2>2. x \in Runs /\ x.pc = "fetching" /\ x.adapter = "hnhiring" /\ x.at = run[c].at
    BY <1>1, <2>1 DEF Runs
  <2>3. run' = [run EXCEPT ![c] = y]
    BY <1>1, <1>5
  <2> HIDE DEF x
  <2>4. y \in Runs /\ y.pc = "fetching" /\ y.adapter = "hnhiring" /\ y.at = run[c].at
    BY <2>2 DEF Runs
  <2> HIDE DEF y
  <2> QED BY <1>3, <2>3, <2>4
<1> QED BY <1>4, <1>5 DEF ThreadMoves
-----------------------------------------------------------------------------
(* The first and the last step of a run.                                   *)

LEMMA PlansTyped ==
  ASSUME NEW a \in Adapters, NEW n \in Plans(a)
  PROVE  n \in Nat /\ (a \in OneShot => n = 1)
BY FetchAssumption DEF Plans

LEMMA NoRunTyped == NoRun \in Runs /\ NoRun.pc = "idle"
<1>1. <<>> \in Seq(Nat)
  OBVIOUS
<1> QED BY <1>1 DEF NoRun, Runs

LEMMA BeginMakes ==
  ASSUME FetchInv, NEW c \in Callers, NEW a \in Adapters, Begin(c, a)
  PROVE  \E y : Makes(c, y) /\ y.adapter = a
<1> DEFINE fresh(n) == [NoRun EXCEPT !.pc = "fetching", !.adapter = a, !.plan = n]
<1>1. PICK n \in Plans(a) :
        \/ /\ a = "hnhiring"
           /\ run' = [run EXCEPT ![c] = [fresh(n) EXCEPT !.pc = "finding"]]
           /\ BeginCall(c)
        \/ a = "google_cse" /\ n # 0 /\ ~CanQuery(Rolled) /\ Return(c, fresh(n))
        \/ a # "hnhiring" /\ Ask(c, fresh(n))
  BY DEF Begin
<1> DEFINE x == [NoRun EXCEPT !.pc = "fetching"]
           z == [x EXCEPT !.adapter = a]
           r == [z EXCEPT !.plan = n]
<1>2. fresh(n) = r
  OBVIOUS
<1>3. n \in Nat /\ (a \in OneShot => n = 1)
  BY PlansTyped
<1>4. /\ r \in Runs /\ r.pc = "fetching" /\ r.adapter = a /\ r.plan = n /\ r.at = 0
      /\ r.got = {} /\ r.lost = {}
  <2>1. x \in Runs /\ x.pc = "fetching" /\ x.at = 0 /\ x.got = {} /\ x.lost = {}
    <3>1. x \in Runs
      BY NoRunTyped DEF Runs
    <3> QED BY <3>1 DEF NoRun
  <2> HIDE DEF x
  <2>2. z \in Runs /\ z.pc = "fetching" /\ z.adapter = a /\ z.at = 0 /\ z.got = {} /\ z.lost = {}
    BY <2>1 DEF Runs
  <2> HIDE DEF z
  <2> QED BY <1>3, <2>2 DEF Runs
<1> HIDE DEF r
<1>5. \/ /\ a = "hnhiring"
         /\ run' = [run EXCEPT ![c] = [r EXCEPT !.pc = "finding"]] /\ BeginCall(c)
      \/ a = "google_cse" /\ n # 0 /\ ~CanQuery(Rolled) /\ Return(c, r)
      \/ a # "hnhiring" /\ Ask(c, r)
  BY <1>1, <1>2
<1>6. run[c].pc = "idle" /\ ~Busy(c) /\ call[c].pc = "idle"
  BY DEF Begin, Busy, FetchInv, InStep
<1>7. CASE /\ a = "hnhiring"
           /\ run' = [run EXCEPT ![c] = [r EXCEPT !.pc = "finding"]] /\ BeginCall(c)
  <2> DEFINE y == [r EXCEPT !.pc = "finding"]
  <2>1. y \in Runs /\ y.pc = "finding" /\ y.adapter = "hnhiring"
    BY <1>4, <1>7 DEF Runs
  <2>2. run' = [run EXCEPT ![c] = y] /\ BeginCall(c)
    BY <1>7
  <2> HIDE DEF y
  <2>3. call'[c].pc # "idle" /\ CallChange /\ \A d \in Callers \ {c} : call'[d] = call[d]
    BY <1>6, <2>2, BegunCall
  <2>4. GoodRun(y) /\ InStep(y, call'[c])
    BY <2>1, <2>3 DEF GoodRun, InStep, Adapters
  <2>5. Makes(c, y)
    BY <1>6, <2>2, <2>3, <2>4 DEF Makes
  <2> QED BY <1>7, <2>1, <2>5
<1>8. CASE a # "hnhiring" /\ Ask(c, r)
  <2>1. Has(r, r.at) /\ r.at <= r.plan
    BY <1>3, <1>4 DEF Has
  <2> QED BY <1>4, <1>6, <1>8, <2>1, AskMakes
<1>9. CASE a = "google_cse" /\ n # 0 /\ ~CanQuery(Rolled) /\ Return(c, r)
  <2> DEFINE y == [r EXCEPT !.pc = "returned"]
  <2>1. y.adapter = "google_cse" /\ y.lost = {} /\ y.plan = n
    BY <1>4, <1>9 DEF Runs
  <2>2. run'[c] = y
    BY <1>9 DEF Return, FetchInv
  <2>3. quota' = Rolled
    BY <1>9, <2>1, <2>2 DEF Begin
  <2>4. Whole(y)
    BY <1>9, <2>1, <2>3 DEF Whole, CanQuery
  <2>5. Makes(c, y)
    BY <1>4, <1>6, <1>9, <2>4, ReturnMakes
  <2> QED BY <1>9, <2>1, <2>5
<1> QED BY <1>5, <1>7, <1>8, <1>9

LEMMA LeaveMakes ==
  ASSUME FetchInv, NEW c \in Callers, Leave(c)
  PROVE  Makes(c, NoRun)
<1>1. NoRun \in Runs /\ NoRun.pc = "idle"
  BY NoRunTyped
<1>2. GoodRun(NoRun)
  BY <1>1 DEF GoodRun
<1>3. /\ call[c].pc = "idle" /\ UNCHANGED call /\ run' = [run EXCEPT ![c] = NoRun]
      /\ ~Busy(c)
  BY DEF Leave, FetchInv, InStep, Busy
<1> QED BY <1>1, <1>2, <1>3 DEF Makes, InStep, CallChange

\* A request that moves leaves its run alone.
LEMMA CallStepMakes ==
  ASSUME FetchInv, NEW c \in Callers, CallStep(c), UNCHANGED run
  PROVE  Makes(c, run[c])
<1>1. call[c].pc \in {"sent", "asleep"} /\ CallMoves(c, {"sent", "asleep", "done"})
  BY CallStepMoves DEF FetchInv
<1>2. GoodRun(run[c]) /\ InStep(run[c], call[c]) /\ run \in [Callers -> Runs]
  BY DEF FetchInv
<1>3. InStep(run[c], call'[c])
  BY <1>1, <1>2 DEF InStep, CallMoves
<1>4. run[c].pc \in {"finding", "fetching"}
  BY <1>1, <1>2 DEF InStep
<1>5. run' = [run EXCEPT ![c] = run[c]]
  BY <1>2
<1> QED BY <1>1, <1>2, <1>3, <1>4, <1>5 DEF Makes, CallMoves, CallChange
-----------------------------------------------------------------------------
(* The system.                                                             *)

\* A step of a caller changes no run but its own, and keeps it good.
LEMMA StepMakes ==
  ASSUME FetchInv, NEW c \in Callers, Step(c)
  PROVE  \E y : Makes(c, y)
<1>1. CASE CallStep(c) /\ UNCHANGED <<run, quota>>
  BY <1>1, CallStepMakes
<1>2. CASE Answer(c)
  BY <1>2, AnswerMakes
<1>3. CASE FindLatestThread(c)
  BY <1>3, FindLatestThreadMakes
<1>4. CASE TopLevelComments(c)
  BY <1>4, TopLevelCommentsMakes
<1>5. CASE \E a \in Adapters : Begin(c, a)
  BY <1>5, BeginMakes
<1>6. CASE Leave(c)
  BY <1>6, LeaveMakes
<1>7. CASE ThreadMoves(c)
  BY <1>7, ThreadMovesMakes
<1> QED BY <1>1, <1>2, <1>3, <1>4, <1>5, <1>6, <1>7 DEF Step, Proceed, Answer

\* The calendar and the counts of the day keep their types.
LEMMA QuotaTyped ==
  ASSUME FetchInv, FetchNext
  PROVE  /\ today' \in Nat /\ quota' \in [day : Nat, count : Nat]
         /\ tier' \in [sent : Nat, failed : Nat]
<1>1. today \in Nat /\ quota \in [day : Nat, count : Nat]
  BY DEF FetchInv
<1>2. Rolled \in [day : Nat, count : Nat]
  BY <1>1 DEF Rolled
<1>3. [Rolled EXCEPT !.count = @ + 1] \in [day : Nat, count : Nat]
  BY <1>2
<1>4. CASE Midnight
  BY <1>1, <1>4 DEF Midnight, NoTier
<1>5. ASSUME NEW c \in Callers, Step(c)
      PROVE  /\ today' \in Nat /\ quota' \in [day : Nat, count : Nat]
             /\ tier' \in [sent : Nat, failed : Nat]
  <2>1. UNCHANGED today
    BY <1>5 DEF Step, Proceed
  <2>2. quota' \in {quota, Rolled, [Rolled EXCEPT !.count = @ + 1]}
    <3>1. CASE Answer(c)
      BY <3>1 DEF Answer, Reddit, LinkedIn, Wellfound, Funding, RssMulti, HackerNews, RemoteOK,
                  ProductHunt, GoogleCSE, RecordQuery
    <3>2. CASE FindLatestThread(c) \/ TopLevelComments(c)
      BY <3>2 DEF FindLatestThread, TopLevelComments
    <3>3. CASE CallStep(c) /\ UNCHANGED <<run, quota>>
      BY <3>3
    <3>4. CASE (\E a \in Adapters : Begin(c, a)) \/ Leave(c) \/ ThreadMoves(c)
      BY <3>4 DEF Begin, Leave, ThreadMoves
    <3> QED BY <1>5, <3>1, <3>2, <3>3, <3>4 DEF Step, Proceed, Answer
  <2>3. tier' \in [sent : Nat, failed : Nat]
    <3>1. Tally(c) /\ tier \in [sent : Nat, failed : Nat]
      BY <1>5 DEF Step, Proceed, FetchInv
    <3> QED BY <3>1 DEF Tally
  <2> QED BY <1>1, <1>2, <1>3, <2>1, <2>2, <2>3
<1> QED BY <1>4, <1>5 DEF FetchNext

LEMMA InitFetchInv == FetchInit => FetchInv
<1> SUFFICES ASSUME FetchInit PROVE FetchInv
  OBVIOUS
<1>1. CallInv
  BY NoCallGood DEF FetchInit, InitCalls, CallInv, GoodCall
<1>2. \A c \in Callers : run[c] = NoRun /\ call[c] = NoCall
  BY DEF FetchInit, InitCalls
<1>3. GoodRun(NoRun) /\ InStep(NoRun, NoCall)
  BY NoRunTyped DEF GoodRun, InStep, NoCall
<1>4. /\ run \in [Callers -> Runs] /\ today \in Nat /\ quota \in [day : Nat, count : Nat]
      /\ tier \in [sent : Nat, failed : Nat]
  BY NoRunTyped DEF FetchInit, NoTier
<1> QED BY <1>1, <1>2, <1>3, <1>4 DEF FetchInv

LEMMA NextFetchInv == FetchInv /\ [FetchNext]_fetchVars => FetchInv'
<1> SUFFICES ASSUME FetchInv, [FetchNext]_fetchVars PROVE FetchInv'
  OBVIOUS
<1>1. CASE UNCHANGED <<call, run, today, quota, tier>>
  BY <1>1 DEF FetchInv, CallInv, GoodCall, GoodRun, InStep, Has, Runs
<1>2. CASE Midnight
  <2>1. UNCHANGED <<call, run, quota>>
    BY <1>2 DEF Midnight
  <2>2. today' \in Nat /\ tier' \in [sent : Nat, failed : Nat]
    BY <1>2, QuotaTyped DEF FetchNext
  <2> QED BY <2>1, <2>2 DEF FetchInv, CallInv, GoodCall, GoodRun, InStep, Has, Runs
<1>3. ASSUME NEW c \in Callers, Step(c) PROVE FetchInv'
  <2>1. PICK y : Makes(c, y)
    BY <1>3, StepMakes
  <2>2. CallInv'
    BY <2>1, CallChangeGood DEF Makes, FetchInv
  <2>3. run' = [run EXCEPT ![c] = y] /\ y \in Runs /\ run' \in [Callers -> Runs]
    BY <2>1 DEF Makes, GoodRun, FetchInv
  <2>4. \A d \in Callers : GoodRun(run'[d]) /\ InStep(run'[d], call'[d])
    BY <2>1, <2>3 DEF Makes, FetchInv
  <2>5. (\A d \in Callers : GoodRun(run[d]) /\ InStep(run[d], call[d]))'
    BY <2>4 DEF GoodRun, InStep, Has, Runs
  <2>6. /\ today' \in Nat /\ quota' \in [day : Nat, count : Nat]
        /\ tier' \in [sent : Nat, failed : Nat]
    BY <1>3, QuotaTyped DEF FetchNext
  <2> QED BY <2>2, <2>3, <2>5, <2>6 DEF FetchInv
<1> QED BY <1>1, <1>2, <1>3 DEF FetchNext, fetchVars

LEMMA FetchInvariant == FetchSpec => []FetchInv
<1> QED BY InitFetchInv, NextFetchInv, PTL DEF FetchSpec

-----------------------------------------------------------------------------
\* Every variable keeps its type, and a run has a request under way exactly
\* while it waits for one: SourceAdapter.fetch_raw and HttpFetcher._fetch.
THEOREM FetchTypeCorrect == FetchSpec => []FetchTypeOK
<1>1. FetchInv => FetchTypeOK
  BY DEF FetchInv, FetchTypeOK, CallInv, GoodRun, InStep, Busy
<1> QED BY <1>1, FetchInvariant, PTL

\* A request sleeps at most a minute per retry whatever its source sends:
\* the retry loop of HttpFetcher._fetch.
THEOREM WaitCorrect == FetchSpec => []BoundedWait
<1>1. FetchInv => BoundedWait
  <2> SUFFICES ASSUME FetchInv, NEW c \in Callers
               PROVE  call[c].slept <= MaxWait * (IF MaxRetries = 0 THEN 0 ELSE MaxRetries - 1)
    BY DEF BoundedWait
  <2>1. call[c] \in Calls /\ GoodCall(call[c])
    BY DEF FetchInv, CallInv
  <2>2. call[c].pc \in {"idle", "sent", "asleep", "done"} /\ call[c].attempt \in 0..MaxRetries
        /\ call[c].slept \in Nat /\ MaxRetries \in Nat
    BY <2>1, RetryAssumption DEF Calls
  <2>3. CASE call[c].pc = "idle"
    BY <2>1, <2>2, <2>3 DEF GoodCall, NoCall, MaxWait
  <2>4. CASE call[c].pc = "sent"
    BY <2>1, <2>2, <2>4 DEF GoodCall, MaxWait
  <2>5. CASE call[c].pc = "asleep"
    BY <2>1, <2>2, <2>5 DEF GoodCall, MaxWait
  <2>6. CASE call[c].pc = "done"
    BY <2>1, <2>2, <2>6 DEF GoodCall, MaxWait
  <2> QED BY <2>2, <2>3, <2>4, <2>5, <2>6
<1> QED BY <1>1, FetchInvariant, PTL

\* A run returns everything it was asked for, but for a source that failed and
\* was swallowed or a budget that ran out: every fetch_raw.
THEOREM DroppedCorrect == FetchSpec => NothingDropped
<1>1. FetchInv /\ [FetchNext]_fetchVars =>
        [\A c \in Callers : Busy(c) /\ run'[c].pc = "returned" => Whole(run'[c])]_fetchVars
  <2> SUFFICES ASSUME FetchInv, FetchNext, NEW c \in Callers, Busy(c), run'[c].pc = "returned"
               PROVE  Whole(run'[c])
    OBVIOUS
  <2>1. ~Midnight
    BY DEF Midnight, Busy
  <2>2. PICK d \in Callers : Step(d)
    BY <2>1 DEF FetchNext
  <2>3. PICK y : Makes(d, y)
    BY <2>2, StepMakes
  <2>4. run' = [run EXCEPT ![d] = y] /\ run \in [Callers -> Runs]
    BY <2>3 DEF Makes, FetchInv
  <2>5. d = c /\ run'[c] = y
    BY <2>4 DEF Busy
  <2> QED BY <2>3, <2>5 DEF Makes
<1> QED BY <1>1, FetchInvariant, PTL DEF FetchSpec, NothingDropped
-----------------------------------------------------------------------------
(* The daily budget.                                                       *)

\* The runs that wait for a query.
Querying == {c \in Callers : AtWork(c, {"google_cse"})}

\* Runs that wait for a query are runs of callers.
LEMMA QueryingFinite ==
  /\ IsFiniteSet(Querying) /\ Cardinality(Querying) \in Nat
  /\ Cardinality(Querying) <= Cardinality(Callers) /\ Cardinality(Callers) \in Nat
<1>1. Querying \subseteq Callers /\ IsFiniteSet(Callers)
  BY FetchAssumption DEF Querying
<1> QED BY <1>1, FS_Subset, FS_CardinalityType

\* A busy run that moves starts no query beside its own, and one that stops
\* waiting makes the set smaller.
LEMMA QueryingMoves ==
  ASSUME FetchInv, NEW c \in Callers, NEW y, Makes(c, y)
  PROVE  /\ Busy(c) => Querying' \subseteq Querying
         /\ y.pc # "fetching" => Querying' \subseteq Querying \ {c}
         /\ y.adapter # "google_cse" => Querying' \subseteq Querying \ {c}
<1>1. /\ run'[c] = y /\ \A d \in Callers \ {c} : run'[d] = run[d]
      /\ Busy(c) => y.adapter = run[c].adapter
  BY DEF Makes, FetchInv
<1>2. GoodRun(run[c])
  BY DEF FetchInv
<1>3. ASSUME NEW d \in Querying' PROVE d \in Callers /\ run'[d].pc = "fetching" /\ run'[d].adapter = "google_cse"
  BY <1>3 DEF Querying, AtWork
<1>4. \A d \in Callers \ {c} : d \in Querying' => d \in Querying
  BY <1>1, <1>3 DEF Querying, AtWork
<1>5. c \in Querying' /\ Busy(c) => c \in Querying
  BY <1>1, <1>2, <1>3 DEF Querying, AtWork, Busy, GoodRun
<1>6. c \in Querying' => y.pc = "fetching" /\ y.adapter = "google_cse"
  BY <1>1, <1>3
<1> QED BY <1>3, <1>4, <1>5, <1>6

\* A step leaves a query to spare, or charges no more than it finishes.
LEMMA QuotaStep ==
  ASSUME FetchInv, [FetchNext]_fetchVars
  PROVE  \/ quota'.count < Budget
         \/ quota'.count + Cardinality(Querying') <= quota.count + Cardinality(Querying)
<1>0. quota \in [day : Nat, count : Nat] /\ quota.count \in Nat /\ Budget \in Nat
  BY FetchAssumption DEF FetchInv
<1>1. Rolled.count \in Nat /\ Rolled.count <= quota.count /\ Rolled \in [day : Nat, count : Nat]
  BY <1>0 DEF Rolled, FetchInv
<1>2. ASSUME Querying' \subseteq Querying, quota'.count \in Nat, quota'.count <= quota.count
      PROVE  quota'.count + Cardinality(Querying') <= quota.count + Cardinality(Querying)
  <2>1. Cardinality(Querying') <= Cardinality(Querying) /\ Cardinality(Querying') \in Nat
    BY <1>2, QueryingFinite, FS_Subset, FS_CardinalityType
  <2> QED BY <1>0, <1>2, <2>1, QueryingFinite
<1>3. CASE Midnight \/ UNCHANGED fetchVars
  <2>1. UNCHANGED <<run, quota>>
    BY <1>3 DEF Midnight, fetchVars
  <2>2. Querying' \subseteq Querying
    BY <2>1 DEF Querying, AtWork
  <2> QED BY <1>0, <1>2, <2>1, <2>2
<1>4. ASSUME NEW c \in Callers, Step(c)
      PROVE  \/ quota'.count < Budget
             \/ quota'.count + Cardinality(Querying') <= quota.count + Cardinality(Querying)
  <2>1. PICK y : Makes(c, y)
    BY <1>4, StepMakes
  <2>2. run'[c] = y
    BY <2>1 DEF Makes, FetchInv
  <2>3. CASE Busy(c) /\ UNCHANGED quota
    BY <1>0, <1>2, <2>1, <2>3, QueryingMoves
  <2>4. CASE Leave(c)
    <3>1. UNCHANGED quota /\ y.pc # "fetching"
      BY <2>2, <2>4, NoRunTyped DEF Leave, FetchInv
    <3>2. Querying' \subseteq Querying
      BY <2>1, <3>1, QueryingMoves
    <3> QED BY <1>0, <1>2, <3>1, <3>2
  <2>5. ASSUME NEW a \in Adapters, Begin(c, a), a # "google_cse"
        PROVE  quota'.count + Cardinality(Querying') <= quota.count + Cardinality(Querying)
    <3>1. PICK z : Makes(c, z) /\ z.adapter = a
      BY <2>5, BeginMakes
    <3>2. UNCHANGED quota
      BY <2>5 DEF Begin
    <3>3. Querying' \subseteq Querying
      BY <2>5, <3>1, QueryingMoves
    <3> QED BY <1>0, <1>2, <3>2, <3>3
  <2>6. CASE Begin(c, "google_cse")
    <3> DEFINE r(n) == [NoRun EXCEPT !.pc = "fetching", !.adapter = "google_cse", !.plan = n]
    <3>1. quota'.count \in Nat /\ quota'.count <= quota.count
      BY <1>0, <1>1, <2>6 DEF Begin
    <3>2. CASE y.pc # "fetching"
      BY <1>2, <2>1, <3>1, <3>2, QueryingMoves
    <3>3. CASE y.pc = "fetching"
      <4>1. PICK n \in Plans("google_cse") :
              \/ Return(c, r(n))
              \/ ~(n # 0 /\ ~CanQuery(Rolled)) /\ Ask(c, r(n))
        BY <2>6 DEF Begin
      <4>2. r(n).plan = n /\ r(n).at = 0
        BY DEF NoRun
      <4> HIDE DEF r
      <4>3. ~Return(c, r(n))
        <5>1. ASSUME Return(c, r(n)) PROVE y = [r(n) EXCEPT !.pc = "returned"]
          BY <2>2, <5>1 DEF Return, FetchInv
        <5>2. [r(n) EXCEPT !.pc = "returned"].pc = "returned"
          <6>1. "pc" \in DOMAIN r(n)
            BY DEF r, NoRun
          <6> QED BY <6>1
        <5> QED BY <3>3, <5>1, <5>2
      <4>4. n # 0 /\ CanQuery(Rolled) /\ y = [r(n) EXCEPT !.at = @ + 1]
        BY <2>2, <4>1, <4>2, <4>3 DEF Ask, FetchInv
      <4>5. y.plan = n
        <5>1. y.plan = r(n).plan
          BY <4>4
        <5> QED BY <4>2, <5>1
      <4>6. quota' = Rolled
        BY <2>2, <2>6, <4>4, <4>5 DEF Begin
      <4> QED BY <4>4, <4>6 DEF CanQuery
    <3> QED BY <3>2, <3>3
  <2>7. CASE GoogleCSE(c) /\ ~UNCHANGED quota
    <3>1. c \in Querying /\ quota' = [Rolled EXCEPT !.count = @ + 1] /\ Busy(c)
      BY <2>7 DEF GoogleCSE, RecordQuery, Querying, AtWork, Busy
    <3>2. quota'.count = Rolled.count + 1
      BY <1>1, <3>1
    <3>3. CASE CanQuery(quota')
      BY <3>3 DEF CanQuery
    <3>4. CASE y.pc # "fetching"
      <4>1. Querying' \subseteq Querying \ {c}
        BY <2>1, <3>4, QueryingMoves
      <4>2. /\ Cardinality(Querying \ {c}) = Cardinality(Querying) - 1
            /\ IsFiniteSet(Querying \ {c}) /\ Cardinality(Querying') <= Cardinality(Querying \ {c})
            /\ Cardinality(Querying') \in Nat
        BY <3>1, <4>1, QueryingFinite, FS_RemoveElement, FS_Subset, FS_CardinalityType
      <4> QED BY <1>0, <1>1, <3>2, <4>2, QueryingFinite
    <3>5. CASE Return(c, Got(c))
      <4>1. y = [Got(c) EXCEPT !.pc = "returned"]
        BY <2>2, <3>5 DEF Return, FetchInv
      <4>2. "pc" \in DOMAIN Got(c)
        BY DEF Got, FetchInv, Runs
      <4>3. y.pc = "returned"
        BY <4>1, <4>2
      <4> QED BY <3>4, <4>3
    <3>6. CASE Raise(c)
      <4>1. y = [run[c] EXCEPT !.pc = "raised"] /\ run[c] \in Runs
        BY <2>2, <3>6 DEF Raise, FetchInv
      <4>2. y.pc = "raised"
        BY <4>1 DEF Runs
      <4> QED BY <3>4, <4>2
    <3> QED BY <2>7, <3>3, <3>5, <3>6 DEF GoogleCSE
  <2>8. ASSUME ~Leave(c), ~\E a \in Adapters : Begin(c, a), ~(GoogleCSE(c) /\ ~UNCHANGED quota)
        PROVE  Busy(c) /\ UNCHANGED quota
    <3>1. CASE CallStep(c) /\ UNCHANGED <<run, quota>>
      <4>1. call[c].pc # "idle"
        BY <3>1, CallStepMoves DEF FetchInv
      <4> QED BY <3>1, <4>1 DEF FetchInv, InStep, Busy
    <3>2. CASE Answer(c)
      <4>1. UNCHANGED quota
        BY <2>8, <3>2 DEF Answer, Reddit, LinkedIn, Wellfound, Funding, RssMulti, HackerNews,
                          RemoteOK, ProductHunt
      <4> QED BY <3>2, <4>1, AnswerCases DEF Busy
    <3>3. CASE FindLatestThread(c) \/ TopLevelComments(c) \/ ThreadMoves(c)
      BY <3>3 DEF FindLatestThread, TopLevelComments, ThreadMoves, AtWork, Busy
    <3> QED BY <1>4, <2>8, <3>1, <3>2, <3>3 DEF Step, Proceed, Answer
  <2> QED BY <2>3, <2>4, <2>5, <2>6, <2>7, <2>8
<1> QED BY <1>3, <1>4 DEF FetchNext

\* What is charged, with what may be charged yet, exceeds the budget by less than
\* one query per run.
Charged == quota.count + Cardinality(Querying) < Budget + Cardinality(Callers)

LEMMA ChargedInvariant == FetchSpec => []Charged
<1>1. FetchInit => Charged
  <2> SUFFICES ASSUME FetchInit PROVE Charged
    OBVIOUS
  <2>1. Querying = {}
    BY DEF FetchInit, Querying, AtWork, NoRun
  <2>2. Cardinality(Querying) = 0 /\ Cardinality(Callers) # 0 /\ Cardinality(Callers) \in Nat
    BY <2>1, FS_EmptySet, FetchAssumption, FS_CardinalityType
  <2> QED BY <2>2, FetchAssumption DEF FetchInit, Charged
<1>2. FetchInv /\ FetchInv' /\ Charged /\ [FetchNext]_fetchVars => Charged'
  <2> SUFFICES ASSUME FetchInv, FetchInv', Charged, [FetchNext]_fetchVars
               PROVE  quota'.count + Cardinality(Querying') < Budget + Cardinality(Callers)
    BY DEF Charged
  <2>1. quota.count \in Nat /\ quota'.count \in Nat /\ Budget \in Nat
    BY FetchAssumption DEF FetchInv
  <2>2. /\ Cardinality(Querying') <= Cardinality(Callers) /\ Cardinality(Querying') \in Nat
        /\ Cardinality(Callers) \in Nat /\ Cardinality(Querying) \in Nat
    <3>1. Querying' \subseteq Callers /\ IsFiniteSet(Callers)
      BY FetchAssumption DEF Querying
    <3> QED BY <3>1, QueryingFinite, FS_Subset, FS_CardinalityType
  <2> QED BY <2>1, <2>2, QuotaStep DEF Charged
<1> QED BY <1>1, <1>2, FetchInvariant, PTL DEF FetchSpec

\* The queries that are sent and neither charged nor failed.
InFlight == {c \in Querying : call[c].pc = "sent" \/ Answered200(c)}

\* What was sent today is charged, in flight or has failed.
SentInv == tier.sent <= Rolled.count + Cardinality(InFlight) + tier.failed

LEMMA InFlightFinite ==
  /\ InFlight \subseteq Querying /\ IsFiniteSet(InFlight)
  /\ Cardinality(InFlight) \in Nat /\ Cardinality(InFlight) <= Cardinality(Querying)
<1>1. InFlight \subseteq Querying
  BY DEF InFlight
<1> QED BY <1>1, QueryingFinite, FS_Subset, FS_CardinalityType

\* A query in flight moves by an answer of the server, or is charged.
LEMMA InFlightStep ==
  ASSUME FetchInv, NEW c \in InFlight, Step(c)
  PROVE  \/ CallStep(c) /\ UNCHANGED <<run, quota>> /\ call[c].pc = "sent"
         \/ Answered200(c) /\ RecordQuery
<1>1. /\ c \in Callers /\ run[c].pc = "fetching" /\ run[c].adapter = "google_cse"
      /\ call[c].pc = "sent" \/ Answered200(c)
  BY DEF InFlight, Querying, AtWork
<1>2. CASE CallStep(c) /\ UNCHANGED <<run, quota>>
  <2>1. call[c].pc \in {"sent", "asleep"}
    BY <1>1, <1>2, CallStepMoves DEF FetchInv
  <2> QED BY <1>1, <1>2, <2>1 DEF Answered200
<1>3. CASE Answer(c)
  <2>1. GoogleCSE(c)
    BY <1>1, <1>3 DEF Answer, Reddit, LinkedIn, Wellfound, Funding, RssMulti, HackerNews,
                      RemoteOK, ProductHunt, AtWork
  <2> QED BY <1>1, <2>1 DEF GoogleCSE, Failed, Answered200
<1>4. ~(FindLatestThread(c) \/ TopLevelComments(c) \/ ThreadMoves(c))
  BY <1>1 DEF FindLatestThread, TopLevelComments, ThreadMoves, AtWork
<1>5. ~((\E a \in Adapters : Begin(c, a)) \/ Leave(c))
  BY <1>1 DEF Begin, Leave
<1> QED BY <1>2, <1>3, <1>4, <1>5 DEF Step, Proceed, Answer

\* A step of c on its own changes what is in flight by c at most.
LEMMA InFlightMoves ==
  ASSUME FetchInv, FetchInv', NEW c \in Callers, Step(c)
  PROVE  /\ (c \in InFlight <=> c \in InFlight') => Cardinality(InFlight') = Cardinality(InFlight)
         /\ c \notin InFlight /\ c \in InFlight' => Cardinality(InFlight') = Cardinality(InFlight) + 1
         /\ c \in InFlight /\ c \notin InFlight' => Cardinality(InFlight') = Cardinality(InFlight) - 1
<1>1. PICK y : Makes(c, y)
  BY StepMakes
<1>2. \A d \in Callers \ {c} : run'[d] = run[d] /\ call'[d] = call[d]
  BY <1>1 DEF Makes, FetchInv
<1>3. \A d \in Callers \ {c} : d \in InFlight' <=> d \in InFlight
  BY <1>2 DEF InFlight, Querying, AtWork, Answered200
<1>4. InFlight \subseteq Callers /\ InFlight' \subseteq Callers
  BY DEF InFlight, Querying
<1>5. CASE c \in InFlight <=> c \in InFlight'
  <2>1. InFlight' = InFlight
    BY <1>3, <1>4, <1>5
  <2> QED BY <1>5, <2>1
<1>6. CASE c \notin InFlight /\ c \in InFlight'
  <2>1. InFlight' = InFlight \cup {c}
    BY <1>3, <1>4, <1>6
  <2> QED BY <1>6, <2>1, InFlightFinite, FS_AddElement
<1>7. CASE c \in InFlight /\ c \notin InFlight'
  <2>1. InFlight' = InFlight \ {c}
    BY <1>3, <1>4, <1>7
  <2> QED BY <1>7, <2>1, InFlightFinite, FS_RemoveElement
<1> QED BY <1>5, <1>6, <1>7

\* The count of today only grows with a step, and a charge adds one to it.
LEMMA RolledMoves ==
  ASSUME FetchInv, NEW c \in Callers, Step(c)
  PROVE  /\ Rolled.count \in Nat /\ Rolled'.count \in {Rolled.count, Rolled.count + 1}
         /\ RecordQuery => Rolled'.count = Rolled.count + 1
<1>1. quota \in [day : Nat, count : Nat] /\ UNCHANGED today
  BY DEF FetchInv, Step, Proceed
<1>2. Rolled.count \in Nat /\ Rolled.day = today /\ Rolled \in [day : {today}, count : Nat]
  BY <1>1 DEF Rolled
<1>3. quota' = quota => Rolled' = Rolled
  BY <1>1 DEF Rolled
<1>4. ASSUME quota' = Rolled PROVE Rolled' = Rolled
  <2>1. Rolled' = quota'
    BY <1>1, <1>2, <1>4 DEF Rolled
  <2> QED BY <1>4, <2>1
<1>5. ASSUME RecordQuery PROVE Rolled'.count = Rolled.count + 1
  <2>1. quota'.day = today /\ quota'.count = Rolled.count + 1
    BY <1>2, <1>5 DEF RecordQuery
  <2>2. Rolled' = quota'
    BY <1>1, <2>1 DEF Rolled
  <2> QED BY <1>2, <2>1, <2>2
<1>6. quota' = quota \/ quota' = Rolled \/ RecordQuery
  <2>1. CASE Answer(c)
    BY <2>1 DEF Answer, Reddit, LinkedIn, Wellfound, Funding, RssMulti, HackerNews, RemoteOK,
                ProductHunt, GoogleCSE
  <2>2. CASE FindLatestThread(c) \/ TopLevelComments(c)
    BY <2>2 DEF FindLatestThread, TopLevelComments
  <2>3. CASE (\E a \in Adapters : Begin(c, a)) \/ Leave(c) \/ ThreadMoves(c)
    BY <2>3 DEF Begin, Leave, ThreadMoves
  <2> QED BY <2>1, <2>2, <2>3 DEF Step, Proceed, Answer
<1> QED BY <1>2, <1>3, <1>4, <1>5, <1>6

\* A request that is sent stays accounted for, whatever moves next.
LEMMA SentStep ==
  ASSUME FetchInv, FetchInv', SentInv, [FetchNext]_fetchVars
  PROVE  SentInv'
<1>0. /\ tier \in [sent : Nat, failed : Nat] /\ tier' \in [sent : Nat, failed : Nat]
      /\ quota' \in [day : Nat, count : Nat] /\ today' \in Nat
  BY DEF FetchInv
<1>1. CASE UNCHANGED fetchVars
  BY <1>1 DEF fetchVars, SentInv, Rolled, InFlight, Querying, AtWork, Answered200
<1>2. CASE Midnight
  <2>1. tier'.sent = 0 /\ tier'.failed = 0
    BY <1>2 DEF Midnight, NoTier
  <2>2. Rolled'.count \in Nat
    BY <1>0 DEF Rolled
  <2>3. Cardinality(InFlight') \in Nat
    <3>1. InFlight' \subseteq Callers /\ IsFiniteSet(Callers)
      BY FetchAssumption DEF InFlight, Querying
    <3> QED BY <3>1, FS_Subset, FS_CardinalityType
  <2> QED BY <2>1, <2>2, <2>3 DEF SentInv
<1>3. ASSUME NEW c \in Callers, Step(c) PROVE SentInv'
  <2>1. /\ tier'.sent = (IF Sends(c) THEN tier.sent + 1 ELSE tier.sent)
        /\ tier'.failed = (IF Fails(c) THEN tier.failed + 1 ELSE tier.failed)
    BY <1>3 DEF Step, Proceed, Tally
  <2>2. Cardinality(InFlight) \in Nat
    BY InFlightFinite
  <2>3. c \in InFlight => Fails(c) \/ c \in InFlight' \/ RecordQuery
    <3> SUFFICES ASSUME c \in InFlight, ~RecordQuery PROVE Fails(c) \/ c \in InFlight'
      OBVIOUS
    <3>1. CallStep(c) /\ UNCHANGED <<run, quota>> /\ call[c].pc = "sent"
      BY <1>3, InFlightStep
    <3>2. run[c].pc = "fetching" /\ run[c].adapter = "google_cse" /\ c \in Querying'
      BY <3>1 DEF InFlight, Querying, AtWork
    <3> QED BY <3>1, <3>2 DEF InFlight, Fails
  <2>4. Sends(c) => c \in InFlight' /\ ~Fails(c) /\ (c \in InFlight => RecordQuery)
    <3> SUFFICES ASSUME Sends(c) PROVE c \in InFlight' /\ ~Fails(c) /\ (c \in InFlight => RecordQuery)
      OBVIOUS
    <3>1. /\ run'[c].adapter = "google_cse" /\ call'[c].pc = "sent" /\ call[c].pc # "sent"
          /\ GoodRun(run'[c]) /\ InStep(run'[c], call'[c])
      BY DEF Sends, FetchInv, GoodRun, InStep, Has, Runs
    <3>2. run'[c].pc = "fetching"
      BY <3>1 DEF GoodRun, InStep
    <3>3. c \in InFlight'
      BY <3>1, <3>2 DEF InFlight, Querying, AtWork
    <3>4. c \in InFlight => RecordQuery
      BY <1>3, <3>1, InFlightStep
    <3> QED BY <3>1, <3>3, <3>4 DEF Fails
  <2>5. /\ Rolled.count \in Nat /\ Rolled'.count \in {Rolled.count, Rolled.count + 1}
        /\ RecordQuery => Rolled'.count = Rolled.count + 1
    BY <1>3, RolledMoves
  <2>6. /\ (c \in InFlight <=> c \in InFlight') => Cardinality(InFlight') = Cardinality(InFlight)
        /\ c \notin InFlight /\ c \in InFlight' => Cardinality(InFlight') = Cardinality(InFlight) + 1
        /\ c \in InFlight /\ c \notin InFlight' => Cardinality(InFlight') = Cardinality(InFlight) - 1
    BY <1>3, InFlightMoves
  <2>7. tier.sent <= Rolled.count + Cardinality(InFlight) + tier.failed
    BY DEF SentInv
  <2>8. tier'.sent <= Rolled'.count + Cardinality(InFlight') + tier'.failed
    <3>1. CASE Sends(c)
      BY <1>0, <2>1, <2>2, <2>4, <2>5, <2>6, <2>7, <3>1
    <3>2. CASE ~Sends(c)
      BY <1>0, <2>1, <2>2, <2>3, <2>5, <2>6, <2>7, <3>2
    <3> QED BY <3>1, <3>2
  <2> QED BY <2>8 DEF SentInv
<1> QED BY <1>1, <1>2, <1>3 DEF FetchNext

\* However the runs of google_cse interleave and whatever their requests end in,
\* what is sent in a day exceeds the budget by less than one query per run and
\* the tries that failed: the check and the charge of fetch_raw.
THEOREM QuotaCorrect == FetchSpec => []QuotaOvershoot
<1>1. FetchInit => SentInv
  <2> SUFFICES ASSUME FetchInit PROVE SentInv
    OBVIOUS
  <2>1. InFlight = {}
    BY DEF FetchInit, InFlight, Querying, AtWork, NoRun
  <2>2. Cardinality(InFlight) = 0 /\ Rolled.count = 0
    BY <2>1, FS_EmptySet DEF FetchInit, Rolled
  <2> QED BY <2>2 DEF FetchInit, SentInv, NoTier
<1>2. FetchInv /\ FetchInv' /\ SentInv /\ [FetchNext]_fetchVars => SentInv'
  BY SentStep
<1>3. FetchInv /\ SentInv /\ Charged => QuotaOvershoot
  <2> SUFFICES ASSUME FetchInv, SentInv, Charged PROVE QuotaOvershoot
    OBVIOUS
  <2>1. /\ quota.count \in Nat /\ tier.sent \in Nat /\ tier.failed \in Nat /\ Budget \in Nat
        /\ Rolled.count \in Nat /\ Rolled.count <= quota.count
    BY FetchAssumption DEF FetchInv, Rolled
  <2> QED BY <2>1, InFlightFinite, QueryingFinite DEF SentInv, Charged, QuotaOvershoot
<1> QED BY <1>1, <1>2, <1>3, FetchInvariant, ChargedInvariant, PTL DEF FetchSpec
-----------------------------------------------------------------------------
(* The comments of a moving thread.                                        *)

\* A run r has every comment of its first n pages.
HasPages(r, n) ==
  \A i \in 1..Len(r.thread) : i <= n * PerPage /\ r.thread[i] # 0 => r.thread[i] \in r.got

\* What a run of hnhiring has while nothing was withdrawn: the pages before the
\* one it waits for; and all of them when it returns.
KeepsUp(r) ==
  r.adapter = "hnhiring" /\ ~r.shrunk =>
    /\ r.pc = "finding" => r.thread = <<>> /\ r.at = 0
    /\ r.pc = "fetching" => HasPages(r, r.at - 1)
    /\ r.pc = "returned" => HasPages(r, MaxPages)

PagesInv == \A c \in Callers : KeepsUp(run[c])

\* One page more.
LEMMA OnePageMore ==
  ASSUME NEW a \in Nat, a >= 1, NEW p \in Nat
  PROVE  (a - 1) * p \in Nat /\ a * p \in Nat /\ a * p = (a - 1) * p + p
<1>1. PICK b \in Nat : a = b + 1
  OBVIOUS
<1>2. (b + 1) * p = b * p + p /\ b * p \in Nat
  OBVIOUS
<1>3. a - 1 = b
  BY <1>1
<1> QED BY <1>1, <1>2, <1>3

\* The page a run waits for, index by index, and what a short one says.
LEMMA PageCovers ==
  ASSUME NEW r \in Runs, r.at >= 1
  PROVE  /\ \A i \in 1..Len(r.thread) :
              (r.at - 1) * PerPage < i /\ i <= r.at * PerPage /\ r.thread[i] # 0
                => r.thread[i] \in TopLevel(Hits(r))
         /\ Len(Hits(r)) < PerPage => Len(r.thread) <= r.at * PerPage
<1> DEFINE lo == (r.at - 1) * PerPage
           hi == r.at * PerPage
           n == IF hi < Len(r.thread) THEN hi ELSE Len(r.thread)
<1>1. r.thread \in Seq(Nat) /\ r.at \in Nat /\ PerPage \in Nat \ {0} /\ Len(r.thread) \in Nat
  BY FetchAssumption DEF Runs
<1>2. lo \in Nat /\ hi \in Nat /\ hi = lo + PerPage
  BY <1>1, OnePageMore
<1>3. Hits(r) = SubSeq(r.thread, lo + 1, n)
  BY DEF Hits
<1> HIDE DEF lo, hi
<1>4. n \in Nat /\ n <= Len(r.thread) /\ n <= hi
  BY <1>1, <1>2
<1>5. \A i \in lo + 1..n : r.thread[i] \in Nat
  BY <1>1, <1>2, <1>4
<1>6. /\ Len(Hits(r)) = IF lo + 1 <= n THEN n - (lo + 1) + 1 ELSE 0
      /\ Hits(r) \in Seq(Nat)
      /\ \A i \in 1..(n - (lo + 1) + 1) : Hits(r)[i] = r.thread[lo + 1 + i - 1]
  BY <1>1, <1>2, <1>3, <1>4, <1>5, SubSeqProperties
<1>7. ASSUME NEW i \in 1..Len(r.thread), lo < i, i <= hi, r.thread[i] # 0
      PROVE  r.thread[i] \in TopLevel(Hits(r))
  <2>1. i \in Nat /\ i <= n /\ i - lo \in 1..(n - (lo + 1) + 1) /\ lo + 1 <= n
    BY <1>1, <1>2, <1>4, <1>7
  <2>2. Hits(r)[i - lo] = r.thread[lo + 1 + (i - lo) - 1]
    BY <1>6, <2>1
  <2>3. lo + 1 + (i - lo) - 1 = i
    BY <1>2, <2>1
  <2>4. i - lo \in DOMAIN Hits(r)
    BY <1>2, <1>4, <1>6, <2>1
  <2> QED BY <1>7, <2>2, <2>3, <2>4 DEF TopLevel
<1>8. Len(Hits(r)) < PerPage => Len(r.thread) <= hi
  BY <1>1, <1>2, <1>6
<1> QED BY <1>7, <1>8 DEF lo, hi

\* With the page at hand a run has one page more; with a short one it has all.
LEMMA PageTaken ==
  ASSUME NEW r \in Runs, r.at >= 1, HasPages(r, r.at - 1),
         NEW z, z.thread = r.thread, z.got = r.got \cup TopLevel(Hits(r))
  PROVE  HasPages(z, r.at) /\ (Len(Hits(r)) < PerPage => HasPages(z, MaxPages))
<1>1. Len(r.thread) \in Nat /\ r.at * PerPage \in Int /\ (r.at - 1) * PerPage \in Int
  BY FetchAssumption DEF Runs
<1>2. ASSUME NEW i \in 1..Len(z.thread), i <= r.at * PerPage, z.thread[i] # 0
      PROVE  z.thread[i] \in z.got
  <2>1. CASE i <= (r.at - 1) * PerPage
    BY <1>2, <2>1 DEF HasPages
  <2>2. CASE (r.at - 1) * PerPage < i
    BY <1>2, <2>2, PageCovers
  <2> QED BY <1>1, <2>1, <2>2
<1>3. HasPages(z, r.at)
  BY <1>2 DEF HasPages
<1>4. ASSUME Len(Hits(r)) < PerPage, NEW i \in 1..Len(z.thread), z.thread[i] # 0
      PROVE  z.thread[i] \in z.got
  <2>1. i <= r.at * PerPage
    BY <1>1, <1>4, PageCovers
  <2> QED BY <1>2, <1>4, <2>1
<1> QED BY <1>3, <1>4 DEF HasPages

\* What comes late moves the comments back, never forward.
LEMMA InsertedZero ==
  ASSUME NEW t \in Seq(Nat), NEW i \in 1..Len(t) + 1
  PROVE  /\ Len(InsertAt(t, i, 0)) = Len(t) + 1
         /\ \A k \in 1..Len(t) + 1 : /\ k < i => InsertAt(t, i, 0)[k] = t[k]
                                     /\ k = i => InsertAt(t, i, 0)[k] = 0
                                     /\ k > i => InsertAt(t, i, 0)[k] = t[k - 1]
<1> DEFINE a == SubSeq(t, 1, i - 1)
           b == SubSeq(t, i, Len(t))
<1>1. Len(t) \in Nat /\ i \in Nat /\ i >= 1 /\ i <= Len(t) + 1
  OBVIOUS
<1>2. a \in Seq(Nat) /\ Len(a) = i - 1 /\ \A k \in 1..i - 1 : a[k] = t[k]
  <2>1. \A k \in 1..i - 1 : t[k] \in Nat
    BY <1>1
  <2>2. /\ a \in Seq(Nat) /\ Len(a) = (IF 1 <= i - 1 THEN (i - 1) - 1 + 1 ELSE 0)
        /\ \A k \in 1..((i - 1) - 1 + 1) : a[k] = t[1 + k - 1]
    BY <1>1, <2>1, SubSeqProperties
  <2> HIDE DEF a
  <2>3. Len(a) = i - 1
    <3>1. Len(a) = (IF 1 <= i - 1 THEN (i - 1) - 1 + 1 ELSE 0)
      BY <2>2
    <3> QED BY <1>1, <3>1
  <2>4. ASSUME NEW k \in 1..i - 1 PROVE a[k] = t[k]
    <3>1. k \in 1..((i - 1) - 1 + 1) /\ 1 + k - 1 = k
      BY <1>1
    <3>2. a[k] = t[1 + k - 1]
      BY <2>2, <3>1
    <3> QED BY <3>1, <3>2
  <2> QED BY <2>2, <2>3, <2>4
<1>3. /\ b \in Seq(Nat) /\ Len(b) = Len(t) - i + 1
      /\ \A k \in 1..(Len(t) - i + 1) : b[k] = t[i + k - 1]
  <2>1. \A k \in i..Len(t) : t[k] \in Nat
    BY <1>1
  <2>2. /\ b \in Seq(Nat) /\ Len(b) = (IF i <= Len(t) THEN Len(t) - i + 1 ELSE 0)
        /\ \A k \in 1..(Len(t) - i + 1) : b[k] = t[i + k - 1]
    BY <1>1, <2>1, SubSeqProperties
  <2> HIDE DEF b
  <2> QED BY <1>1, <2>2
<1>4. InsertAt(t, i, 0) = (a \o <<0>>) \o b
  BY DEF InsertAt
<1> HIDE DEF a, b
<1> DEFINE d == a \o <<0>>
<1>5. d \in Seq(Nat) /\ Len(d) = i /\ d[i] = 0 /\ \A k \in 1..i - 1 : d[k] = t[k]
  <2>1. <<0>> \in Seq(Nat) /\ Len(<<0>>) = 1 /\ <<0>>[1] = 0
    OBVIOUS
  <2>2. /\ d \in Seq(Nat) /\ Len(d) = Len(a) + 1
        /\ \A k \in 1..Len(a) + 1 : d[k] = IF k <= Len(a) THEN a[k] ELSE <<0>>[k - Len(a)]
    BY <1>2, <2>1, ConcatProperties
  <2> HIDE DEF d
  <2>3. d[i] = <<0>>[i - Len(a)] /\ i - Len(a) = 1
    BY <1>1, <1>2, <2>2
  <2>4. \A k \in 1..i - 1 : d[k] = a[k]
    BY <1>1, <1>2, <2>2
  <2> QED BY <1>1, <1>2, <2>1, <2>2, <2>3, <2>4
<1> HIDE DEF d
<1>6. /\ Len(d \o b) = Len(d) + Len(b)
      /\ \A k \in 1..Len(d) + Len(b) : (d \o b)[k] = IF k <= Len(d) THEN d[k] ELSE b[k - Len(d)]
  <2>1. d \in Seq(Nat) /\ b \in Seq(Nat)
    BY <1>3, <1>5
  <2> QED BY <2>1, ConcatProperties
<1>7. Len(d) + Len(b) = Len(t) + 1
  BY <1>1, <1>3, <1>5
<1>8. InsertAt(t, i, 0) = d \o b
  BY <1>4 DEF d
<1> DEFINE e == d \o b
<1>9. /\ Len(e) = Len(t) + 1
      /\ \A k \in 1..Len(t) + 1 : e[k] = IF k <= i THEN d[k] ELSE b[k - i]
  BY <1>5, <1>6, <1>7
<1>10. InsertAt(t, i, 0) = e
  BY <1>8
<1> HIDE DEF e
<1>11. ASSUME NEW k \in 1..Len(t) + 1, k < i PROVE e[k] = t[k]
  <2>1. e[k] = d[k]
    BY <1>1, <1>9, <1>11
  <2>2. k \in 1..i - 1
    BY <1>1, <1>11
  <2> QED BY <1>5, <2>1, <2>2
<1>12. ASSUME NEW k \in 1..Len(t) + 1, k = i PROVE e[k] = 0
  <2>1. e[k] = d[k]
    BY <1>1, <1>9, <1>12
  <2> QED BY <1>5, <1>12, <2>1
<1>13. ASSUME NEW k \in 1..Len(t) + 1, k > i PROVE e[k] = t[k - 1]
  <2>1. e[k] = b[k - i]
    BY <1>1, <1>9, <1>13
  <2>2. k - i \in 1..(Len(t) - i + 1) /\ i + (k - i) - 1 = k - 1
    BY <1>1, <1>13
  <2>3. b[k - i] = t[i + (k - i) - 1]
    BY <1>3, <2>2
  <2> QED BY <2>1, <2>2, <2>3
<1> QED BY <1>9, <1>10, <1>11, <1>12, <1>13

LEMMA InsertKeepsUp ==
  ASSUME NEW r \in Runs, NEW n, n * PerPage \in Int, HasPages(r, n),
         NEW i \in 1..Len(r.thread) + 1,
         NEW z, z.thread = InsertAt(r.thread, i, 0), z.got = r.got
  PROVE  HasPages(z, n)
<1>1. r.thread \in Seq(Nat) /\ Len(r.thread) \in Nat
  BY DEF Runs
<1>2. ASSUME NEW k \in 1..Len(z.thread), k <= n * PerPage, z.thread[k] # 0
      PROVE  z.thread[k] \in z.got
  <2>1. k \in 1..Len(r.thread) + 1 /\ k # i
    BY <1>1, <1>2, InsertedZero
  <2>2. CASE k < i
    <3>1. z.thread[k] = r.thread[k]
      BY <1>1, <2>1, <2>2, InsertedZero
    <3>2. k \in 1..Len(r.thread)
      BY <1>1, <2>1, <2>2
    <3> QED BY <1>2, <3>1, <3>2 DEF HasPages
  <2>3. CASE k > i
    <3>1. z.thread[k] = r.thread[k - 1]
      BY <1>1, <2>1, <2>3, InsertedZero
    <3> DEFINE m == n * PerPage
    <3>2. m \in Int /\ k <= m
      BY <1>2
    <3> HIDE DEF m
    <3>3. k - 1 \in 1..Len(r.thread) /\ k - 1 <= m
      BY <1>1, <2>1, <2>3, <3>2
    <3>4. k - 1 <= n * PerPage
      BY <3>3 DEF m
    <3> QED BY <1>2, <3>1, <3>3, <3>4 DEF HasPages
  <2> QED BY <2>1, <2>2, <2>3
<1> QED BY <1>2 DEF HasPages

\* After a page: the run returns with all of them, or waits for the next one.
LEMMA NextPageKeepsUp ==
  ASSUME NEW c \in Callers, run \in [Callers -> Runs], NEW r \in Runs, r.adapter = "hnhiring",
         r.pc = "fetching", NextPage(c, r), r.shrunk \/ HasPages(r, r.at)
  PROVE  KeepsUp(run'[c])
<1>1. CASE r.at = MaxPages
  <2> DEFINE y == [r EXCEPT !.pc = "returned"]
  <2>1. y.pc = "returned" /\ y.thread = r.thread /\ y.got = r.got /\ y.shrunk = r.shrunk
    BY DEF Runs
  <2>2. run'[c] = y
    BY <1>1 DEF NextPage, Return
  <2> HIDE DEF y
  <2> QED BY <1>1, <2>1, <2>2 DEF KeepsUp, HasPages
<1>2. CASE r.at # MaxPages
  <2> DEFINE y == [r EXCEPT !.at = @ + 1]
  <2>1. y.pc = "fetching" /\ y.thread = r.thread /\ y.got = r.got /\ y.shrunk = r.shrunk
        /\ y.at - 1 = r.at
    BY DEF Runs
  <2>2. run'[c] = y
    BY <1>2 DEF NextPage
  <2> HIDE DEF y
  <2> QED BY <2>1, <2>2 DEF KeepsUp, HasPages
<1> QED BY <1>1, <1>2

\* A run that raises promises nothing.
LEMMA RaiseKeepsUp ==
  ASSUME NEW c \in Callers, run \in [Callers -> Runs], Raise(c)
  PROVE  KeepsUp(run'[c])
<1> DEFINE y == [run[c] EXCEPT !.pc = "raised"]
<1>1. y.pc = "raised" /\ run'[c] = y
  BY DEF Raise, Runs
<1> HIDE DEF y
<1> QED BY <1>1 DEF KeepsUp

LEMMA FindKeepsUp ==
  ASSUME FetchInv, NEW c \in Callers, KeepsUp(run[c]), FindLatestThread(c)
  PROVE  KeepsUp(run'[c])
<1>1. /\ run[c] \in Runs /\ run \in [Callers -> Runs] /\ run[c].pc = "finding"
      /\ run[c].adapter = "hnhiring"
  BY DEF FindLatestThread, FetchInv, GoodRun
<1>2. CASE Raise(c)
  BY <1>1, <1>2, RaiseKeepsUp
<1>3. CASE Return(c, run[c])
  <2> DEFINE y == [run[c] EXCEPT !.pc = "returned"]
  <2>1. y.pc = "returned" /\ y.thread = run[c].thread /\ y.shrunk = run[c].shrunk /\ run'[c] = y
    BY <1>1, <1>3 DEF Return, Runs
  <2> HIDE DEF y
  <2>2. ~y.shrunk => Len(y.thread) = 0
    BY <1>1, <2>1 DEF KeepsUp
  <2> QED BY <2>1, <2>2 DEF KeepsUp, HasPages
<1>4. ASSUME NEW t \in Threads, NextPage(c, [run[c] EXCEPT !.pc = "fetching", !.thread = t])
      PROVE  KeepsUp(run'[c])
  <2> DEFINE x == [run[c] EXCEPT !.pc = "fetching"]
             z == [x EXCEPT !.thread = t]
  <2>1. x \in Runs /\ x.pc = "fetching" /\ x.adapter = "hnhiring"
        /\ x.at = run[c].at /\ x.shrunk = run[c].shrunk
    BY <1>1 DEF Runs
  <2>2. [run[c] EXCEPT !.pc = "fetching", !.thread = t] = z
    OBVIOUS
  <2> HIDE DEF x
  <2>3. z \in Runs /\ z.pc = "fetching" /\ z.adapter = "hnhiring"
        /\ z.at = run[c].at /\ z.shrunk = run[c].shrunk
    BY <2>1, FetchAssumption DEF Runs
  <2> HIDE DEF z
  <2>4. NextPage(c, z)
    BY <1>4, <2>2
  <2>5. z.shrunk \/ HasPages(z, z.at)
    <3>1. ASSUME ~z.shrunk PROVE z.at * PerPage = 0
      <4>1. z.at = 0
        BY <1>1, <2>3, <3>1 DEF KeepsUp
      <4> QED BY <4>1, FetchAssumption
    <3> QED BY <3>1 DEF HasPages
  <2> QED BY <1>1, <2>3, <2>4, <2>5, NextPageKeepsUp
<1> QED BY <1>2, <1>3, <1>4 DEF FindLatestThread

LEMMA CommentsKeepUp ==
  ASSUME FetchInv, NEW c \in Callers, KeepsUp(run[c]), TopLevelComments(c)
  PROVE  KeepsUp(run'[c])
<1> DEFINE hits == Hits(run[c])
           z == [run[c] EXCEPT !.got = @ \cup TopLevel(hits)]
<1>1. /\ run[c] \in Runs /\ run \in [Callers -> Runs] /\ run[c].pc = "fetching"
      /\ run[c].adapter = "hnhiring" /\ run[c].at >= 1
  BY DEF TopLevelComments, AtWork, FetchInv, GoodRun
<1>2. CASE Raise(c)
  BY <1>1, <1>2, RaiseKeepsUp
<1>3. CASE IF Len(hits) < PerPage THEN Return(c, z) ELSE NextPage(c, z)
  <2>1. /\ z.thread = run[c].thread /\ z.got = run[c].got \cup TopLevel(hits)
        /\ z.shrunk = run[c].shrunk /\ z.pc = "fetching" /\ z.adapter = "hnhiring"
        /\ z.at = run[c].at
    BY <1>1 DEF Runs
  <2>2. z \in Runs
    <3>1. TopLevel(hits) \in SUBSET Nat
      BY <1>1, PageOfThread
    <3>2. run[c].got \cup TopLevel(hits) \in SUBSET Nat
      BY <1>1, <3>1 DEF Runs
    <3> QED BY <1>1, <3>2 DEF Runs
  <2> HIDE DEF z
  <2>3. ASSUME ~z.shrunk
        PROVE  HasPages(z, z.at) /\ (Len(hits) < PerPage => HasPages(z, MaxPages))
    <3>1. HasPages(run[c], run[c].at - 1)
      BY <1>1, <2>1, <2>3 DEF KeepsUp
    <3> QED BY <1>1, <2>1, <3>1, PageTaken
  <2>4. CASE Len(hits) < PerPage
    <3> DEFINE y == [z EXCEPT !.pc = "returned"]
    <3>1. y.pc = "returned" /\ y.thread = z.thread /\ y.got = z.got /\ y.shrunk = z.shrunk
      BY <2>2 DEF Runs
    <3>2. run'[c] = y
      BY <1>1, <1>3, <2>4 DEF Return
    <3> HIDE DEF y
    <3> QED BY <2>3, <2>4, <3>1, <3>2 DEF KeepsUp, HasPages
  <2>5. CASE ~(Len(hits) < PerPage)
    <3>1. NextPage(c, z) /\ (z.shrunk \/ HasPages(z, z.at))
      BY <1>3, <2>3, <2>5
    <3> QED BY <1>1, <2>1, <2>2, <3>1, NextPageKeepsUp
  <2> QED BY <2>4, <2>5
<1> QED BY <1>2, <1>3 DEF TopLevelComments

LEMMA MovesKeepUp ==
  ASSUME FetchInv, NEW c \in Callers, KeepsUp(run[c]), ThreadMoves(c)
  PROVE  KeepsUp(run'[c])
<1> DEFINE t == run[c].thread
<1>1. /\ run[c] \in Runs /\ run \in [Callers -> Runs] /\ run[c].pc = "fetching"
      /\ run[c].adapter = "hnhiring" /\ run[c].at >= 1
  BY DEF ThreadMoves, AtWork, FetchInv, GoodRun
<1>2. ASSUME NEW i \in 1..Len(t) + 1, run' = [run EXCEPT ![c].thread = InsertAt(t, i, 0)]
      PROVE  KeepsUp(run'[c])
  <2> DEFINE y == [run[c] EXCEPT !.thread = InsertAt(t, i, 0)]
  <2>1. /\ y.thread = InsertAt(t, i, 0) /\ y.got = run[c].got /\ y.shrunk = run[c].shrunk
        /\ y.pc = "fetching" /\ y.at = run[c].at /\ run'[c] = y
    BY <1>1, <1>2 DEF Runs
  <2> HIDE DEF y
  <2>2. (run[c].at - 1) * PerPage \in Int
    BY <1>1, FetchAssumption, OnePageMore DEF Runs
  <2>3. ASSUME ~y.shrunk PROVE HasPages(y, y.at - 1)
    <3>1. HasPages(run[c], run[c].at - 1)
      BY <1>1, <2>1, <2>3 DEF KeepsUp
    <3> QED BY <1>1, <1>2, <2>1, <2>2, <3>1, InsertKeepsUp
  <2> QED BY <2>1, <2>3 DEF KeepsUp
<1>3. ASSUME NEW i \in 1..Len(t),
             run' = [run EXCEPT ![c].thread = RemoveAt(t, i), ![c].shrunk = TRUE]
      PROVE  KeepsUp(run'[c])
  <2> DEFINE x == [run[c] EXCEPT !.thread = RemoveAt(t, i)]
             y == [x EXCEPT !.shrunk = TRUE]
  <2>1. run'[c] = y
    BY <1>1, <1>3
  <2>2. y.shrunk
    BY <1>1 DEF Runs
  <2> HIDE DEF y
  <2> QED BY <2>1, <2>2 DEF KeepsUp
<1> QED BY <1>2, <1>3 DEF ThreadMoves

\* A run that begins has no page and wants the first.
LEMMA BeginKeepsUp ==
  ASSUME FetchInv, NEW c \in Callers, Begin(c, "hnhiring")
  PROVE  KeepsUp(run'[c])
<1> DEFINE fresh(n) == [NoRun EXCEPT !.pc = "fetching", !.adapter = "hnhiring", !.plan = n]
<1>1. PICK n \in Plans("hnhiring") : run' = [run EXCEPT ![c] = [fresh(n) EXCEPT !.pc = "finding"]]
  BY DEF Begin
<1> DEFINE y == [fresh(n) EXCEPT !.pc = "finding"]
<1>2. run'[c] = y
  BY <1>1 DEF FetchInv
<1>3. y.pc = "finding" /\ y.thread = <<>> /\ y.at = 0
  BY DEF NoRun
<1> HIDE DEF y
<1> QED BY <1>2, <1>3 DEF KeepsUp

LEMMA PagesStep ==
  ASSUME FetchInv, PagesInv, [FetchNext]_fetchVars
  PROVE  PagesInv'
<1>0. SUFFICES ASSUME NEW d \in Callers PROVE KeepsUp(run'[d])
  BY DEF PagesInv, KeepsUp, HasPages
<1>1. KeepsUp(run[d]) /\ run \in [Callers -> Runs]
  BY DEF PagesInv, FetchInv
<1>2. CASE UNCHANGED fetchVars \/ Midnight
  BY <1>1, <1>2 DEF fetchVars, Midnight
<1>3. ASSUME NEW c \in Callers, Step(c) PROVE KeepsUp(run'[d])
  <2>1. PICK y : Makes(c, y)
    BY <1>3, StepMakes
  <2>2. run' = [run EXCEPT ![c] = y] /\ run'[c] = y
    BY <1>1, <2>1 DEF Makes
  <2>3. CASE d # c
    BY <1>1, <2>2, <2>3
  <2>4. CASE d = c
    <3>1. CASE CallStep(c) /\ UNCHANGED <<run, quota>>
      BY <1>1, <2>4, <3>1
    <3>2. CASE Answer(c)
      <4>1. run[c].adapter # "hnhiring" /\ Busy(c)
        BY <3>2, AnswerCases DEF Busy
      <4> QED BY <2>1, <2>2, <2>4, <4>1 DEF Makes, KeepsUp
    <3>3. CASE FindLatestThread(c)
      BY <1>1, <2>4, <3>3, FindKeepsUp
    <3>4. CASE TopLevelComments(c)
      BY <1>1, <2>4, <3>4, CommentsKeepUp
    <3>5. ASSUME NEW a \in Adapters, Begin(c, a) PROVE KeepsUp(run'[d])
      <4>1. CASE a = "hnhiring"
        BY <2>4, <3>5, <4>1, BeginKeepsUp
      <4>2. CASE a # "hnhiring"
        <5>1. PICK z : Makes(c, z) /\ z.adapter = a
          BY <3>5, BeginMakes
        <5>2. run'[c] = z
          BY <1>1, <5>1 DEF Makes
        <5> QED BY <2>4, <4>2, <5>1, <5>2 DEF KeepsUp
      <4> QED BY <4>1, <4>2
    <3>6. CASE Leave(c)
      <4>1. run'[c] = NoRun
        BY <1>1, <3>6 DEF Leave
      <4> QED BY <2>4, <4>1 DEF KeepsUp, NoRun
    <3>7. CASE ThreadMoves(c)
      BY <1>1, <2>4, <3>7, MovesKeepUp
    <3> QED BY <1>3, <3>1, <3>2, <3>3, <3>4, <3>5, <3>6, <3>7 DEF Step, Proceed, Answer
  <2> QED BY <2>3, <2>4
<1> QED BY <1>2, <1>3 DEF FetchNext

\* However a thread grows while TopLevelComments pages through it, no comment
\* that was there at the start is missed, unless one in front was withdrawn or
\* the thread outgrew the pages.
THEOREM CommentsCorrect == FetchSpec => []NoCommentMissed
<1>1. FetchInit => PagesInv
  BY DEF FetchInit, PagesInv, KeepsUp, NoRun
<1>2. FetchInv /\ PagesInv => NoCommentMissed
  <2> SUFFICES ASSUME FetchInv, PagesInv, NEW c \in Callers, run[c].adapter = "hnhiring",
                      run[c].pc = "returned", ~run[c].shrunk,
                      Len(run[c].thread) <= MaxPages * PerPage,
                      NEW x \in TopLevel(run[c].thread)
               PROVE  x \in run[c].got
    BY DEF NoCommentMissed
  <2>1. /\ HasPages(run[c], MaxPages) /\ run[c].thread \in Seq(Nat)
        /\ MaxPages * PerPage \in Int /\ Len(run[c].thread) \in Nat
    BY FetchAssumption DEF PagesInv, KeepsUp, FetchInv, Runs
  <2>2. PICK i \in 1..Len(run[c].thread) : x = run[c].thread[i] /\ x # 0
    BY <2>1 DEF TopLevel
  <2>3. i <= MaxPages * PerPage
    BY <2>1
  <2> QED BY <2>1, <2>2, <2>3 DEF HasPages
<1> QED BY <1>1, <1>2, FetchInvariant, PagesStep, PTL DEF FetchSpec
-----------------------------------------------------------------------------
(* The retry loop implements HttpRequest.                                  *)

\* With tries the wait table covers, no request ends with another failure.
Ended(x) == x.pc = "done" => x.outcome \in Request!Final \cup Request!GaveUp
AllEnd == \A c \in Callers : Ended(call[c])

\* What the promise says of a request x.
PhaseOf(x) == IF x.pc = "done" THEN x.outcome ELSE IF x.pc = "idle" THEN "idle" ELSE "open"
AnsweredOf(x) == IF x.pc = "sent" THEN x.attempt - 1 ELSE x.attempt

PhaseMap == [c \in Callers |-> Phase(c)]
AnsweredMap == [c \in Callers |-> Answered(c)]

\* A request that becomes x changes its own entry and no other.
LEMMA MapUpdate ==
  ASSUME NEW c \in Callers, NEW x, call \in [Callers -> Calls], call' = [call EXCEPT ![c] = x]
  PROVE  /\ PhaseMap' = [PhaseMap EXCEPT ![c] = PhaseOf(x)]
         /\ AnsweredMap' = [AnsweredMap EXCEPT ![c] = AnsweredOf(x)]
         /\ PhaseMap[c] = PhaseOf(call[c]) /\ AnsweredMap[c] = AnsweredOf(call[c])
         /\ PhaseMap = [PhaseMap EXCEPT ![c] = PhaseMap[c]]
         /\ AnsweredMap = [AnsweredMap EXCEPT ![c] = AnsweredMap[c]]
<1>1. call'[c] = x /\ \A d \in Callers \ {c} : call'[d] = call[d]
  OBVIOUS
<1>2. \A d \in Callers : /\ Phase(d) = PhaseOf(call[d]) /\ Answered(d) = AnsweredOf(call[d])
                         /\ Phase(d)' = PhaseOf(call'[d]) /\ Answered(d)' = AnsweredOf(call'[d])
  BY DEF Phase, Answered, PhaseOf, AnsweredOf
<1>3. /\ PhaseMap' = [d \in Callers |-> PhaseOf(call'[d])]
      /\ PhaseMap = [d \in Callers |-> PhaseOf(call[d])]
  BY <1>2 DEF PhaseMap
<1>4. /\ AnsweredMap' = [d \in Callers |-> AnsweredOf(call'[d])]
      /\ AnsweredMap = [d \in Callers |-> AnsweredOf(call[d])]
  BY <1>2 DEF AnsweredMap
<1> HIDE DEF PhaseOf, AnsweredOf
<1> QED BY <1>1, <1>3, <1>4

\* A request that ends is a Close, one that is tried again a Miss.
LEMMA FinishCloses ==
  ASSUME CallInv, NEW c \in Callers, call[c].pc = "sent",
         NEW o \in Request!Final \cup Request!GaveUp, Finish(c, o),
         o \in Request!Final \/ call[c].attempt = MaxRetries
  PROVE  Request!Next /\ (AllEnd => AllEnd')
<1> DEFINE x == [call[c] EXCEPT !.pc = "done", !.slept = 0, !.outcome = o]
<1>0. call[c] \in Calls /\ call[c].attempt \in 1..MaxRetries /\ MaxRetries \in Nat
  BY RetryAssumption DEF CallInv, GoodCall, Calls
<1>1. x.pc = "done" /\ x.outcome = o /\ x.attempt = call[c].attempt
  BY <1>0 DEF Calls
<1>2. call' = [call EXCEPT ![c] = x] /\ call \in [Callers -> Calls]
  BY DEF Finish, CallInv, Calls
<1> HIDE DEF x
<1>3. /\ PhaseMap' = [PhaseMap EXCEPT ![c] = PhaseOf(x)]
      /\ AnsweredMap' = [AnsweredMap EXCEPT ![c] = AnsweredOf(x)]
      /\ PhaseMap[c] = PhaseOf(call[c]) /\ AnsweredMap[c] = AnsweredOf(call[c])
  BY <1>2, MapUpdate
<1>4. PhaseOf(x) = o /\ AnsweredOf(x) = call[c].attempt
      /\ PhaseMap[c] = "open" /\ AnsweredMap[c] = call[c].attempt - 1
  BY <1>1, <1>3 DEF PhaseOf, AnsweredOf
<1>5. AnsweredMap' = [AnsweredMap EXCEPT ![c] = AnsweredMap[c] + 1]
  <2>1. AnsweredMap[c] + 1 = AnsweredOf(x)
    BY <1>0, <1>4
  <2> QED BY <1>3, <2>1
<1>6. AnsweredMap[c] < MaxRetries /\ (call[c].attempt = MaxRetries => AnsweredMap[c] + 1 = MaxRetries)
  BY <1>0, <1>4
<1>7. Request!Close(c)
  BY <1>3, <1>4, <1>5, <1>6 DEF Request!Close, PhaseMap, AnsweredMap
<1>8. AllEnd => AllEnd'
  <2>1. Ended(x)
    BY <1>1 DEF Ended
  <2> QED BY <1>2, <2>1 DEF AllEnd, Ended
<1> QED BY <1>7, <1>8 DEF Request!Next

LEMMA SleepMisses ==
  ASSUME CallInv, NEW c \in Callers, call[c].pc = "sent", call[c].attempt < MaxRetries,
         NEW w, Sleep(c, w)
  PROVE  Request!Next /\ (AllEnd => AllEnd')
<1> DEFINE x == [call[c] EXCEPT !.pc = "asleep", !.slept = @ + w]
<1>0. call[c] \in Calls /\ call[c].attempt \in 1..MaxRetries /\ MaxRetries \in Nat
  BY RetryAssumption DEF CallInv, GoodCall, Calls
<1>1. x.pc = "asleep" /\ x.attempt = call[c].attempt
  BY <1>0 DEF Calls
<1>2. call' = [call EXCEPT ![c] = x] /\ call \in [Callers -> Calls]
  BY DEF Sleep, CallInv, Calls
<1> HIDE DEF x
<1>3. /\ PhaseMap' = [PhaseMap EXCEPT ![c] = PhaseOf(x)]
      /\ AnsweredMap' = [AnsweredMap EXCEPT ![c] = AnsweredOf(x)]
      /\ PhaseMap[c] = PhaseOf(call[c]) /\ AnsweredMap[c] = AnsweredOf(call[c])
      /\ PhaseMap = [PhaseMap EXCEPT ![c] = PhaseMap[c]]
  BY <1>2, MapUpdate
<1>4. PhaseOf(x) = "open" /\ AnsweredOf(x) = call[c].attempt
      /\ PhaseMap[c] = "open" /\ AnsweredMap[c] = call[c].attempt - 1
  BY <1>1, <1>3 DEF PhaseOf, AnsweredOf
<1>5. /\ AnsweredMap' = [AnsweredMap EXCEPT ![c] = AnsweredMap[c] + 1] /\ PhaseMap' = PhaseMap
      /\ AnsweredMap[c] + 1 < MaxRetries
  <2>1. AnsweredMap[c] + 1 = AnsweredOf(x) /\ AnsweredMap[c] + 1 < MaxRetries
    BY <1>0, <1>4
  <2>2. PhaseOf(x) = PhaseMap[c]
    BY <1>4
  <2> QED BY <1>3, <2>1, <2>2
<1>6. Request!Miss(c)
  BY <1>4, <1>5 DEF Request!Miss, PhaseMap, AnsweredMap
<1>7. AllEnd => AllEnd'
  <2>1. Ended(x)
    BY <1>1 DEF Ended
  <2> QED BY <1>2, <2>1 DEF AllEnd, Ended
<1> QED BY <1>6, <1>7 DEF Request!Next
\* Sleeping over and waking changes nothing the promise sees.
LEMMA WakeStutters ==
  ASSUME CallInv, NEW c \in Callers, Wake(c)
  PROVE  UNCHANGED <<PhaseMap, AnsweredMap>> /\ (AllEnd => AllEnd')
<1> DEFINE x == [call[c] EXCEPT !.pc = "sent", !.attempt = @ + 1]
<1>0. call[c] \in Calls /\ call[c].attempt \in Nat /\ call[c].pc = "asleep"
  BY RetryAssumption DEF CallInv, Wake, Calls
<1>1. x.pc = "sent" /\ x.attempt = call[c].attempt + 1
  BY <1>0 DEF Calls
<1>2. call' = [call EXCEPT ![c] = x] /\ call \in [Callers -> Calls]
  BY DEF Wake, CallInv, Calls
<1> HIDE DEF x
<1>3. /\ PhaseMap' = [PhaseMap EXCEPT ![c] = PhaseOf(x)]
      /\ AnsweredMap' = [AnsweredMap EXCEPT ![c] = AnsweredOf(x)]
      /\ PhaseMap[c] = PhaseOf(call[c]) /\ AnsweredMap[c] = AnsweredOf(call[c])
      /\ PhaseMap = [PhaseMap EXCEPT ![c] = PhaseMap[c]]
      /\ AnsweredMap = [AnsweredMap EXCEPT ![c] = AnsweredMap[c]]
  BY <1>2, MapUpdate
<1>4. PhaseOf(x) = PhaseOf(call[c]) /\ AnsweredOf(x) = AnsweredOf(call[c])
  BY <1>0, <1>1 DEF PhaseOf, AnsweredOf
<1>5. AllEnd => AllEnd'
  <2>1. Ended(x)
    BY <1>1 DEF Ended
  <2> QED BY <1>2, <2>1 DEF AllEnd, Ended
<1> QED BY <1>3, <1>4, <1>5

\* Taking an answer forgets the request, and beginning one opens it.
LEMMA EndForgets ==
  ASSUME CallInv, AllEnd, NEW c \in Callers, call[c].pc \in {"idle", "done"}, EndCall(c)
  PROVE  (Request!Next \/ UNCHANGED <<PhaseMap, AnsweredMap>>) /\ AllEnd'
<1>1. call' = [call EXCEPT ![c] = NoCall] /\ call \in [Callers -> Calls] /\ GoodCall(call[c])
  BY DEF EndCall, CallInv
<1>2. /\ PhaseMap' = [PhaseMap EXCEPT ![c] = PhaseOf(NoCall)]
      /\ AnsweredMap' = [AnsweredMap EXCEPT ![c] = AnsweredOf(NoCall)]
      /\ PhaseMap[c] = PhaseOf(call[c]) /\ AnsweredMap[c] = AnsweredOf(call[c])
      /\ PhaseMap = [PhaseMap EXCEPT ![c] = PhaseMap[c]]
      /\ AnsweredMap = [AnsweredMap EXCEPT ![c] = AnsweredMap[c]]
  BY <1>1, MapUpdate
<1>3. PhaseOf(NoCall) = "idle" /\ AnsweredOf(NoCall) = 0
  BY DEF PhaseOf, AnsweredOf, NoCall
<1>4. AllEnd'
  <2>1. Ended(NoCall)
    BY DEF Ended, NoCall
  <2> QED BY <1>1, <2>1 DEF AllEnd, Ended
<1>5. CASE call[c].pc = "idle"
  <2>1. call[c] = NoCall
    BY <1>1, <1>5 DEF GoodCall
  <2> QED BY <1>2, <1>4, <2>1
<1>6. CASE call[c].pc = "done"
  <2>1. PhaseMap[c] \in Request!Final \cup Request!GaveUp
    BY <1>2, <1>6 DEF PhaseOf, AllEnd, Ended
  <2>2. Request!Forget(c)
    BY <1>2, <1>3, <2>1 DEF Request!Forget, PhaseMap, AnsweredMap
  <2> QED BY <1>4, <2>2 DEF Request!Next
<1> QED BY <1>5, <1>6

LEMMA BeginOpens ==
  ASSUME CallInv, AllEnd, MaxRetries \in Nat \ {0}, NEW c \in Callers,
         call[c].pc \in {"idle", "done"}, BeginCall(c)
  PROVE  Request!Next /\ AllEnd'
<1> DEFINE x == [NoCall EXCEPT !.pc = "sent", !.attempt = 1]
<1>1. x.pc = "sent" /\ x.attempt = 1
  BY DEF NoCall
<1>2. call' = [call EXCEPT ![c] = x] /\ call \in [Callers -> Calls]
  BY DEF BeginCall, CallInv
<1> HIDE DEF x
<1>3. /\ PhaseMap' = [PhaseMap EXCEPT ![c] = PhaseOf(x)]
      /\ AnsweredMap' = [AnsweredMap EXCEPT ![c] = AnsweredOf(x)]
      /\ PhaseMap[c] = PhaseOf(call[c])
  BY <1>2, MapUpdate
<1>4. PhaseOf(x) = "open" /\ AnsweredOf(x) = 0
  BY <1>1 DEF PhaseOf, AnsweredOf
<1>5. PhaseMap[c] # "open"
  BY <1>3 DEF PhaseOf, AllEnd, Ended, Request!Final, Request!GaveUp
<1>6. Request!Open(c)
  BY <1>3, <1>4, <1>5 DEF Request!Open, PhaseMap, AnsweredMap
<1>7. Ended(x)
  BY <1>1 DEF Ended
<1> QED BY <1>2, <1>6, <1>7 DEF Request!Next, AllEnd, Ended

\* Each change of a request is a step of the promise or none.
LEMMA CallStepImplements ==
  ASSUME CallInv, AllEnd, MaxRetries \in 1..4, NEW c \in Callers, CallStep(c)
  PROVE  (Request!Next \/ UNCHANGED <<PhaseMap, AnsweredMap>>) /\ AllEnd'
<1>0. /\ call[c].pc = "sent" => call[c].attempt \in 1..MaxRetries
      /\ call[c].attempt \in 0..MaxRetries
  BY DEF CallInv, GoodCall, Calls
<1>1. ASSUME call[c].pc = "sent", NEW o \in {"ok", "raw", "permanent"}, Finish(c, o)
      PROVE  Request!Next /\ AllEnd'
  <2>1. o \in Request!Final /\ o \in Request!Final \cup Request!GaveUp
    BY DEF Request!Final
  <2> QED BY <1>1, <2>1, FinishCloses
<1>2. CASE Succeed(c) \/ Escape(c) \/ ClientError(c)
  BY <1>1, <1>2 DEF Succeed, Escape, ClientError
<1>3. ASSUME call[c].pc = "sent", LastTry(c), NEW o \in {"transient", "rate_limited"}, Finish(c, o)
      PROVE  Request!Next /\ AllEnd'
  <2>1. call[c].attempt = MaxRetries /\ o \in Request!Final \cup Request!GaveUp
    BY <1>0, <1>3 DEF LastTry, Request!GaveUp
  <2> QED BY <1>3, <2>1, FinishCloses
<1>4. ASSUME call[c].pc = "sent", ~LastTry(c), NEW w, Sleep(c, w)
      PROVE  Request!Next /\ AllEnd'
  <2>1. call[c].attempt < MaxRetries
    BY <1>0, <1>4 DEF LastTry
  <2> QED BY <1>4, <2>1, SleepMisses
<1>5. ASSUME call[c].pc = "sent", ~LastTry(c), Backoff(c)
      PROVE  Request!Next /\ AllEnd'
  <2>1. call[c].attempt <= Len(wait_times)
    BY <1>0, <1>5 DEF LastTry, wait_times
  <2> QED BY <1>4, <1>5, <2>1 DEF Backoff
<1>6. CASE TooManyRequests(c)
  BY <1>3, <1>4, <1>5, <1>6 DEF TooManyRequests
<1>7. CASE Unavailable(c)
  BY <1>3, <1>5, <1>7 DEF Unavailable
<1>8. CASE Wake(c)
  BY <1>8, WakeStutters
<1> QED BY <1>2, <1>6, <1>7, <1>8 DEF CallStep

LEMMA CallChangeImplements ==
  ASSUME CallInv, AllEnd, MaxRetries \in 1..4, CallChange
  PROVE  (Request!Next \/ UNCHANGED <<PhaseMap, AnsweredMap>>) /\ AllEnd'
<1>1. CASE UNCHANGED call
  BY <1>1 DEF AllEnd, Ended, PhaseMap, AnsweredMap, Phase, Answered
<1>2. ASSUME NEW c \in Callers, CallStep(c)
      PROVE  (Request!Next \/ UNCHANGED <<PhaseMap, AnsweredMap>>) /\ AllEnd'
  BY <1>2, CallStepImplements
<1>3. ASSUME NEW c \in Callers, call[c].pc \in {"idle", "done"}, EndCall(c)
      PROVE  (Request!Next \/ UNCHANGED <<PhaseMap, AnsweredMap>>) /\ AllEnd'
  BY <1>3, EndForgets
<1>4. ASSUME NEW c \in Callers, call[c].pc \in {"idle", "done"}, BeginCall(c)
      PROVE  Request!Next /\ AllEnd'
  BY <1>4, BeginOpens
<1> QED BY <1>1, <1>2, <1>3, <1>4 DEF CallChange

\* With one to four tries, which the wait table covers, the retry loop of
\* HttpFetcher._fetch is the bounded retry its callers rely on.
THEOREM RequestCorrect ==
  ASSUME MaxRetries \in 1..4 PROVE FetchSpec => ImplementsRequest
<1>1. FetchInit => AllEnd /\ Request!Init
  BY DEF FetchInit, InitCalls, AllEnd, Ended, NoCall, Request!Init, Phase, Answered
<1>2. FetchInv /\ AllEnd /\ [FetchNext]_fetchVars => AllEnd' /\ [Request!Next]_Request!vars
  <2> SUFFICES ASSUME FetchInv, AllEnd, [FetchNext]_fetchVars
               PROVE  AllEnd' /\ [Request!Next]_Request!vars
    OBVIOUS
  <2>1. CallChange
    <3>1. CASE UNCHANGED fetchVars
      BY <3>1 DEF fetchVars, CallChange
    <3>2. CASE Midnight
      BY <3>2 DEF Midnight, CallChange
    <3>3. ASSUME NEW c \in Callers, Step(c) PROVE CallChange
      BY <3>3, StepMakes DEF Makes
    <3> QED BY <3>1, <3>2, <3>3 DEF FetchNext
  <2>2. (Request!Next \/ UNCHANGED <<PhaseMap, AnsweredMap>>) /\ AllEnd'
    BY <2>1, CallChangeImplements DEF FetchInv
  <2> QED BY <2>2 DEF Request!vars, PhaseMap, AnsweredMap
<1> QED BY <1>1, <1>2, FetchInvariant, PTL DEF FetchSpec, ImplementsRequest, Request!Spec
=============================================================================
