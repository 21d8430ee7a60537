----------------------------- MODULE SourceFetch -----------------------------
(***************************************************************************)
(* SourceAdapter.fetch_raw: what a scrape does to its source before it     *)
(* stores anything.  A run asks its feeds, queries or pages one by one     *)
(* through the HTTP fetcher; the processing of an answer and the next      *)
(* request are one step: no await lies between them, except that the       *)
(* adapters of feeds wait for a thread that parses and shares nothing.     *)
(*                                                                         *)
(* The adapters differ in what a failed request does to the run: three     *)
(* swallow it and go on, the others let it end the run.  One keeps a daily *)
(* budget that all its concurrent runs share, one follows pages of a       *)
(* thread that moves while it is read.                                     *)
(***************************************************************************)
EXTENDS HttpFetcher, FiniteSets, SequencesExt

CONSTANTS
  Configured,   \* the optional adapters whose key, feeds or browser is configured
  Alone,        \* adapters explored by themselves: no run beside, no query before
  MaxSources,   \* bound on the feeds or queries of a run
  Budget,       \* google_cse_daily_query_budget
  MaxDays,      \* bound on the calendar
  MaxFailed,    \* bound on the requests of google_cse that fail in a day
  PerPage, MaxPages,   \* 100 and 10 in hnhiring.py
  Threads,      \* what the thread of a month may hold when it is found
  MaxThread     \* bound on what it grows to

ASSUME FetchAssumption ==
  /\ IsFiniteSet(Callers) /\ Callers # {}
  /\ Budget \in Nat /\ MaxDays \in Nat /\ MaxFailed \in Nat /\ MaxSources \in Nat
  /\ PerPage \in Nat \ {0} /\ MaxPages \in Nat \ {0} /\ MaxThread \in Nat
  /\ Threads \subseteq Seq(Nat)

VARIABLES
  run,     \* the scrape of each caller
  today,   \* date.today()
  quota,   \* _DailyBudget: its _date and _count
  tier     \* what Google saw today: requests sent, and those that failed

fetchVars == <<call, run, today, quota, tier>>

Swallowing == {"reddit", "linkedin", "wellfound"}
OneShot == {"hackernews", "remoteok", "producthunt"}
Optional == {"rss", "google_cse", "wellfound", "linkedin"}
Adapters == Swallowing \cup OneShot \cup Optional \cup {"hnhiring", "funding"}

\* build_adapters: a factory of an adapter without its configuration returns None.
Registered == (Adapters \ Optional) \cup (Optional \cap Configured)

\* A run: the sources it was asked for, the one it is at, and those whose
\* answer it has or has given up.  thread and shrunk are of hnhiring alone:
\* the comments its pages are cut from (a number for a top-level comment that
\* was there at the start, 0 for a reply or a later comment), and whether any
\* was withdrawn since.
NoRun == [pc |-> "idle", adapter |-> "none", plan |-> 0, at |-> 0, got |-> {}, lost |-> {},
          thread |-> <<>>, shrunk |-> FALSE]

NoTier == [sent |-> 0, failed |-> 0]

FetchInit ==
  /\ InitCalls
  /\ run = [c \in Callers |-> NoRun]
  /\ today = 1
  /\ quota = [day |-> 1, count |-> 0]
  /\ tier = NoTier

Answered200(c) == call[c].pc = "done" /\ call[c].outcome = "ok"
Failed(c) == call[c].pc = "done" /\ call[c].outcome # "ok"

Busy(c) == run[c].pc \in {"finding", "fetching"}
AtWork(c, S) == run[c].pc = "fetching" /\ run[c].adapter \in S

-----------------------------------------------------------------------------
\* The daily budget of google_cse

Rolled == IF quota.day = today THEN quota ELSE [day |-> today, count |-> 0]

\* A variant that allows one query too many.
CanQuery_OneMore(q) == q.count <= Budget

CanQuery(q) == q.count < Budget

RecordQuery == quota' = [Rolled EXCEPT !.count = @ + 1]

\* What Google sees of a step of c: every try of a query is a request, and a try
\* that ends in anything but an answer has failed.
Sends(c) == run'[c].adapter = "google_cse" /\ call[c].pc # "sent" /\ call'[c].pc = "sent"
Fails(c) == /\ run[c].adapter = "google_cse" /\ call[c].pc = "sent"
            /\ call'[c].pc # "sent" /\ ~Answered200(c)'
Tally(c) ==
  /\ Fails(c) => tier.failed < MaxFailed
  /\ tier' = [sent |-> IF Sends(c) THEN tier.sent + 1 ELSE tier.sent,
              failed |-> IF Fails(c) THEN tier.failed + 1 ELSE tier.failed]

-----------------------------------------------------------------------------
\* How a run goes on

Return(c, r) == run' = [run EXCEPT ![c] = [r EXCEPT !.pc = "returned"]] /\ EndCall(c)
Raise(c) == run' = [run EXCEPT ![c].pc = "raised"] /\ EndCall(c)

\* The head of the loop over feeds, queries or roles.  The request of wellfound
\* goes to the browser, not to the HTTP fetcher.
Ask(c, r) ==
  IF r.at = r.plan THEN Return(c, r)
  ELSE /\ run' = [run EXCEPT ![c] = [r EXCEPT !.at = @ + 1]]
       /\ IF r.adapter = "wellfound" THEN UNCHANGED call ELSE BeginCall(c)

Got(c) == [run[c] EXCEPT !.got = @ \cup {run[c].at}]
Lost(c) == [run[c] EXCEPT !.lost = @ \cup {run[c].at}]

-----------------------------------------------------------------------------
\* One operator per adapter: what it does with an answer.  An answer may hold
\* any number of records, none included: that is what a malformed feed, which
\* RssFetcher turns into an empty one, looks like.  A JSON answer of another shape
\* than the adapter reads raises where it is read.

Reddit(c) ==
  /\ AtWork(c, {"reddit"})
  /\ \/ Answered200(c) /\ Ask(c, Got(c))
     \/ Failed(c) /\ Ask(c, Lost(c))
  /\ UNCHANGED quota

\* The job queries, then the post queries; an error in either is logged.
LinkedIn(c) ==
  /\ AtWork(c, {"linkedin"})
  /\ \/ Answered200(c) /\ \E r \in {Got(c), Lost(c)} : Ask(c, r)
     \/ Failed(c) /\ Ask(c, Lost(c))
  /\ UNCHANGED quota

\* The rendered page of a role is parsed inside the try that fetched it.
Wellfound(c) ==
  /\ AtWork(c, {"wellfound"})
  /\ \E r \in {Got(c), Lost(c)} : Ask(c, r)
  /\ UNCHANGED quota

Funding(c) ==
  /\ AtWork(c, {"funding"})
  /\ \/ Answered200(c) /\ Ask(c, Got(c))
     \/ Failed(c) /\ Raise(c)
  /\ UNCHANGED quota

\* A variant that returns what it has when a feed fails.
RssMulti_Break(c) ==
  /\ AtWork(c, {"rss"})
  /\ \/ Answered200(c) /\ Ask(c, Got(c))
     \/ Failed(c) /\ Return(c, Lost(c))
  /\ UNCHANGED quota

RssMulti(c) ==
  /\ AtWork(c, {"rss"})
  /\ \/ Answered200(c) /\ Ask(c, Got(c))
     \/ Failed(c) /\ Raise(c)
  /\ UNCHANGED quota

HackerNews(c) ==
  /\ AtWork(c, {"hackernews"})
  /\ \/ Answered200(c) /\ (Return(c, Got(c)) \/ Raise(c))
     \/ Failed(c) /\ Raise(c)
  /\ UNCHANGED quota

RemoteOK(c) ==
  /\ AtWork(c, {"remoteok"})
  /\ \/ Answered200(c) /\ Return(c, Got(c))
     \/ Failed(c) /\ Raise(c)
  /\ UNCHANGED quota

ProductHunt(c) ==
  /\ AtWork(c, {"producthunt"})
  /\ \/ Answered200(c) /\ Return(c, Got(c))
     \/ Failed(c) /\ Raise(c)
  /\ UNCHANGED quota

\* The budget is looked at before a query and charged after its answer, both in
\* one step with what lies between two requests; a failed query is not charged.
GoogleCSE(c) ==
  /\ AtWork(c, {"google_cse"})
  /\ \/ /\ Answered200(c)
        /\ RecordQuery
        /\ \/ IF CanQuery(quota') THEN Ask(c, Got(c)) ELSE Return(c, Got(c))
           \/ Raise(c)
     \/ Failed(c) /\ Raise(c) /\ UNCHANGED quota

-----------------------------------------------------------------------------
\* hnhiring: the newest thread, then its pages

\* Replies come in the same pages as comments and are dropped.
Hits(r) == SubSeq(r.thread, (r.at - 1) * PerPage + 1,
                  IF r.at * PerPage < Len(r.thread) THEN r.at * PerPage ELSE Len(r.thread))
TopLevel(hits) == {hits[i] : i \in DOMAIN hits} \ {0}

NextPage(c, r) ==
  IF r.at = MaxPages THEN Return(c, r)
  ELSE run' = [run EXCEPT ![c] = [r EXCEPT !.at = @ + 1]] /\ BeginCall(c)

FindLatestThread(c) ==
  /\ run[c].pc = "finding"
  /\ \/ Failed(c) /\ Raise(c)
     \/ Answered200(c) /\ (Return(c, run[c]) \/ Raise(c))
     \/ /\ Answered200(c)
        /\ \E t \in Threads : NextPage(c, [run[c] EXCEPT !.pc = "fetching", !.thread = t])
  /\ UNCHANGED quota

\* A variant that measures the page after dropping the replies.
TopLevelComments_ShortPage(c) ==
  /\ AtWork(c, {"hnhiring"})
  /\ \/ (Failed(c) \/ Answered200(c)) /\ Raise(c)
     \/ /\ Answered200(c)
        /\ LET hits == Hits(run[c])
               r == [run[c] EXCEPT !.got = @ \cup TopLevel(hits)]
           IN IF Cardinality(TopLevel(hits)) < PerPage THEN Return(c, r) ELSE NextPage(c, r)
  /\ UNCHANGED quota

TopLevelComments(c) ==
  /\ AtWork(c, {"hnhiring"})
  /\ \/ (Failed(c) \/ Answered200(c)) /\ Raise(c)
     \/ /\ Answered200(c)
        /\ LET hits == Hits(run[c])
               r == [run[c] EXCEPT !.got = @ \cup TopLevel(hits)]
           IN IF Len(hits) < PerPage THEN Return(c, r) ELSE NextPage(c, r)
  /\ UNCHANGED quota

\* Hacker News while the pages are read: a comment or a reply appears anywhere
\* in the order of the search, or one is withdrawn.
ThreadMoves(c) ==
  /\ AtWork(c, {"hnhiring"})
  /\ LET t == run[c].thread
     IN \/ /\ Len(t) < MaxThread
           /\ \E i \in 1..Len(t) + 1 : run' = [run EXCEPT ![c].thread = InsertAt(t, i, 0)]
        \/ /\ ~run[c].shrunk
           /\ \E i \in 1..Len(t) :
                run' = [run EXCEPT ![c].thread = RemoveAt(t, i), ![c].shrunk = TRUE]
  /\ UNCHANGED <<call, quota>>

-----------------------------------------------------------------------------
\* How many sources a run may be asked for: feeds and queries of the request or,
\* when it names none, those of the settings, which may be empty too.
Plans(a) ==
  IF a \in OneShot THEN {1} ELSE IF a = "hnhiring" THEN {0}
  ELSE (IF a = "rss" THEN 1 ELSE 0)..MaxSources

Begin(c, a) ==
  /\ run[c].pc = "idle" /\ a \in Registered
  /\ \A d \in Callers : run[d].pc # "idle" => {a, run[d].adapter} \cap Alone = {}
  /\ a \in Alone => quota.count = 0 /\ tier = NoTier
  /\ \E n \in Plans(a) :
       LET r == [NoRun EXCEPT !.pc = "fetching", !.adapter = a, !.plan = n]
           spent == a = "google_cse" /\ n # 0 /\ ~CanQuery(Rolled)
       IN \/ /\ a = "hnhiring"
             /\ run' = [run EXCEPT ![c] = [r EXCEPT !.pc = "finding"]] /\ BeginCall(c)
          \/ spent /\ Return(c, r)
          \/ a # "hnhiring" /\ ~spent /\ Ask(c, r)
  /\ quota' = IF a = "google_cse" /\ run'[c].plan # 0 THEN Rolled ELSE quota

\* The orchestrator takes over.
Leave(c) ==
  /\ run[c].pc \in {"returned", "raised"}
  /\ run' = [run EXCEPT ![c] = NoRun]
  /\ UNCHANGED <<call, quota>>

Midnight ==
  /\ today < MaxDays /\ today' = today + 1
  /\ tier' = NoTier
  /\ UNCHANGED <<call, run, quota>>

\* The steps a run takes by itself, its requests included.
Proceed(c) ==
  /\ \/ CallStep(c) /\ UNCHANGED <<run, quota>>
     \/ Reddit(c) \/ LinkedIn(c) \/ Wellfound(c) \/ Funding(c) \/ RssMulti(c)
     \/ HackerNews(c) \/ RemoteOK(c) \/ ProductHunt(c) \/ GoogleCSE(c)
     \/ FindLatestThread(c) \/ TopLevelComments(c)
  /\ UNCHANGED today
  /\ Tally(c)

Step(c) ==
  \/ Proceed(c)
  \/ /\ (\E a \in Adapters : Begin(c, a)) \/ Leave(c) \/ ThreadMoves(c)
     /\ UNCHANGED today
     /\ Tally(c)

FetchNext == (\E c \in Callers : Step(c)) \/ Midnight

FetchSpec == FetchInit /\ [][FetchNext]_fetchVars

\* The server answers or its timeout strikes, sleeps end, and the event loop
\* runs every coroutine that can run.
FairFetchSpec == FetchSpec /\ \A c \in Callers : WF_fetchVars(Proceed(c))

-----------------------------------------------------------------------------
Runs == [pc : {"idle", "finding", "fetching", "returned", "raised"},
         adapter : Adapters \cup {"none"}, plan : Nat, at : Nat,
         got : SUBSET Nat, lost : SUBSET Nat, thread : Seq(Nat), shrunk : BOOLEAN]

\* Every variable keeps its type, and a run has a request under way exactly
\* while it waits for one.
FetchTypeOK ==
  /\ call \in [Callers -> Calls] /\ run \in [Callers -> Runs]
  /\ today \in Nat /\ quota \in [day : Nat, count : Nat] /\ tier \in [sent : Nat, failed : Nat]
  /\ \A c \in Callers :
       /\ call[c].pc = "idle" <=> ~Busy(c) \/ run[c].adapter = "wellfound"
       /\ run[c].pc = "finding" => run[c].adapter = "hnhiring"
       /\ run[c].pc # "idle" => run[c].adapter \in Adapters

\* The requests google_cse sends in a day stay within its budget but for two
\* leaks.  Concurrent runs may each pass the check on the last query of the day,
\* which is one query per other run; and a try that fails is sent and charged to
\* nobody, whether it is retried or ends its run.
QuotaOvershoot == tier.sent < Budget + Cardinality(Callers) + tier.failed

\* What an adapter returns is everything it was asked for.  Only the adapters
\* that swallow errors may leave out a source, and only one that failed; and
\* google_cse may stop before the end, with its day's budget spent.
Whole(r) ==
  \/ r.adapter = "hnhiring"
  \/ r.got \cup r.lost = 1..r.plan /\ (r.lost = {} \/ r.adapter \in Swallowing)
  \/ r.adapter = "google_cse" /\ r.lost = {} /\ ~CanQuery(quota')
NothingDropped ==
  [][\A c \in Callers : Busy(c) /\ run'[c].pc = "returned" => Whole(run'[c])]_fetchVars

\* The pages of a thread that moves while they are read still hold, together,
\* every comment that was there at the start and stays, unless one in front of
\* it was withdrawn or the thread outgrew the pages.
NoCommentMissed ==
  \A c \in Callers :
    LET r == run[c]
    IN r.adapter = "hnhiring" /\ r.pc = "returned" /\ ~r.shrunk /\ Len(r.thread) <= MaxPages * PerPage
         => TopLevel(r.thread) \subseteq r.got

\* Whatever its source answers, a run comes to an end.
FetchesEnd == \A c \in Callers : Busy(c) ~> ~Busy(c)
=============================================================================
