----------------------------- MODULE HttpFetcher -----------------------------
(***************************************************************************)
(* HttpFetcher._fetch: one request with its retry loop.  An action is one  *)
(* answer of the server or the end of one sleep; what the answer is, and   *)
(* what its Retry-After header says, is up to the server.  The module has  *)
(* no Next of its own: the adapters of SourceFetch are the callers.        *)
(***************************************************************************)
EXTENDS Integers, Sequences

CONSTANTS
  Callers,      \* coroutines that may call a fetcher
  MaxRetries,   \* http_max_retries
  RetryAfters   \* Retry-After in seconds; 0 stands for none, unreadable or "0"

ASSUME RetryAssumption == MaxRetries \in Nat /\ RetryAfters \subseteq Nat

VARIABLE call   \* where the request of each caller is

wait_times == <<1, 4, 16>>
MaxWait == 60

Typed == {"transient", "permanent", "rate_limited"}
Outcomes == {"none", "ok", "raw", "untyped"} \cup Typed

NoCall == [pc |-> "idle", attempt |-> 0, slept |-> 0, outcome |-> "none"]

InitCalls == call = [c \in Callers |-> NoCall]

\* get_json, get_text, post_json: with max_retries = 0 the loop body never runs.
BeginCall(c) ==
  call' = [call EXCEPT ![c] =
    IF MaxRetries = 0 THEN [NoCall EXCEPT !.pc = "done", !.outcome = "transient"]
                      ELSE [NoCall EXCEPT !.pc = "sent", !.attempt = 1]]

\* The caller takes the FetchResponse, or catches what was raised.
EndCall(c) == call' = [call EXCEPT ![c] = NoCall]

Finish(c, o) == call' = [call EXCEPT ![c].pc = "done", ![c].slept = 0, ![c].outcome = o]

\* The entry of wait_times for the attempt that just failed: an attempt the
\* table does not reach raises IndexError inside the loop.
Sleep(c, wait) == call' = [call EXCEPT ![c].pc = "asleep", ![c].slept = @ + wait]
Backoff(c) ==
  IF call[c].attempt <= Len(wait_times) THEN Sleep(c, wait_times[call[c].attempt])
                                        ELSE Finish(c, "untyped")

\* A variant that is off by one.
LastTry_OneMore(c) == call[c].attempt > MaxRetries

LastTry(c) == call[c].attempt >= MaxRetries

\* Below 400, and the body decodes.
Succeed(c) == call[c].pc = "sent" /\ Finish(c, "ok")

\* What the except clause of the loop does not name leaves it at any try: a JSON
\* body that does not decode, too many redirects, a broken Content-Encoding.
Escape(c) == call[c].pc = "sent" /\ Finish(c, "raw")

\* 4xx other than 429.
ClientError(c) == call[c].pc = "sent" /\ Finish(c, "permanent")

\* A variant without the upper limit on Retry-After.
TooManyRequests_NoLimit(c) ==
  /\ call[c].pc = "sent"
  /\ \E ra \in RetryAfters :
       IF LastTry(c) THEN Finish(c, "rate_limited")
       ELSE IF ra = 0 THEN Backoff(c) ELSE Sleep(c, ra)

\* 429: Retry-After, or the table when there is none, but at most a minute.
TooManyRequests(c) ==
  /\ call[c].pc = "sent"
  /\ \E ra \in RetryAfters :
       IF LastTry(c) THEN Finish(c, "rate_limited")
       ELSE IF ra = 0 THEN Backoff(c)
       ELSE Sleep(c, IF ra < MaxWait THEN ra ELSE MaxWait)

\* A variant that raises on the first 5xx.
Unavailable_NoRetry(c) == call[c].pc = "sent" /\ Finish(c, "transient")

\* 5xx, a transport error or a timeout: the same table, the same exception.
Unavailable(c) ==
  /\ call[c].pc = "sent"
  /\ IF LastTry(c) THEN Finish(c, "transient") ELSE Backoff(c)

\* A variant that does not count the attempt.
Wake_SameAttempt(c) ==
  /\ call[c].pc = "asleep"
  /\ call' = [call EXCEPT ![c].pc = "sent", ![c].slept = 0]

Wake(c) ==
  /\ call[c].pc = "asleep"
  /\ call' = [call EXCEPT ![c].pc = "sent", ![c].attempt = @ + 1]

\* What the server and the clock do to a request.
CallStep(c) == \/ Succeed(c) \/ Escape(c) \/ ClientError(c)
               \/ TooManyRequests(c) \/ Unavailable(c) \/ Wake(c)

Calls == [pc : {"idle", "sent", "asleep", "done"},
          attempt : 0..MaxRetries, slept : Nat, outcome : Outcomes]

-----------------------------------------------------------------------------
\* A request blocks its scrape for at most a minute per retry, whatever the
\* Retry-After headers of a misbehaving source say.
BoundedWait ==
  \A c \in Callers : call[c].slept <= MaxWait * (IF MaxRetries = 0 THEN 0 ELSE MaxRetries - 1)

\* The retry loop does what its callers rely on.
Phase(c) == IF call[c].pc = "done" THEN call[c].outcome
            ELSE IF call[c].pc = "idle" THEN "idle" ELSE "open"
Answered(c) == IF call[c].pc = "sent" THEN call[c].attempt - 1 ELSE call[c].attempt

Request == INSTANCE HttpRequest WITH
  Callers <- Callers, MaxTries <- MaxRetries,
  phase <- [c \in Callers |-> Phase(c)], answered <- [c \in Callers |-> Answered(c)]
ImplementsRequest == Request!Spec
=============================================================================
