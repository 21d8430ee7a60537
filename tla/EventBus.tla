------------------------------ MODULE EventBus ------------------------------
(***************************************************************************)
(* application/bus.py: one bounded asyncio.Queue per event type, publish   *)
(* that never waits, and consume, which hands one event at a time to a     *)
(* handler and reports it to the queue's count of unfinished tasks, the    *)
(* count queue.join() waits for.  A consumer may be cancelled, as lifespan *)
(* does on shutdown, while it waits or while its handler is at work.       *)
(***************************************************************************)
EXTENDS BusQueue, FiniteSets

CONSTANTS
  Events,
  Types,       \* event classes
  TypeOf,      \* TypeOf[e]
  Consumers,   \* tasks running consume
  Consumes     \* Consumes[c]: the type a consumer subscribes to

ASSUME TypeAssumption == TypeOf \in [Events -> Types] /\ Consumes \in [Consumers -> Types]
ASSUME OneConsumer == \A c, d \in Consumers : Consumes[c] = Consumes[d] => c = d

VARIABLES
  queue,        \* queue[t]
  unfinished,   \* asyncio.Queue._unfinished_tasks of queue[t]
  consumer,     \* consumer[c]: one of ConsumerStates
  accepted,     \* history: the events put in queue[t], in that order
  taken,        \* history: the events handed to a handler
  published     \* history: the events publish was called with

vars == <<queue, unfinished, consumer, accepted, taken, published>>

Init ==
  /\ queue = [t \in Types |-> <<>>] /\ unfinished = [t \in Types |-> 0]
  /\ consumer = [c \in Consumers |-> "waiting"]
  /\ accepted = [t \in Types |-> <<>>] /\ taken = [t \in Types |-> <<>>]
  /\ published = {}

\* put_nowait, or QueueFull and a log line.
Publish(e) ==
  LET t == TypeOf[e] IN
  /\ e \notin published /\ published' = published \cup {e}
  /\ queue' = [queue EXCEPT ![t] = Published(@, e)]
  /\ IF Len(queue[t]) < Cap
       THEN /\ unfinished' = [unfinished EXCEPT ![t] = @ + 1]
            /\ accepted' = [accepted EXCEPT ![t] = Append(@, e)]
       ELSE UNCHANGED <<unfinished, accepted>>
  /\ UNCHANGED <<consumer, taken>>

\* await queue.get() returns, and the handler starts.
Get(c) ==
  LET t == Consumes[c] IN
  /\ consumer[c] = "waiting" /\ queue[t] # <<>>
  /\ consumer' = [consumer EXCEPT ![c] = "handling"]
  /\ queue' = [queue EXCEPT ![t] = Tail(@)]
  /\ taken' = [taken EXCEPT ![t] = Append(@, Head(queue[t]))]
  /\ UNCHANGED <<unfinished, accepted, published>>

\* A variant whose loop ends with the handler's exception.
HandlerEnds_LetItCrash(c) ==
  /\ consumer[c] = "handling"
  /\ consumer' \in {[consumer EXCEPT ![c] = "waiting"], [consumer EXCEPT ![c] = "crashed"]}
  /\ unfinished' = [unfinished EXCEPT ![Consumes[c]] = @ - 1]
  /\ UNCHANGED <<queue, accepted, taken, published>>

\* A variant that calls task_done for an event only when its handler returned.
HandlerEnds_ErrorUncounted(c) ==
  LET t == Consumes[c] IN
  /\ consumer[c] = "handling"
  /\ consumer' = [consumer EXCEPT ![c] = "waiting"]
  /\ unfinished' \in {unfinished, [unfinished EXCEPT ![t] = @ - 1]}
  /\ UNCHANGED <<queue, accepted, taken, published>>

\* The handler returns, or raises an Exception that is only logged.
HandlerEnds(c) ==
  /\ consumer[c] = "handling"
  /\ consumer' = [consumer EXCEPT ![c] = "waiting"]
  /\ unfinished' = [unfinished EXCEPT ![Consumes[c]] = @ - 1]
  /\ UNCHANGED <<queue, accepted, taken, published>>

\* CancelledError out of get(): no event was taken.
CancelWaiting(c) ==
  /\ consumer[c] = "waiting"
  /\ consumer' = [consumer EXCEPT ![c] = "cancelled"]
  /\ UNCHANGED <<queue, unfinished, accepted, taken, published>>

\* CancelledError out of the handler: task_done in the except clause and again
\* in the finally clause.  The second call raises ValueError, which replaces
\* the cancellation, when the first has brought the count to zero.
CancelHandling(c) ==
  LET t == Consumes[c] IN
  /\ consumer[c] = "handling"
  /\ IF unfinished[t] > 1
       THEN /\ unfinished' = [unfinished EXCEPT ![t] = @ - 2]
            /\ consumer' = [consumer EXCEPT ![c] = "interrupted"]
       ELSE /\ unfinished' = [unfinished EXCEPT ![t] = 0]
            /\ consumer' = [consumer EXCEPT ![c] = "raised"]
  /\ UNCHANGED <<queue, accepted, taken, published>>

Next ==
  \/ \E e \in Events : Publish(e)
  \/ \E c \in Consumers : Get(c) \/ HandlerEnds(c) \/ CancelWaiting(c) \/ CancelHandling(c)

Spec == Init /\ [][Next]_vars

\* The event loop resumes a consumer that has an event, and handlers return.
FairSpec == Spec /\ \A c \in Consumers : WF_vars(Get(c) \/ HandlerEnds(c))

-----------------------------------------------------------------------------
(* Properties.                                                             *)

Stopped == {"cancelled", "interrupted", "raised"}
ConsumerStates == {"waiting", "handling"} \cup Stopped
TypeOK ==
  /\ queue \in [Types -> Seq(Events)] /\ \A t \in Types : Len(queue[t]) <= Cap
  /\ unfinished \in [Types -> Nat]
  /\ consumer \in [Consumers -> ConsumerStates]
  /\ accepted \in [Types -> Seq(Events)] /\ taken \in [Types -> Seq(Events)]
  /\ published \subseteq Events

\* An accepted event is handed to a handler once, in the order of publishing,
\* or is still queued: overflow drops events only at the door.
InOrderOnce == \A t \in Types : accepted[t] = taken[t] \o queue[t]

Handling(t) == {c \in Consumers : Consumes[c] = t /\ consumer[c] = "handling"}
Pending(t) == Len(queue[t]) + Cardinality(Handling(t))

\* How far the count has fallen behind: by the second task_done of a consumer
\* cancelled in its handler, unless it raised for want of anything to count.
Shortfall(t) ==
  IF \E c \in Consumers : Consumes[c] = t /\ consumer[c] = "interrupted" THEN 1 ELSE 0

\* join() waits exactly for the events that are queued or being handled, dropped
\* events and failing handlers included, but for the one event too few that a
\* consumer cancelled in its handler while others wait leaves behind: join() then
\* returns with one event queued.  Every other way to cancel keeps the count.
CountIsExact == \A t \in Types : unfinished[t] = Pending(t) - Shortfall(t)

\* No handler stops the loop: an accepted event reaches the handler unless the
\* consumer of its type was cancelled.
AcceptedIsTaken ==
  \A c \in Consumers : \A e \in Events :
     (\E i \in 1..Len(queue[Consumes[c]]) : queue[Consumes[c]][i] = e)
        ~> \/ \E i \in 1..Len(taken[Consumes[c]]) : taken[Consumes[c]][i] = e
           \/ consumer[c] \in Stopped
=============================================================================
