------------------------------ MODULE BusQueue ------------------------------
(***************************************************************************)
(* The bounded queues of application/bus.py as operators on sequences: the *)
(* head is the next event to be consumed.  publish never waits: it appends *)
(* the event, or drops it when the queue holds Cap events.                 *)
(***************************************************************************)
EXTENDS Integers, Sequences

CONSTANT Cap    \* EventBus(max_queue_size)

ASSUME CapAssumption == Cap \in Nat \ {0}

\* Variants that forget the bound, or put the event at the wrong end.
Published_Unbounded(q, e) == Append(q, e)
Published_Front(q, e) == IF Len(q) < Cap THEN <<e>> \o q ELSE q

\* EventBus.publish: put_nowait, and QueueFull is only logged.
Published(q, e) == IF Len(q) < Cap THEN Append(q, e) ELSE q

\* A variant that forgets the bound.
PublishedAll_Unbounded(q, es) == q \o es

\* A loop of publish calls.  No call suspends the coroutine, so the whole loop
\* is one atomic step: the queue takes what fits, the rest is dropped.
PublishedAll(q, es) ==
  LET room == Cap - Len(q)
  IN  q \o (IF Len(es) <= room THEN es ELSE SubSeq(es, 1, room))
=============================================================================
