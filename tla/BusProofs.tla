------------------------------ MODULE BusProofs ------------------------------
(***************************************************************************)
(* Theorems about EventBus, for any capacity, any events and types, and    *)
(* any consumers of types of their own.                                    *)
(*                                                                         *)
(* The count of unfinished tasks is a natural number only because it is    *)
(* exact while a handler is at work: task_done would raise otherwise.  So  *)
(* the three invariants are inductive together.                            *)
(***************************************************************************)
EXTENDS EventBus, SequenceTheorems, FiniteSetTheorems, TLAPS

\* The invariant for one type.
Exact(t) == unfinished[t] = Pending(t) - Shortfall(t)

BusInv == TypeOK /\ InOrderOnce /\ CountIsExact

\* An event at the end of a queue is at the end of what was accepted.
LEMMA AppendRight ==
  ASSUME NEW p \in Seq(Events), NEW q \in Seq(Events), NEW e \in Events
  PROVE  Append(p \o q, e) = p \o Append(q, e)
<1>1. p \o q \in Seq(Events) /\ <<e>> \in Seq(Events)
  BY ConcatProperties
<1>2. Append(p \o q, e) = (p \o q) \o <<e>> /\ Append(q, e) = q \o <<e>>
  BY <1>1, AppendIsConcat
<1>3. (p \o q) \o <<e>> = p \o (q \o <<e>>)
  BY <1>1, ConcatAssociative
<1> QED BY <1>2, <1>3

\* Taking the head of a queue loses nothing.
LEMMA HeadMoves ==
  ASSUME NEW p \in Seq(Events), NEW q \in Seq(Events), q # <<>>
  PROVE  /\ Head(q) \in Events /\ Tail(q) \in Seq(Events) /\ Len(Tail(q)) = Len(q) - 1
         /\ Append(p, Head(q)) \in Seq(Events)
         /\ p \o q = Append(p, Head(q)) \o Tail(q)
<1>1. Head(q) \in Events /\ Tail(q) \in Seq(Events) /\ Len(Tail(q)) = Len(q) - 1
      /\ \A i \in 1..Len(Tail(q)) : Tail(q)[i] = q[i + 1]
  BY HeadTailProperties
<1>2. Append(p, Head(q)) \in Seq(Events) /\ Append(p, Head(q)) = p \o <<Head(q)>>
  BY <1>1, AppendProperties, AppendIsConcat
<1>3. q = <<Head(q)>> \o Tail(q)
  <2> DEFINE r == <<Head(q)>> \o Tail(q)
  <2>1. <<Head(q)>> \in Seq(Events) /\ Len(<<Head(q)>>) = 1 /\ <<Head(q)>>[1] = Head(q)
    BY <1>1
  <2>2. r \in Seq(Events) /\ Len(r) = 1 + Len(Tail(q))
        /\ \A i \in 1..1 + Len(Tail(q)) :
             r[i] = IF i <= 1 THEN <<Head(q)>>[i] ELSE Tail(q)[i - 1]
    BY <1>1, <2>1, ConcatProperties
  <2>3. Len(q) \in Nat \ {0} /\ Head(q) = q[1]
    OBVIOUS
  <2> HIDE DEF r
  <2>4. Len(r) = Len(q) /\ \A i \in 1..Len(q) : r[i] = q[i]
    BY <1>1, <2>1, <2>2, <2>3
  <2>5. r = q
    BY <2>2, <2>4
  <2> QED BY <2>5 DEF r
<1>4. <<Head(q)>> \in Seq(Events)
  BY <1>1
<1>5. p \o (<<Head(q)>> \o Tail(q)) = (p \o <<Head(q)>>) \o Tail(q)
  BY <1>1, <1>4, ConcatAssociative
<1> QED BY <1>1, <1>2, <1>3, <1>5

\* publish lengthens a queue by the event it takes, or leaves it.
LEMMA PublishedQueue ==
  ASSUME NEW q \in Seq(Events), Len(q) <= Cap, NEW e \in Events
  PROVE  /\ Published(q, e) \in Seq(Events) /\ Len(Published(q, e)) <= Cap
         /\ Len(q) < Cap => Published(q, e) = Append(q, e) /\ Len(Published(q, e)) = Len(q) + 1
         /\ ~(Len(q) < Cap) => Published(q, e) = q
BY CapAssumption, AppendProperties DEF Published

\* A type has at most one consumer at work.
LEMMA AtWork ==
  ASSUME TypeOK, NEW t \in Types
  PROVE  /\ Cardinality(Handling(t)) \in Nat
         /\ \A c \in Consumers : Consumes[c] = t =>
              /\ consumer[c] = "handling" => Cardinality(Handling(t)) = 1
              /\ consumer[c] # "handling" => Cardinality(Handling(t)) = 0
         /\ (\A c \in Consumers : Consumes[c] # t) => Cardinality(Handling(t)) = 0
<1>1. ASSUME NEW c \in Consumers, Consumes[c] = t, consumer[c] = "handling"
      PROVE  Cardinality(Handling(t)) = 1
  <2>1. Handling(t) = {c}
    BY <1>1, OneConsumer DEF Handling
  <2> QED BY <2>1, FS_Singleton
<1>2. ASSUME \A c \in Consumers : Consumes[c] = t => consumer[c] # "handling"
      PROVE  Cardinality(Handling(t)) = 0
  <2>1. Handling(t) = {}
    BY <1>2 DEF Handling
  <2> QED BY <2>1, FS_EmptySet
<1>3. ASSUME NEW c \in Consumers, Consumes[c] = t, consumer[c] # "handling"
      PROVE  Cardinality(Handling(t)) = 0
  BY <1>2, <1>3, OneConsumer
<1> QED BY <1>1, <1>2, <1>3

\* The count of a type changes with the consumers and the queue of that type alone.
LEMMA ExactFrame ==
  ASSUME NEW t \in Types, queue'[t] = queue[t], unfinished'[t] = unfinished[t],
         \A c \in Consumers : Consumes[c] = t => consumer'[c] = consumer[c],
         Exact(t)
  PROVE  Exact(t)'
<1>1. Shortfall(t)' = Shortfall(t)
  BY DEF Shortfall
<1>2. Handling(t)' = Handling(t)
  BY DEF Handling
<1> QED BY <1>1, <1>2 DEF Exact, Pending

\* Only a consumer of the type itself makes its count fall behind.
LEMMA ShortfallOf ==
  ASSUME NEW c \in Consumers
  PROVE  Shortfall(Consumes[c]) = IF consumer[c] = "interrupted" THEN 1 ELSE 0
  BY OneConsumer DEF Shortfall

LEMMA ShortfallNext ==
  ASSUME NEW c \in Consumers
  PROVE  Shortfall(Consumes[c])' = IF consumer'[c] = "interrupted" THEN 1 ELSE 0
  BY OneConsumer DEF Shortfall

LEMMA BusInit == Init => BusInv
<1> SUFFICES ASSUME Init PROVE BusInv
  OBVIOUS
<1>1. <<>> \in Seq(Events) /\ Len(<<>>) = 0 /\ <<>> \o <<>> = <<>>
  BY ConcatEmptySeq
<1>2. TypeOK
  BY <1>1, CapAssumption DEF Init, TypeOK, ConsumerStates, Stopped
<1>3. InOrderOnce
  BY <1>1 DEF Init, InOrderOnce
<1>4. CountIsExact
  <2> SUFFICES ASSUME NEW t \in Types PROVE Exact(t)
    BY DEF CountIsExact, Exact
  <2>1. Cardinality(Handling(t)) = 0
    BY <1>2, AtWork DEF Init
  <2>2. Shortfall(t) = 0
    BY DEF Init, Shortfall
  <2> QED BY <1>1, <2>1, <2>2 DEF Init, Exact, Pending
<1> QED BY <1>2, <1>3, <1>4 DEF BusInv

LEMMA PublishKeeps ==
  ASSUME BusInv, NEW e \in Events, Publish(e)
  PROVE  BusInv'
<1> DEFINE t == TypeOf[e]
<1>1. /\ t \in Types /\ queue[t] \in Seq(Events) /\ Len(queue[t]) <= Cap /\ Len(queue[t]) \in Nat
      /\ accepted[t] \in Seq(Events) /\ taken[t] \in Seq(Events) /\ unfinished[t] \in Nat
  BY TypeAssumption DEF BusInv, TypeOK
<1>2. queue' = [queue EXCEPT ![t] = Published(queue[t], e)] /\ UNCHANGED <<consumer, taken>>
  BY DEF Publish
<1> DEFINE fits == Len(queue[t]) < Cap
<1>3. /\ fits => /\ unfinished' = [unfinished EXCEPT ![t] = unfinished[t] + 1]
                 /\ accepted' = [accepted EXCEPT ![t] = Append(accepted[t], e)]
      /\ ~fits => UNCHANGED <<unfinished, accepted>>
  BY DEF Publish
<1>4. /\ Published(queue[t], e) \in Seq(Events) /\ Len(Published(queue[t], e)) <= Cap
      /\ fits => /\ Published(queue[t], e) = Append(queue[t], e)
                 /\ Len(Published(queue[t], e)) = Len(queue[t]) + 1
      /\ ~fits => Published(queue[t], e) = queue[t]
  BY <1>1, PublishedQueue
<1>5. Append(accepted[t], e) \in Seq(Events)
  BY <1>1, AppendProperties
<1> HIDE DEF t, fits
<1>6. TypeOK'
  <2>1. published' \subseteq Events
    BY DEF Publish, BusInv, TypeOK
  <2>2. queue' \in [Types -> Seq(Events)] /\ \A u \in Types : Len(queue'[u]) <= Cap
    BY <1>1, <1>2, <1>4 DEF BusInv, TypeOK
  <2>3. unfinished' \in [Types -> Nat] /\ accepted' \in [Types -> Seq(Events)]
    <3>1. CASE fits
      <4>1. unfinished[t] + 1 \in Nat
        BY <1>1
      <4> QED BY <1>3, <1>5, <3>1, <4>1 DEF BusInv, TypeOK
    <3>2. CASE ~fits
      BY <1>3, <3>2 DEF BusInv, TypeOK
    <3> QED BY <3>1, <3>2
  <2> QED BY <1>2, <2>1, <2>2, <2>3 DEF BusInv, TypeOK
<1>7. InOrderOnce'
  <2> SUFFICES ASSUME NEW u \in Types PROVE accepted'[u] = taken'[u] \o queue'[u]
    BY DEF InOrderOnce
  <2>1. CASE u # t \/ ~fits
    BY <1>1, <1>2, <1>3, <1>4, <2>1 DEF BusInv, InOrderOnce, TypeOK
  <2>2. CASE u = t /\ fits
    <3>1. accepted'[t] = Append(taken[t] \o queue[t], e) /\ queue'[t] = Append(queue[t], e)
      BY <1>1, <1>2, <1>3, <1>4, <2>2 DEF BusInv, InOrderOnce, TypeOK
    <3>2. Append(taken[t] \o queue[t], e) = taken[t] \o Append(queue[t], e)
      BY <1>1, AppendRight
    <3> QED BY <1>2, <2>2, <3>1, <3>2
  <2> QED BY <2>1, <2>2
<1>8. CountIsExact'
  <2> SUFFICES ASSUME NEW u \in Types PROVE Exact(u)'
    BY DEF CountIsExact, Exact
  <2>0. Exact(u)
    BY DEF BusInv, CountIsExact, Exact
  <2>1. CASE u # t \/ ~fits
    BY <1>1, <1>2, <1>3, <1>4, <2>0, <2>1, ExactFrame DEF BusInv, TypeOK
  <2>2. CASE u = t /\ fits
    <3>1. unfinished'[u] = unfinished[u] + 1 /\ Len(queue'[u]) = Len(queue[u]) + 1
      BY <1>1, <1>2, <1>3, <1>4, <2>2 DEF BusInv, TypeOK
    <3>2. Handling(u)' = Handling(u) /\ Shortfall(u)' = Shortfall(u) /\ Shortfall(u) \in {0, 1}
      BY <1>2 DEF Handling, Shortfall
    <3>3. Cardinality(Handling(u)) \in Nat /\ Len(queue[u]) \in Nat
      BY <1>1, <2>2, AtWork DEF BusInv
    <3> QED BY <2>0, <3>1, <3>2, <3>3 DEF Exact, Pending
  <2> QED BY <2>1, <2>2
<1> QED BY <1>6, <1>7, <1>8 DEF BusInv

LEMMA GetKeeps ==
  ASSUME BusInv, NEW c \in Consumers, Get(c)
  PROVE  BusInv'
<1> DEFINE t == Consumes[c]
           e == Head(queue[t])
<1>0. t \in Types
  BY TypeAssumption
<1>1. /\ t \in Types /\ queue[t] \in Seq(Events) /\ queue[t] # <<>>
      /\ taken[t] \in Seq(Events) /\ Len(queue[t]) <= Cap /\ Len(queue[t]) \in Nat
      /\ consumer[c] = "waiting"
  <2>1. queue[t] # <<>> /\ consumer[c] = "waiting"
    BY DEF Get
  <2> QED BY <1>0, <2>1 DEF BusInv, TypeOK
<1>2. /\ queue' = [queue EXCEPT ![t] = Tail(queue[t])]
      /\ taken' = [taken EXCEPT ![t] = Append(taken[t], e)]
      /\ consumer' = [consumer EXCEPT ![c] = "handling"]
      /\ UNCHANGED <<unfinished, accepted, published>>
  BY DEF Get
<1>3. /\ Tail(queue[t]) \in Seq(Events) /\ Len(Tail(queue[t])) = Len(queue[t]) - 1 /\ e \in Events
      /\ Append(taken[t], e) \in Seq(Events)
      /\ taken[t] \o queue[t] = Append(taken[t], e) \o Tail(queue[t])
  BY <1>1, HeadMoves
<1> HIDE DEF t, e
<1>4. TypeOK'
  <2>1. queue' \in [Types -> Seq(Events)] /\ \A u \in Types : Len(queue'[u]) <= Cap
    <3>1. Len(Tail(queue[t])) <= Cap
      BY <1>1, <1>3, CapAssumption
    <3> QED BY <1>1, <1>2, <1>3, <3>1 DEF BusInv, TypeOK
  <2>2. taken' \in [Types -> Seq(Events)]
    BY <1>1, <1>2, <1>3 DEF BusInv, TypeOK
  <2>3. consumer' \in [Consumers -> ConsumerStates]
    BY <1>2 DEF BusInv, TypeOK, ConsumerStates
  <2> QED BY <1>2, <2>1, <2>2, <2>3 DEF BusInv, TypeOK
<1>5. InOrderOnce'
  <2> SUFFICES ASSUME NEW u \in Types PROVE accepted'[u] = taken'[u] \o queue'[u]
    BY DEF InOrderOnce
  <2>1. accepted[u] = taken[u] \o queue[u]
    BY DEF BusInv, InOrderOnce
  <2>2. CASE u # t
    BY <1>2, <2>1, <2>2 DEF BusInv, TypeOK
  <2>3. CASE u = t
    <3>1. taken'[t] = Append(taken[t], e) /\ queue'[t] = Tail(queue[t])
      BY <1>1, <1>2 DEF BusInv, TypeOK
    <3> QED BY <1>2, <1>3, <2>1, <2>3, <3>1
  <2> QED BY <2>2, <2>3
<1>6. CountIsExact'
  <2> SUFFICES ASSUME NEW u \in Types PROVE Exact(u)'
    BY DEF CountIsExact, Exact
  <2>0. Exact(u)
    BY DEF BusInv, CountIsExact, Exact
  <2>1. CASE u # t
    <3>1. \A d \in Consumers : Consumes[d] = u => consumer'[d] = consumer[d]
      BY <1>2, <2>1 DEF t, BusInv, TypeOK
    <3>2. queue'[u] = queue[u] /\ unfinished'[u] = unfinished[u]
      BY <1>2, <2>1 DEF BusInv, TypeOK
    <3> QED BY <2>0, <3>1, <3>2, ExactFrame
  <2>2. CASE u = t
    <3>1. consumer'[c] = "handling" /\ Consumes[c] = u
      BY <1>2, <2>2 DEF t, BusInv, TypeOK
    <3>2. Cardinality(Handling(u)) = 0
      BY <1>1, <3>1, AtWork DEF BusInv
    <3>3. Handling(u)' = {c}
      BY <3>1, OneConsumer DEF Handling
    <3>4. Cardinality(Handling(u)') = 1
      BY <3>3, FS_Singleton
    <3>5. Shortfall(u) = 0 /\ Shortfall(u)' = 0
      BY <1>1, <3>1, ShortfallOf, ShortfallNext
    <3>6. unfinished[u] = Len(queue[u])
      BY <1>1, <2>0, <2>2, <3>2, <3>5 DEF Exact, Pending
    <3>7. Len(queue'[u]) = Len(queue[u]) - 1
      BY <1>1, <1>2, <1>3, <2>2 DEF BusInv, TypeOK
    <3> QED BY <1>1, <1>2, <2>2, <3>4, <3>5, <3>6, <3>7 DEF Exact, Pending
  <2> QED BY <2>1, <2>2
<1> QED BY <1>4, <1>5, <1>6 DEF BusInv

\* A handler at work has its event counted.
LEMMA CountedAtWork ==
  ASSUME BusInv, NEW c \in Consumers, consumer[c] = "handling"
  PROVE  /\ Consumes[c] \in Types /\ unfinished[Consumes[c]] \in Nat /\ unfinished[Consumes[c]] >= 1
         /\ unfinished[Consumes[c]] = Len(queue[Consumes[c]]) + 1
<1>1. Consumes[c] \in Types
  BY TypeAssumption
<1>2. Cardinality(Handling(Consumes[c])) = 1
  BY <1>1, AtWork DEF BusInv
<1>3. Shortfall(Consumes[c]) = 0
  BY ShortfallOf
<1>4. Len(queue[Consumes[c]]) \in Nat /\ unfinished[Consumes[c]] \in Nat
  BY <1>1 DEF BusInv, TypeOK
<1> QED BY <1>1, <1>2, <1>3, <1>4 DEF BusInv, CountIsExact, Pending

\* A consumer that stops waiting or working touches its own type alone.
LEMMA ConsumerKeeps ==
  ASSUME BusInv, NEW c \in Consumers, NEW s \in ConsumerStates, NEW n \in Nat,
         consumer' = [consumer EXCEPT ![c] = s],
         unfinished' = [unfinished EXCEPT ![Consumes[c]] = n],
         UNCHANGED <<queue, accepted, taken, published>>,
         Exact(Consumes[c])'
  PROVE  BusInv'
<1>1. TypeOK' /\ InOrderOnce'
  BY TypeAssumption DEF BusInv, TypeOK, InOrderOnce
<1>2. CountIsExact'
  <2> SUFFICES ASSUME NEW u \in Types PROVE Exact(u)'
    BY DEF CountIsExact, Exact
  <2>0. Exact(u)
    BY DEF BusInv, CountIsExact, Exact
  <2>1. CASE u # Consumes[c]
    <3>1. \A d \in Consumers : Consumes[d] = u => consumer'[d] = consumer[d]
      BY <2>1 DEF BusInv, TypeOK
    <3>2. queue'[u] = queue[u] /\ unfinished'[u] = unfinished[u]
      BY <2>1 DEF BusInv, TypeOK
    <3> QED BY <2>0, <3>1, <3>2, ExactFrame
  <2> QED BY <2>1
<1> QED BY <1>1, <1>2 DEF BusInv

LEMMA HandlerEndsKeeps ==
  ASSUME BusInv, NEW c \in Consumers, HandlerEnds(c)
  PROVE  BusInv'
<1> DEFINE t == Consumes[c]
<1>1. t \in Types /\ unfinished[t] \in Nat /\ unfinished[t] >= 1 /\ unfinished[t] = Len(queue[t]) + 1
      /\ Len(queue[t]) \in Nat
  BY CountedAtWork DEF HandlerEnds, BusInv, TypeOK
<1>2. /\ consumer' = [consumer EXCEPT ![c] = "waiting"]
      /\ unfinished' = [unfinished EXCEPT ![t] = unfinished[t] - 1]
      /\ UNCHANGED <<queue, accepted, taken, published>>
  BY DEF HandlerEnds
<1>3. Handling(t)' = {}
  BY <1>2, OneConsumer DEF Handling, BusInv, TypeOK
<1>4. Cardinality(Handling(t)') = 0
  BY <1>3, FS_EmptySet
<1>5. Exact(t)'
  <2>1. unfinished'[t] = Len(queue[t])
    BY <1>1, <1>2 DEF BusInv, TypeOK
  <2>2. consumer'[c] = "waiting"
    BY <1>2 DEF BusInv, TypeOK
  <2>3. Shortfall(t)' = 0
    BY <2>2, ShortfallNext
  <2> QED BY <1>1, <1>2, <1>4, <2>1, <2>3 DEF Exact, Pending
<1>6. unfinished[t] - 1 \in Nat
  BY <1>1
<1> HIDE DEF t
<1>7. "waiting" \in ConsumerStates
  BY DEF ConsumerStates
<1> QED BY <1>2, <1>5, <1>6, <1>7, ConsumerKeeps DEF t

LEMMA CancelKeeps ==
  ASSUME BusInv, NEW c \in Consumers, CancelWaiting(c) \/ CancelHandling(c)
  PROVE  BusInv'
<1> DEFINE t == Consumes[c]
<1>0. /\ t \in Types /\ unfinished[t] \in Nat /\ Len(queue[t]) \in Nat /\ Exact(t)
      /\ consumer \in [Consumers -> ConsumerStates] /\ unfinished \in [Types -> Nat]
  BY TypeAssumption DEF BusInv, TypeOK, CountIsExact, Exact
<1>1. CASE CancelWaiting(c)
  <2>1. /\ consumer' = [consumer EXCEPT ![c] = "cancelled"] /\ consumer[c] = "waiting"
        /\ UNCHANGED <<queue, unfinished, accepted, taken, published>>
    BY <1>1 DEF CancelWaiting
  <2>2. unfinished' = [unfinished EXCEPT ![t] = unfinished[t]]
    BY <1>0, <2>1
  <2>3. Handling(t)' = Handling(t) /\ Shortfall(t)' = 0 /\ Shortfall(t) = 0
    <3>1. consumer'[c] = "cancelled" /\ \A d \in Consumers \ {c} : consumer'[d] = consumer[d]
      BY <1>0, <2>1
    <3>2. Handling(t)' = Handling(t)
      BY <2>1, <3>1 DEF Handling
    <3> QED BY <2>1, <3>1, <3>2, ShortfallOf, ShortfallNext
  <2>4. Exact(t)'
    BY <1>0, <2>1, <2>3 DEF Exact, Pending
  <2> QED BY <1>0, <2>1, <2>2, <2>4, ConsumerKeeps DEF ConsumerStates, Stopped
<1>2. CASE CancelHandling(c)
  <2>1. unfinished[t] = Len(queue[t]) + 1 /\ UNCHANGED <<queue, accepted, taken, published>>
    BY <1>2, CountedAtWork DEF CancelHandling
  <2>2. ASSUME NEW s \in Stopped, consumer' = [consumer EXCEPT ![c] = s]
        PROVE  Cardinality(Handling(t)') = 0 /\ Shortfall(t)' = IF s = "interrupted" THEN 1 ELSE 0
    <3>1. consumer'[c] = s /\ s # "handling"
      BY <1>0, <2>2 DEF Stopped
    <3>2. Handling(t)' = {}
      BY <3>1, OneConsumer DEF Handling
    <3> QED BY <3>1, <3>2, ShortfallNext, FS_EmptySet
  <2>3. CASE unfinished[t] > 1
    <3>1. /\ unfinished[t] - 2 \in Nat /\ consumer' = [consumer EXCEPT ![c] = "interrupted"]
          /\ unfinished' = [unfinished EXCEPT ![t] = unfinished[t] - 2]
      BY <1>0, <1>2, <2>3 DEF CancelHandling
    <3>2. Cardinality(Handling(t)') = 0 /\ Shortfall(t)' = 1
      BY <2>2, <3>1 DEF Stopped
    <3>3. unfinished'[t] = unfinished[t] - 2
      BY <1>0, <3>1
    <3>4. Exact(t)'
      BY <1>0, <2>1, <3>2, <3>3 DEF Exact, Pending
    <3> QED BY <2>1, <3>1, <3>4, ConsumerKeeps DEF ConsumerStates, Stopped
  <2>4. CASE ~(unfinished[t] > 1)
    <3>1. /\ unfinished' = [unfinished EXCEPT ![t] = 0]
          /\ consumer' = [consumer EXCEPT ![c] = "raised"]
      BY <1>2, <2>4 DEF CancelHandling
    <3>2. Cardinality(Handling(t)') = 0 /\ Shortfall(t)' = 0
      BY <2>2, <3>1 DEF Stopped
    <3>3. unfinished'[t] = 0 /\ Len(queue[t]) = 0
      BY <1>0, <2>1, <2>4, <3>1
    <3>4. Exact(t)'
      BY <1>0, <2>1, <3>2, <3>3 DEF Exact, Pending
    <3> QED BY <2>1, <3>1, <3>4, ConsumerKeeps DEF ConsumerStates, Stopped
  <2> QED BY <2>3, <2>4
<1> QED BY <1>1, <1>2

LEMMA BusNext == BusInv /\ [Next]_vars => BusInv'
<1> SUFFICES ASSUME BusInv, [Next]_vars PROVE BusInv'
  OBVIOUS
<1>1. CASE UNCHANGED vars
  BY <1>1 DEF vars, BusInv, TypeOK, InOrderOnce, CountIsExact, Shortfall, Pending, Handling
<1>2. CASE \E e \in Events : Publish(e)
  BY <1>2, PublishKeeps
<1>3. CASE \E c \in Consumers : Get(c) \/ HandlerEnds(c) \/ CancelWaiting(c) \/ CancelHandling(c)
  BY <1>3, GetKeeps, HandlerEndsKeeps, CancelKeeps
<1> QED BY <1>1, <1>2, <1>3 DEF Next

LEMMA BusInvariant == Spec => []BusInv
<1> QED BY BusInit, BusNext, PTL DEF Spec

-----------------------------------------------------------------------------
\* Every variable keeps its type; no queue outgrows its capacity and no
\* task_done of consume outside a cancellation meets a count of zero.
THEOREM BusTypeCorrect == Spec => []TypeOK
<1> QED BY BusInvariant, PTL DEF BusInv

\* Accepted events are taken once and in order: publish and consume.
THEOREM BusInOrder == Spec => []InOrderOnce
<1> QED BY BusInvariant, PTL DEF BusInv

\* join() waits for what is queued or handled, but for the one event too few of
\* a consumer that was cancelled in its handler while events waited.
THEOREM BusCountCorrect == Spec => []CountIsExact
<1> QED BY BusInvariant, PTL DEF BusInv
=============================================================================
