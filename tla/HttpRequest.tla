----------------------------- MODULE HttpRequest -----------------------------
(***************************************************************************)
(* What HttpFetcher promises its callers: a request is tried a bounded     *)
(* number of times and then answered once.  An answer of the server ends   *)
(* it at any try; the two failures that mean "later, perhaps" are raised   *)
(* only after the last try.                                                *)
(***************************************************************************)
EXTENDS Naturals

CONSTANTS Callers, MaxTries

VARIABLES
  phase,     \* "idle", "open" or how the request of a caller ended
  answered   \* its tries that were answered or failed

vars == <<phase, answered>>

Final == {"ok", "permanent", "raw"}
GaveUp == {"transient", "rate_limited"}

Init == phase = [c \in Callers |-> "idle"] /\ answered = [c \in Callers |-> 0]

\* A caller asks for the next thing as soon as it has its answer.
Open(c) ==
  /\ phase[c] # "open"
  /\ phase' = [phase EXCEPT ![c] = "open"]
  /\ answered' = [answered EXCEPT ![c] = 0]

\* One more try was in vain.
Miss(c) ==
  /\ phase[c] = "open" /\ answered[c] + 1 < MaxTries
  /\ answered' = [answered EXCEPT ![c] = @ + 1]
  /\ UNCHANGED phase

Close(c) ==
  /\ phase[c] = "open" /\ answered[c] < MaxTries
  /\ answered' = [answered EXCEPT ![c] = @ + 1]
  /\ \/ \E o \in Final : phase' = [phase EXCEPT ![c] = o]
     \/ answered[c] + 1 = MaxTries /\ \E o \in GaveUp : phase' = [phase EXCEPT ![c] = o]

\* The caller has its answer and asks for nothing else.
Forget(c) ==
  /\ phase[c] \in Final \cup GaveUp
  /\ phase' = [phase EXCEPT ![c] = "idle"]
  /\ answered' = [answered EXCEPT ![c] = 0]

Next == \E c \in Callers : Open(c) \/ Miss(c) \/ Close(c) \/ Forget(c)

Spec == Init /\ [][Next]_vars
=============================================================================
