--------------------------- MODULE LeadLifecycle ---------------------------
(***************************************************************************)
(* What raw_leads promises as the durable queue of the pipeline            *)
(* (README.md, "Postgres-as-Durable-Queue"): a lead waits as "new", is     *)
(* claimed, and the claim ends by pausing the lead for the next day's      *)
(* budget or by scoring it.  A lead is scored at most once and its score   *)
(* is the one shown for ever.  Queues, crashes, retries and coroutines are *)
(* not visible at this level.                                              *)
(***************************************************************************)
CONSTANTS Leads, Verdicts, NoVerdict

VARIABLES status, score

vars == <<status, score>>

Init == /\ status = [l \in Leads |-> "absent"]
        /\ score = [l \in Leads |-> NoVerdict]

\* A scrape commits a batch of rows.
Insert == \E S \in SUBSET {l \in Leads : status[l] = "absent"} :
            /\ status' = [l \in Leads |-> IF l \in S THEN "new" ELSE status[l]]
            /\ UNCHANGED score

Claim(l) == /\ status[l] \in {"new", "budget_paused"}
            /\ status' = [status EXCEPT ![l] = "enriching"]
            /\ UNCHANGED score

Pause(l) == /\ status[l] = "enriching"
            /\ status' = [status EXCEPT ![l] = "budget_paused"]
            /\ UNCHANGED score

Score(l) == /\ status[l] = "enriching"
            /\ status' = [status EXCEPT ![l] = "scored"]
            /\ \E v \in Verdicts : score' = [score EXCEPT ![l] = v]

Next == Insert \/ \E l \in Leads : Claim(l) \/ Pause(l) \/ Score(l)

Spec == Init /\ [][Next]_vars
=============================================================================
