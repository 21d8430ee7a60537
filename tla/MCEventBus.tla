----------------------------- MODULE MCEventBus -----------------------------
(* LeadCreated with its consumer, LeadScored without one. *)
EXTENDS EventBus

CONSTANTS created1, created2, created3, scored1, scored2, worker

MCTypeOf == [e \in Events |-> IF e \in {scored1, scored2} THEN "LeadScored" ELSE "LeadCreated"]
MCConsumes == [c \in {worker} |-> "LeadCreated"]
=============================================================================
