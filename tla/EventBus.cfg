\* Three LeadCreated events for a queue of two, two LeadScored events.
SPECIFICATION FairSpec
CONSTANTS
  created1 = created1
  created2 = created2
  created3 = created3
  scored1 = scored1
  scored2 = scored2
  worker = worker
  Cap = 2
  Events = {created1, created2, created3, scored1, scored2}
  Types = {"LeadCreated", "LeadScored"}
  TypeOf <- MCTypeOf
  Consumers = {worker}
  Consumes <- MCConsumes
INVARIANTS TypeOK InOrderOnce CountIsExact
PROPERTY AcceptedIsTaken
CHECK_DEADLOCK FALSE
