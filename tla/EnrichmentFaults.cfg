\* Liveness of one lead with failing calls and a crash.
SPECIFICATION FairSpec
CONSTANTS
  Leads = {l1}
  NoLead = NoLead
  NoDomain = {l1}
  Verdicts = {hot}
  NoVerdict = NoVerdict
  Worker = worker
  Requests = {}
  Operators = {}
  Scrapers = {scrape}
  Cap = 1
  SweepLimit = 1
  ReprocessLimit = 1
  MaxFailures = 1
  Budget = 1
  SmartCost = 1
  CheapCost = 1
  MaxFaults = 2
  MaxCrashes = 1
PROPERTIES QueuedIsPickedUp ScoredOrAbandoned
