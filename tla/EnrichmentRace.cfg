\* The worker and a POST /enrich request on one lead.
SPECIFICATION Spec
CONSTANTS
  Leads = {l1}
  NoLead = NoLead
  NoDomain = {}
  Verdicts = {hot, cold}
  NoVerdict = NoVerdict
  Worker = worker
  Requests = {post}
  Operators = {}
  Scrapers = {scrape}
  Cap = 1
  SweepLimit = 1
  ReprocessLimit = 1
  MaxFailures = 1
  Budget = 1
  SmartCost = 1
  CheapCost = 1
  MaxFaults = 0
  MaxCrashes = 0
PROPERTY ScoredIsFinal
