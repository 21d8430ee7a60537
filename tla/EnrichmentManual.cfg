\* The worker and two POST /enrich requests on one lead.
SPECIFICATION Spec
CONSTANTS
  Leads = {l1}
  NoLead = NoLead
  NoDomain = {l1}
  Verdicts = {hot}
  NoVerdict = NoVerdict
  Worker = worker
  Requests = {post1, post2}
  Operators = {}
  Scrapers = {scrape}
  Cap = 1
  SweepLimit = 1
  ReprocessLimit = 1
  MaxFailures = 1
  Budget = 1
  SmartCost = 1
  CheapCost = 1
  MaxFaults = 1
  MaxCrashes = 0
SYMMETRY RequestSymmetry
INVARIANTS BudgetOvershoot ClaimHasRunner ResolutionsBounded
