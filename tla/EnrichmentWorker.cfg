\* The worker alone, two leads, a failing call and a crash.
SPECIFICATION Spec
CONSTANTS
  Leads = {l1, l2}
  NoLead = NoLead
  NoDomain = {}
  Verdicts = {hot, cold}
  NoVerdict = NoVerdict
  Worker = worker
  Requests = {}
  Operators = {op}
  Scrapers = {scrape}
  Cap = 1
  SweepLimit = 1
  ReprocessLimit = 1
  MaxFailures = 1
  Budget = 1
  SmartCost = 1
  CheapCost = 1
  MaxFaults = 1
  MaxCrashes = 1
SYMMETRY LeadSymmetry
INVARIANTS TypeOK EventsReferToRows ScoreMatchesEnrichment CircuitGate
PROPERTIES ScoredIsFinal ImplementsLifecycle
