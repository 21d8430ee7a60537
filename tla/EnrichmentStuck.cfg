\* One lead, one failing call: the row left "enriching".
SPECIFICATION FairSpec
CONSTANTS
  Leads = {l1}
  NoLead = NoLead
  NoDomain = {}
  Verdicts = {hot}
  NoVerdict = NoVerdict
  Worker = worker
  Requests = {}
  Operators = {}
  Scrapers = {scrape}
  Cap = 1
  SweepLimit = 1
  ReprocessLimit = 1
  MaxFailures = 1
  Budget = 1
  SmartCost = 1
  CheapCost = 1
  MaxFaults = 1
  MaxCrashes = 0
PROPERTY EverythingRecovers
