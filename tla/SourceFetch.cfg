SPECIFICATION FairFetchSpec
CONSTANTS
  Callers = {c1, c2}
  MaxRetries = 3
  RetryAfters = {0, 120}
  Configured = {"rss", "google_cse", "wellfound", "linkedin"}
  Alone <- MCAlone
  MaxSources = 2
  Budget = 2
  MaxDays = 2
  MaxFailed = 6
  PerPage = 2
  MaxPages = 2
  Threads <- MCThreads
  MaxThread = 5
INVARIANTS FetchTypeOK BoundedWait QuotaOvershoot NoCommentMissed
PROPERTIES NothingDropped ImplementsRequest FetchesEnd
