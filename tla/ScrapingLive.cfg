\* Liveness of two scrapes of one adapter.
SPECIFICATION FairSpec
CONSTANTS
  x = x
  y = y
  z = z
  a = a
  Records = {x, y, z}
  Adapters = {a}
  FeedOf <- MCFeedOf
  SourceOf <- MCSourceOf
  HashOf <- MCHashOf
  Requests = {r1, r2}
  Threshold = 1
  MaxLog = 2
  MaxFaults = 0
  MaxCrashes = 0
PROPERTIES BreakerResets ScrapesAnswer
