\* A record seen again with another dedup hash, one scrape.
SPECIFICATION Spec
CONSTANTS
  x = x
  y = y
  z = z
  a = a
  Records = {x, y, z}
  Adapters = {a}
  FeedOf <- MCFeedOf
  SourceOf <- MCSourceOf
  HashOf <- MCHashOf
  Requests = {r1}
  Threshold = 1
  MaxLog = 2
  MaxFaults = 0
  MaxCrashes = 0
INVARIANT ConflictIsSkipped
