\* Two scrapes of one adapter, faults and a crash.
SPECIFICATION Spec
CONSTANTS
  x = x
  y = y
  z = z
  a = a
  Records = {x, y, z}
  Adapters = {a}
  FeedOf <- MCFeedOf
  SourceOf <- MCSourceOf
  HashOf <- MCHashOf
  Requests = {r1, r2}
  Threshold = 2
  MaxLog = 3
  MaxFaults = 1
  MaxCrashes = 1
SYMMETRY RequestSymmetry
INVARIANTS TypeOK KeysStayUnique SuccessMeansStored EveryRowOffered
