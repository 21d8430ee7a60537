\* Two fetches on a browser that is recycled after two pages, with failures,
\* a crash of Chromium and the shutdown.  The pool stops after close().
SPECIFICATION FairSpec
CONSTANTS
  Fetches = {f1, f2}
  Closer = closer
  RestartAfter = 2
  MaxCalls = 4
  MaxFaults = 2
  MaxCrashes = 1
CHECK_DEADLOCK FALSE
INVARIANTS TypeOK ServedWithinBound LostOnlyByRecycle OrphansTakeTwoFailures LeaksTakeFailures
PROPERTY WaitsEnd
