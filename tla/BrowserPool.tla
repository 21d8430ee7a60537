----------------------------- MODULE BrowserPool -----------------------------
(***************************************************************************)
(* The shared Chromium of src/infrastructure/fetchers/browser.py: pages on *)
(* one browser, its recycling after restart_after_pages pages, failures of *)
(* every call to Playwright, a crash of Chromium, and close() at shutdown. *)
(*                                                                         *)
(* A call of page() launches at most one browser, so a browser is named by *)
(* the number of the call that launched it, and so is the Playwright       *)
(* driver that the same call started for it.  An action is one wait of a   *)
(* coroutine with the code up to the next wait.                            *)
(***************************************************************************)
EXTENDS Integers, FiniteSets

CONSTANTS
  Fetches,       \* coroutines that may be in BrowserFetcher.fetch_html
  Closer,        \* the shutdown coroutine
  RestartAfter,  \* restart_after_pages
  MaxCalls,      \* bound: calls of fetch_html
  MaxFaults,     \* bound: calls to Playwright that fail
  MaxCrashes     \* bound: crashes of Chromium

ASSUME TaskAssumption == IsFiniteSet(Fetches) /\ Closer \notin Fetches
ASSUME RestartAssumption == RestartAfter \in Nat \ {0}
ASSUME BoundAssumption == MaxCalls \in Nat /\ MaxFaults \in Nat /\ MaxCrashes \in Nat

VARIABLES
  \* BrowserPool
  browser,     \* _browser: 0 for None
  driver,      \* _playwright: 0 for None
  pageCount,   \* _page_count
  lock,        \* the task that holds _lock: a set of at most one
  \* The coroutines
  pc,          \* where each task is
  call,        \* the number of the call a fetch still needs a page for
  pageOf,      \* the browser of the local "browser" in page(): 0 for none
  \* Chromium
  alive,       \* the browsers whose process runs
  contexts,    \* how many contexts each browser has open
  crashed,     \* history: the browsers that crashed
  served,      \* history: how many pages each browser was taken for
  \* The environment
  calls, faults

poolVars == <<browser, driver, pageCount, lock>>
chromeVars == <<alive, contexts, crashed>>
callVars == <<call, calls>>
vars == <<poolVars, pc, callVars, pageOf, chromeVars, served, faults>>

Tasks == Fetches \cup {Closer}
Browsers == 1..MaxCalls

\* The waits under the lock, and those of a fetch that has left it.
Locked == {"closing", "stopping", "starting", "launching"}
Unguarded == {"context", "route", "page", "use", "leave"}
\* The waits at which a fetch has a context of its own.
InContext == {"route", "page", "use", "leave"}

TypeOK ==
  /\ browser \in Browsers \cup {0} /\ driver \in Browsers \cup {0}
  /\ pageCount \in Nat
  /\ lock \in SUBSET Tasks
  /\ pc \in [Tasks -> {"idle", "wait", "closed"} \cup Locked \cup Unguarded]
  /\ pageOf \in [Fetches -> Browsers \cup {0}]
  /\ \A t \in Fetches : pc[t] \in Unguarded => pageOf[t] \in Browsers
  /\ alive \subseteq Browsers /\ crashed \subseteq Browsers
  /\ contexts \in [Browsers -> Int] /\ served \in [Browsers -> Nat]
  /\ call \in [Fetches -> Browsers \cup {0}]
  /\ \A t \in Fetches : pc[t] \in {"wait"} \cup Locked => call[t] \in Browsers
  /\ calls \in 0..MaxCalls /\ faults \in 0..MaxFaults

Init ==
  /\ browser = 0 /\ driver = 0 /\ pageCount = 0 /\ lock = {}
  /\ pc = [t \in Tasks |-> "idle"]
  /\ pageOf = [t \in Fetches |-> 0]
  /\ alive = {} /\ crashed = {}
  /\ contexts = [b \in Browsers |-> 0] /\ served = [b \in Browsers |-> 0]
  /\ call = [t \in Fetches |-> 0] /\ calls = 0 /\ faults = 0

Enter(t, place) == pc' = [pc EXCEPT ![t] = place]

\* A call to Playwright raises.
Fault == faults < MaxFaults /\ faults' = faults + 1
Answer == UNCHANGED faults

ShuttingDown == pc[Closer] # "idle"

-----------------------------------------------------------------------------
(* The pool, under its lock.                                               *)

\* fetch_html is called, by the adapter for one of its pages.
Call(t) ==
  /\ pc[t] = "idle" /\ ~ShuttingDown /\ calls < MaxCalls
  /\ Enter(t, "wait") /\ calls' = calls + 1 /\ call' = [call EXCEPT ![t] = calls']
  /\ UNCHANGED <<poolVars, pageOf, chromeVars, served, faults>>

\* The server drains its requests and then runs the end of lifespan(), where
\* the container closes the pool.
Shutdown ==
  /\ \A t \in Tasks : pc[t] = "idle"
  /\ Enter(Closer, "wait")
  /\ UNCHANGED <<poolVars, pageOf, chromeVars, served, callVars, faults>>

NeedsRestart_OneMore == browser = 0 \/ pageCount > RestartAfter
NeedsRestart == browser = 0 \/ pageCount >= RestartAfter

\* A fetch takes a page of the browser b and leaves the lock.
HandOut(t, b) ==
  /\ pageOf' = [pageOf EXCEPT ![t] = b]
  /\ served' = [served EXCEPT ![b] = @ + 1]
  /\ call' = [call EXCEPT ![t] = 0]
  /\ lock' = {} /\ Enter(t, "context")

\* page(): the lock is free and the browser good for one more page.
Reuse(t) ==
  /\ pc[t] = "wait" /\ lock = {} /\ ~NeedsRestart
  /\ pageCount' = pageCount + 1
  /\ HandOut(t, browser)
  /\ UNCHANGED <<browser, driver, chromeVars, calls, faults>>

\* What remains to be done under the lock with the browser b and the driver d:
\* a fetch goes on to launch, the closer is done.
Remaining(t, b, d) ==
  CASE b # 0 -> "closing"
    [] b = 0 /\ d # 0 -> "stopping"
    [] b = 0 /\ d = 0 -> IF t = Closer THEN "closed" ELSE "starting"

KeepLock(t) == lock' = IF pc'[t] \in Locked THEN {t} ELSE {}

\* page() has to restart the browser, or close() runs: _close_browser begins.
Recycle_NoLock(t) ==
  /\ pc[t] = "wait" /\ (t = Closer \/ NeedsRestart)
  /\ Enter(t, Remaining(t, browser, driver)) /\ KeepLock(t)
  /\ UNCHANGED <<browser, driver, pageCount, pageOf, chromeVars, served, callVars, faults>>
Recycle(t) ==
  /\ pc[t] = "wait" /\ lock = {} /\ (t = Closer \/ NeedsRestart)
  /\ Enter(t, Remaining(t, browser, driver)) /\ KeepLock(t)
  /\ UNCHANGED <<browser, driver, pageCount, pageOf, chromeVars, served, callVars, faults>>

\* browser.close(): a failure is logged, and the process may then still run.
CloseBrowser_SkipStop(t) ==
  /\ pc[t] = "closing"
  /\ \/ Answer /\ alive' = alive \ {browser}
     \/ Fault /\ UNCHANGED alive
  /\ browser' = 0
  /\ driver' = IF faults' = faults THEN driver ELSE 0
  /\ Enter(t, Remaining(t, 0, driver')) /\ KeepLock(t)
  /\ UNCHANGED <<pageCount, pageOf, contexts, crashed, served, callVars>>
CloseBrowser(t) ==
  /\ pc[t] = "closing"
  /\ \/ Answer /\ alive' = alive \ {browser}
     \/ Fault /\ UNCHANGED alive
  /\ browser' = 0
  /\ Enter(t, Remaining(t, 0, driver)) /\ KeepLock(t)
  /\ UNCHANGED <<driver, pageCount, pageOf, contexts, crashed, served, callVars>>

\* playwright.stop(): ends the driver and what it launched; a failure is
\* suppressed.
StopDriver(t) ==
  /\ pc[t] = "stopping"
  /\ \/ Answer /\ alive' = alive \ {driver}
     \/ Fault /\ UNCHANGED alive
  /\ driver' = 0
  /\ Enter(t, Remaining(t, 0, 0)) /\ KeepLock(t)
  /\ UNCHANGED <<browser, pageCount, pageOf, contexts, crashed, served, callVars>>

\* async_playwright().start()
StartDriver(t) ==
  /\ pc[t] = "starting"
  /\ Answer /\ driver' = call[t]
  /\ Enter(t, "launching")
  /\ UNCHANGED <<browser, pageCount, lock, callVars, pageOf, chromeVars, served>>

\* chromium.launch(), and the rest of page() under the lock.
Launch_KeepCount(t) ==
  /\ pc[t] = "launching"
  /\ Answer /\ browser' = driver /\ alive' = alive \cup {driver}
  /\ pageCount' = pageCount + 1
  /\ HandOut(t, driver)
  /\ UNCHANGED <<driver, contexts, crashed, calls>>
Launch(t) ==
  /\ pc[t] = "launching"
  /\ Answer /\ browser' = driver /\ alive' = alive \cup {driver}
  /\ pageCount' = 1
  /\ HandOut(t, driver)
  /\ UNCHANGED <<driver, contexts, crashed, calls>>

\* Either raises out of page(): the lock is released, the driver is kept.
StartFails_KeepLock(t) ==
  /\ pc[t] \in {"starting", "launching"}
  /\ Fault /\ Enter(t, "idle") /\ call' = [call EXCEPT ![t] = 0]
  /\ UNCHANGED <<poolVars, pageOf, chromeVars, served, calls>>
StartFails(t) ==
  /\ pc[t] \in {"starting", "launching"}
  /\ Fault /\ Enter(t, "idle") /\ lock' = {} /\ call' = [call EXCEPT ![t] = 0]
  /\ UNCHANGED <<browser, driver, pageCount, pageOf, chromeVars, served, calls>>

-----------------------------------------------------------------------------
(* The page, outside the lock.                                             *)

pageFrame == <<poolVars, pageOf, alive, crashed, served, callVars>>

\* browser.new_context()
NewContext(t) ==
  /\ pc[t] = "context" /\ pageOf[t] \in alive
  /\ Answer /\ contexts' = [contexts EXCEPT ![pageOf[t]] = @ + 1]
  /\ Enter(t, "route")
  /\ UNCHANGED pageFrame

\* context.route(), context.new_page(), and the calls on the page
Proceed(t) ==
  /\ pageOf[t] \in alive /\ Answer
  /\ \/ pc[t] = "route" /\ Enter(t, "page")
     \/ pc[t] = "page" /\ Enter(t, "use")
     \/ pc[t] = "use" /\ Enter(t, "leave")
  /\ UNCHANGED <<pageFrame, contexts>>

\* A call fails, as all calls do once the browser is gone: before the page
\* exists page() raises with its context open, afterwards the finally runs.
PageFails(t) ==
  /\ pc[t] \in {"context", "route", "page", "use"}
  /\ IF pageOf[t] \in alive THEN Fault ELSE Answer
  /\ Enter(t, IF pc[t] = "use" THEN "leave" ELSE "idle")
  /\ UNCHANGED <<pageFrame, contexts>>

\* A variant that closes the page and not its context.
CloseContext_PageOnly(t) ==
  /\ pc[t] = "leave" /\ Answer /\ Enter(t, "idle")
  /\ UNCHANGED <<pageFrame, contexts>>

\* context.close() in the finally clause, and the end of fetch_html
CloseContext(t) ==
  /\ pc[t] = "leave"
  /\ \/ Answer /\ contexts' = [contexts EXCEPT ![pageOf[t]] = @ - 1]
     \/ Fault /\ UNCHANGED contexts
  /\ Enter(t, "idle")
  /\ UNCHANGED pageFrame

\* Chromium ends by itself; the pool does not notice.
ChromiumCrashes(b) ==
  /\ b \in alive /\ Cardinality(crashed) < MaxCrashes
  /\ alive' = alive \ {b} /\ crashed' = crashed \cup {b}
  /\ UNCHANGED <<poolVars, pc, pageOf, contexts, served, callVars, faults>>

-----------------------------------------------------------------------------
UnderLock(t) == Recycle(t) \/ CloseBrowser(t) \/ StopDriver(t)
FetchStep(t) ==
  \/ Reuse(t) \/ UnderLock(t) \/ StartDriver(t) \/ Launch(t) \/ StartFails(t)
  \/ NewContext(t) \/ Proceed(t) \/ PageFails(t) \/ CloseContext(t)

Next ==
  \/ \E t \in Fetches : Call(t) \/ FetchStep(t)
  \/ Shutdown \/ UnderLock(Closer)
  \/ \E b \in Browsers : ChromiumCrashes(b)

Spec == Init /\ [][Next]_vars

\* asyncio.Lock wakes its waiters in order, so one that waits for a lock that
\* is free again and again gets it; every call to Playwright ends, by its
\* timeout at the latest.
FairSpec ==
  /\ Spec
  /\ \A t \in Fetches : SF_vars(Reuse(t) \/ Recycle(t)) /\ WF_vars(FetchStep(t))
  /\ SF_vars(Recycle(Closer)) /\ WF_vars(UnderLock(Closer))

-----------------------------------------------------------------------------
(* Properties.                                                             *)

\* No browser is taken for more pages than restart_after_pages, whoever waits
\* while it is recycled; this is also how long a crashed one is still used.
ServedWithinBound == \A b \in Browsers : served[b] <= RestartAfter

\* A page loses its browser only to a recycle of one that has served all its
\* pages, or to a crash: no other fetch closes it by mistake.
LostOnlyByRecycle ==
  \A t \in Fetches :
    pc[t] \in Unguarded /\ pageOf[t] \notin alive
      => pageOf[t] \in crashed \/ served[pageOf[t]] = RestartAfter

\* "One Chromium browser": a process the pool has lost sight of, at shutdown
\* too, has survived a failed close and a failed stop.
OrphansTakeTwoFailures == 2 * Cardinality(alive \ {driver}) <= faults

\* The fetches that have a context of the browser b.
InUse(b) == {t \in Fetches : pc[t] \in InContext /\ pageOf[t] = b}

\* A context is left open in a running browser only by a failed call, and nobody
\* closes the context of another: page() opens it three calls before the try
\* whose finally closes it (browser.py:105-126).
LeaksTakeFailures ==
  \A b \in alive :
    LET inUse == Cardinality(InUse(b))
    IN inUse <= contexts[b] /\ contexts[b] - inUse <= faults

\* Every fetch ends, and so does a shutdown: a failure under the lock releases
\* it.
WaitsEnd ==
  /\ \A t \in Fetches : pc[t] = "wait" ~> pc[t] = "idle"
  /\ ShuttingDown ~> pc[Closer] = "closed"
=============================================================================
