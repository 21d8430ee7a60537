-------------------------- MODULE BrowserPoolProofs --------------------------
(***************************************************************************)
(* Theorems about BrowserPool, for any number of concurrent fetches, any   *)
(* restart_after_pages and any failures: its types, the pages a browser    *)
(* serves, what may end a page's browser, and the processes left behind.   *)
(***************************************************************************)
EXTENDS BrowserPool, FiniteSetTheorems, TLAPS

\* The lock is held by the task that is at a wait under it, and by no other.
LockHeld ==
  /\ \A t \in Tasks : pc[t] \in Locked <=> lock = {t}
  /\ lock = {} \/ \E t \in Tasks : lock = {t}

\* What the holder of the lock knows of the pool.
HolderKnows ==
  \A t \in Tasks :
    /\ pc[t] = "closing" => browser # 0
    /\ pc[t] = "stopping" => browser = 0 /\ driver # 0
    /\ pc[t] = "starting" => browser = 0 /\ driver = 0 /\ t # Closer
    /\ pc[t] = "launching" => browser = 0 /\ t # Closer /\ driver = call[t]

\* A shutdown finds no fetch at work, and takes no page.
QuietShutdown ==
  /\ ShuttingDown => \A t \in Fetches : pc[t] = "idle"
  /\ pc[Closer] \in {"idle", "wait", "closed"} \cup Locked

\* The name a fetch would give to a browser is its own, and not yet in use.
NamesAreFresh ==
  \A t \in Fetches : call[t] # 0 =>
    /\ served[call[t]] = 0 /\ call[t] \notin alive
    /\ call[t] = driver => pc[t] = "launching"
    /\ call[t] <= calls
    /\ \A s \in Fetches \ {t} : call[s] # call[t]
CallsAreFresh ==
  \A b \in Browsers : b > calls => served[b] = 0 /\ b \notin alive /\ b # driver

\* The count of the pool is that of the browser it drives.
CountIsServed ==
  /\ browser # 0 => /\ browser = driver /\ browser \in alive \cup crashed
                    /\ pageCount = served[browser] /\ pageCount > 0
  /\ \A t \in Fetches : pc[t] \in Unguarded => served[pageOf[t]] > 0

\* A fetch ends only what has served its pages, or none.
EndedIsSpent ==
  /\ \A t \in Fetches : pc[t] = "closing" => pageCount >= RestartAfter
  /\ browser = 0 /\ driver # 0 /\ ~ShuttingDown => served[driver] \in {0, RestartAfter}

PoolInv ==
  /\ LockHeld /\ HolderKnows /\ QuietShutdown /\ NamesAreFresh /\ CallsAreFresh
  /\ CountIsServed /\ ServedWithinBound /\ EndedIsSpent

\* Between a failed close and the stop one failure is not yet paid for.
OrphanInv ==
  /\ OrphansTakeTwoFailures
  /\ browser = 0 /\ driver \in alive => 2 * Cardinality(alive \ {driver}) + 1 <= faults

-----------------------------------------------------------------------------
(* Steps.                                                                  *)

\* A step of a fetch that has a browser: only its place, the contexts and the
\* count of failures change.
PageStep(t) == NewContext(t) \/ Proceed(t) \/ PageFails(t) \/ CloseContext(t)

LEMMA PageFrame ==
  ASSUME NEW t \in Fetches, PageStep(t)
  PROVE  /\ pc[t] \in Unguarded
         /\ \E place \in Unguarded \cup {"idle"} : Enter(t, place)
         /\ faults' = faults \/ Fault
         /\ UNCHANGED pageFrame
  BY DEF PageStep, NewContext, Proceed, PageFails, CloseContext, Answer, Unguarded, pageFrame

LEMMA PoolCases ==
  ASSUME [Next]_vars
  PROVE  \/ \E t \in Fetches : \/ Call(t) \/ Reuse(t) \/ StartDriver(t) \/ Launch(t) \/ StartFails(t)
                               \/ PageStep(t)
         \/ \E t \in Tasks : Recycle(t) \/ CloseBrowser(t) \/ StopDriver(t)
         \/ Shutdown
         \/ \E b \in Browsers : ChromiumCrashes(b)
         \/ UNCHANGED vars
  BY DEF Next, FetchStep, UnderLock, PageStep, Tasks

-----------------------------------------------------------------------------
(* Types.                                                                  *)

LEMMA TypeInit == Init => TypeOK
  BY BoundAssumption DEF Init, TypeOK, Unguarded, Locked, Tasks

LEMMA TypeStep == TypeOK /\ PoolInv /\ [Next]_vars => TypeOK'
<1> SUFFICES ASSUME TypeOK, PoolInv, [Next]_vars PROVE TypeOK'
  OBVIOUS
<1> USE BoundAssumption DEF TypeOK, Tasks, Enter, poolVars, chromeVars, callVars, Locked, Unguarded
<1>1. ASSUME NEW t \in Fetches, Call(t) PROVE TypeOK'
  <2>1. calls' \in 0..MaxCalls /\ calls' \in Browsers
    BY <1>1 DEF Call, Browsers
  <2>2. call' \in [Fetches -> Browsers \cup {0}] /\ call'[t] \in Browsers
    BY <1>1, <2>1 DEF Call
  <2> QED BY <1>1, <2>1, <2>2 DEF Call
<1>2. ASSUME NEW t \in Fetches, Reuse(t) PROVE TypeOK'
  BY <1>2 DEF Reuse, HandOut, NeedsRestart
<1>3. ASSUME NEW t \in Tasks, Recycle(t) PROVE TypeOK'
  BY <1>3, TaskAssumption DEF Recycle, KeepLock, Remaining
<1>4. ASSUME NEW t \in Tasks, CloseBrowser(t) PROVE TypeOK'
  BY <1>4, TaskAssumption DEF CloseBrowser, KeepLock, Remaining, Answer, Fault
<1>5. ASSUME NEW t \in Tasks, StopDriver(t) PROVE TypeOK'
  BY <1>5, TaskAssumption DEF StopDriver, KeepLock, Remaining, Answer, Fault
<1>6. ASSUME NEW t \in Fetches, StartDriver(t) PROVE TypeOK'
  BY <1>6 DEF StartDriver, Answer
<1>7. ASSUME NEW t \in Fetches, Launch(t) PROVE TypeOK'
  BY <1>7 DEF Launch, HandOut, Answer, PoolInv, HolderKnows
<1>8. ASSUME NEW t \in Fetches, StartFails(t) PROVE TypeOK'
  BY <1>8 DEF StartFails, Fault
<1>9. ASSUME NEW t \in Fetches, PageStep(t) PROVE TypeOK'
  <2>1. contexts' \in [Browsers -> Int]
    BY <1>9 DEF PageStep, NewContext, Proceed, PageFails, CloseContext
  <2> QED BY <1>9, <2>1, PageFrame DEF pageFrame, Fault
<1>10. CASE Shutdown \/ \E b \in Browsers : ChromiumCrashes(b)
  BY <1>10, TaskAssumption DEF Shutdown, ChromiumCrashes
<1>11. CASE UNCHANGED vars
  BY <1>11 DEF vars
<1> QED BY <1>1, <1>2, <1>3, <1>4, <1>5, <1>6, <1>7, <1>8, <1>9, <1>10, <1>11, PoolCases

-----------------------------------------------------------------------------
(* The pool under its lock: one lemma for each part of PoolInv.            *)

LEMMA PoolInit == Init => PoolInv
  BY RestartAssumption DEF Init, PoolInv, LockHeld, HolderKnows, QuietShutdown, NamesAreFresh,
     CallsAreFresh, CountIsServed, ServedWithinBound, EndedIsSpent, ShuttingDown, Tasks, Locked,
     Unguarded, Browsers

\* A task that has the lock, or finds it free, goes on to a place.
LEMMA HolderMoves ==
  ASSUME TypeOK, LockHeld, HolderKnows, QuietShutdown, NEW t \in Tasks, NEW place,
         Enter(t, place), lock \in {{}, {t}}, lock' = IF place \in Locked THEN {t} ELSE {},
         place = "closing" => browser' # 0,
         place = "stopping" => browser' = 0 /\ driver' # 0,
         place = "starting" => browser' = 0 /\ driver' = 0 /\ t # Closer,
         place = "launching" => browser' = 0 /\ t # Closer /\ driver' = call'[t],
         t \in Fetches => ~ShuttingDown,
         t = Closer => ShuttingDown /\ place \in {"closed"} \cup Locked
  PROVE  LockHeld' /\ HolderKnows' /\ QuietShutdown'
<1>1. pc'[t] = place /\ \A s \in Tasks \ {t} : pc'[s] = pc[s]
  BY DEF Enter, TypeOK
<1>2. \A s \in Tasks \ {t} : pc[s] \notin Locked
  BY DEF LockHeld
<1>3. LockHeld'
  BY <1>1, <1>2 DEF LockHeld
<1>4. HolderKnows'
  BY <1>1, <1>2 DEF HolderKnows, Locked
<1>5. QuietShutdown'
  BY <1>1, TaskAssumption DEF QuietShutdown, ShuttingDown, Tasks
<1> QED BY <1>3, <1>4, <1>5

\* A fetch goes from a place outside the lock to another.
LEMMA OutsiderMoves ==
  ASSUME TypeOK, LockHeld, HolderKnows, QuietShutdown, NEW t \in Fetches, NEW place,
         Enter(t, place), pc[t] \notin Locked, place \notin Locked, ~ShuttingDown,
         UNCHANGED <<lock, browser, driver>>, \A s \in Tasks \ {t} : call'[s] = call[s]
  PROVE  LockHeld' /\ HolderKnows' /\ QuietShutdown'
<1>0. t \in Tasks /\ t # Closer
  BY TaskAssumption DEF Tasks
<1>1. pc'[t] = place /\ \A s \in Tasks \ {t} : pc'[s] = pc[s]
  BY <1>0 DEF Enter, TypeOK
<1>2. LockHeld'
  BY <1>0, <1>1 DEF LockHeld
<1>3. HolderKnows'
  BY <1>0, <1>1 DEF HolderKnows, Locked
<1>4. QuietShutdown'
  BY <1>0, <1>1 DEF QuietShutdown, ShuttingDown, Tasks
<1> QED BY <1>2, <1>3, <1>4

\* What remains to be done under the lock is a place there, or the end.
LEMMA RemainingPlaces ==
  ASSUME NEW t, NEW b, NEW d
  PROVE  /\ Remaining(t, b, d) \in {"closing", "stopping", "starting", "closed"}
         /\ Remaining(t, b, d) = "closing" => b # 0
         /\ Remaining(t, b, d) = "stopping" => b = 0 /\ d # 0
         /\ Remaining(t, b, d) = "starting" => b = 0 /\ d = 0 /\ t # Closer
         /\ Remaining(t, b, d) = "closed" => t = Closer
  BY DEF Remaining

\* A task at work shuts down if and only if it is the one that does so.
LEMMA AtWork ==
  ASSUME TypeOK, QuietShutdown, NEW t \in Tasks, pc[t] # "idle"
  PROVE  (t \in Fetches => ~ShuttingDown) /\ (t = Closer => ShuttingDown)
  BY DEF QuietShutdown, ShuttingDown

\* A task that goes on with what remains, under the lock it holds or takes.
LEMMA GoesOn ==
  ASSUME TypeOK, LockHeld, HolderKnows, QuietShutdown, NEW t \in Tasks, pc[t] # "idle",
         lock \in {{}, {t}}, Enter(t, Remaining(t, browser', driver')), KeepLock(t)
  PROVE  LockHeld' /\ HolderKnows' /\ QuietShutdown'
<1> DEFINE place == Remaining(t, browser', driver')
<1>1. pc'[t] = place
  BY DEF Enter, TypeOK
<1>2. lock' = IF place \in Locked THEN {t} ELSE {}
  BY <1>1 DEF KeepLock
<1>3. /\ place \in {"closing", "stopping", "starting", "closed"}
      /\ place = "closing" => browser' # 0
      /\ place = "stopping" => browser' = 0 /\ driver' # 0
      /\ place = "starting" => browser' = 0 /\ driver' = 0 /\ t # Closer
  BY RemainingPlaces
<1>4. Enter(t, place)
  OBVIOUS
<1> HIDE DEF place
<1>5. place # "launching" /\ place \in {"closed"} \cup Locked
  BY <1>3 DEF Locked
<1> QED BY <1>2, <1>3, <1>4, <1>5, AtWork, HolderMoves

LEMMA LockStep == TypeOK /\ PoolInv /\ [Next]_vars => LockHeld' /\ HolderKnows' /\ QuietShutdown'
<1> SUFFICES ASSUME TypeOK, PoolInv, [Next]_vars PROVE LockHeld' /\ HolderKnows' /\ QuietShutdown'
  OBVIOUS
<1>a. LockHeld /\ HolderKnows /\ QuietShutdown
  BY DEF PoolInv
<1>b. \A t \in Tasks : pc[t] \in Locked => lock = {t}
  BY <1>a DEF LockHeld
<1>c. Fetches \subseteq Tasks
  BY DEF Tasks
<1>1. ASSUME NEW t \in Fetches, Call(t) PROVE LockHeld' /\ HolderKnows' /\ QuietShutdown'
  <2>1. /\ Enter(t, "wait") /\ pc[t] \notin Locked /\ "wait" \notin Locked /\ ~ShuttingDown
        /\ UNCHANGED <<lock, browser, driver>> /\ call' = [call EXCEPT ![t] = calls']
    BY <1>1 DEF Call, poolVars, Locked
  <2>2. \A s \in Tasks \ {t} : call'[s] = call[s]
    BY <2>1 DEF TypeOK
  <2> QED BY <1>a, <2>1, <2>2, OutsiderMoves
<1>2. ASSUME NEW t \in Fetches, Reuse(t) PROVE LockHeld' /\ HolderKnows' /\ QuietShutdown'
  <2>1. Enter(t, "context") /\ lock = {} /\ lock' = {} /\ pc[t] # "idle" /\ t # Closer
    BY <1>2, TaskAssumption DEF Reuse, HandOut
  <2>2. "context" \notin Locked
    BY DEF Locked
  <2> QED BY <1>a, <1>c, <2>1, <2>2, AtWork, HolderMoves
<1>3. ASSUME NEW t \in Tasks, Recycle(t) PROVE LockHeld' /\ HolderKnows' /\ QuietShutdown'
  <2>1. /\ lock = {} /\ pc[t] # "idle" /\ browser' = browser /\ driver' = driver
        /\ Enter(t, Remaining(t, browser, driver)) /\ KeepLock(t)
    BY <1>3 DEF Recycle, poolVars
  <2> QED BY <1>a, <2>1, GoesOn
<1>4. ASSUME NEW t \in Tasks, CloseBrowser(t) PROVE LockHeld' /\ HolderKnows' /\ QuietShutdown'
  <2>1. /\ pc[t] = "closing" /\ browser' = 0 /\ driver' = driver
        /\ Enter(t, Remaining(t, 0, driver)) /\ KeepLock(t)
    BY <1>4 DEF CloseBrowser
  <2>2. lock = {t}
    BY <1>b, <2>1 DEF Locked
  <2> QED BY <1>a, <2>1, <2>2, GoesOn
<1>5. ASSUME NEW t \in Tasks, StopDriver(t) PROVE LockHeld' /\ HolderKnows' /\ QuietShutdown'
  <2>1. pc[t] = "stopping" /\ browser' = browser /\ driver' = 0 /\ Enter(t, Remaining(t, 0, 0)) /\ KeepLock(t)
    BY <1>5 DEF StopDriver
  <2>2. lock = {t} /\ browser = 0
    BY <1>a, <1>b, <2>1 DEF Locked, HolderKnows
  <2> QED BY <1>a, <2>1, <2>2, GoesOn
<1>6. ASSUME NEW t \in Fetches, StartDriver(t) PROVE LockHeld' /\ HolderKnows' /\ QuietShutdown'
  <2>1. /\ pc[t] = "starting" /\ Enter(t, "launching") /\ lock' = lock /\ browser' = browser
        /\ driver' = call[t] /\ call' = call
    BY <1>6 DEF StartDriver, callVars
  <2>2. lock = {t} /\ browser = 0 /\ t # Closer /\ "launching" \in Locked
    BY <1>a, <1>b, <1>c, <2>1, TaskAssumption DEF Locked, HolderKnows
  <2> QED BY <1>a, <1>c, <2>1, <2>2, AtWork, HolderMoves
<1>7. ASSUME NEW t \in Fetches, Launch(t) \/ StartFails(t)
      PROVE  LockHeld' /\ HolderKnows' /\ QuietShutdown'
  <2>1. pc[t] \in {"starting", "launching"} /\ lock' = {} /\ (Enter(t, "context") \/ Enter(t, "idle"))
    BY <1>7 DEF Launch, StartFails, HandOut
  <2>2. lock = {t} /\ t # Closer /\ "context" \notin Locked /\ "idle" \notin Locked
    BY <1>b, <1>c, <2>1, TaskAssumption DEF Locked
  <2> QED BY <1>a, <1>c, <2>1, <2>2, AtWork, HolderMoves
<1>8. ASSUME NEW t \in Fetches, PageStep(t) PROVE LockHeld' /\ HolderKnows' /\ QuietShutdown'
  <2>1. /\ pc[t] \in Unguarded /\ \E place \in Unguarded \cup {"idle"} : Enter(t, place)
        /\ UNCHANGED pageFrame
    BY <1>8, PageFrame
  <2>2. PICK place \in Unguarded \cup {"idle"} : Enter(t, place)
    BY <2>1
  <2>3. pc[t] \notin Locked /\ place \notin Locked /\ pc[t] # "idle"
    BY <2>1 DEF Locked, Unguarded
  <2>4. UNCHANGED <<lock, browser, driver>> /\ call' = call
    BY <2>1 DEF pageFrame, poolVars, callVars
  <2> QED BY <1>a, <1>c, <2>2, <2>3, <2>4, AtWork, OutsiderMoves
<1>9. CASE Shutdown
  <2>1. /\ \A s \in Tasks : pc[s] = "idle"
        /\ Enter(Closer, "wait") /\ UNCHANGED <<lock, browser, driver, call>>
    BY <1>9 DEF Shutdown, poolVars, callVars
  <2>2. pc'[Closer] = "wait" /\ \A s \in Tasks \ {Closer} : pc'[s] = "idle"
    BY <2>1 DEF Enter, TypeOK, Tasks
  <2>3. \A s \in Tasks : pc'[s] \notin Locked /\ pc[s] \notin Locked
    BY <2>1, <2>2 DEF Locked
  <2>4. LockHeld'
    BY <1>a, <2>1, <2>3 DEF LockHeld
  <2>5. HolderKnows'
    BY <2>3 DEF HolderKnows, Locked
  <2>6. QuietShutdown'
    BY <2>2, TaskAssumption DEF QuietShutdown, Tasks
  <2> QED BY <2>4, <2>5, <2>6
<1>10. ASSUME UNCHANGED <<poolVars, pc, call>> PROVE LockHeld' /\ HolderKnows' /\ QuietShutdown'
  BY <1>a, <1>10 DEF poolVars, LockHeld, HolderKnows, QuietShutdown, ShuttingDown
<1>11. CASE \E b \in Browsers : ChromiumCrashes(b)
  BY <1>10, <1>11 DEF ChromiumCrashes, callVars
<1>12. CASE UNCHANGED vars
  BY <1>10, <1>12 DEF vars, callVars
<1> QED BY <1>1, <1>2, <1>3, <1>4, <1>5, <1>6, <1>7, <1>8, <1>9, <1>11, <1>12, PoolCases

LEMMA NamesStep == TypeOK /\ PoolInv /\ [Next]_vars => NamesAreFresh' /\ CallsAreFresh'
<1> SUFFICES ASSUME TypeOK, PoolInv, [Next]_vars PROVE NamesAreFresh' /\ CallsAreFresh'
  OBVIOUS
<1> USE TaskAssumption, BoundAssumption DEF TypeOK, PoolInv, LockHeld, HolderKnows, NamesAreFresh,
    CallsAreFresh, CountIsServed, Tasks, Enter, poolVars, chromeVars, callVars, Locked, Unguarded,
    Browsers
<1>1. ASSUME NEW t \in Fetches, Call(t) PROVE NamesAreFresh' /\ CallsAreFresh'
  <2>1. calls' \in Browsers /\ calls' > calls /\ call' = [call EXCEPT ![t] = calls']
    BY <1>1 DEF Call
  <2>2. UNCHANGED <<served, alive, driver>> /\ \A s \in Fetches \ {t} : pc'[s] = pc[s]
    BY <1>1 DEF Call
  <2>3. CallsAreFresh'
    BY <2>1, <2>2
  <2>4. ASSUME NEW s \in Fetches, call'[s] # 0
        PROVE  /\ served'[call'[s]] = 0 /\ call'[s] \notin alive'
               /\ call'[s] = driver' => pc'[s] = "launching"
               /\ call'[s] <= calls'
               /\ \A u \in Fetches \ {s} : call'[u] # call'[s]
    <3>1. CASE s = t
      BY <2>1, <2>2, <3>1
    <3>2. CASE s # t
      BY <2>1, <2>2, <2>4, <3>2
    <3> QED BY <3>1, <3>2
  <2> QED BY <2>3, <2>4
<1>2. ASSUME NEW t \in Fetches, Reuse(t) PROVE NamesAreFresh' /\ CallsAreFresh'
  BY <1>2 DEF Reuse, HandOut, NeedsRestart
<1>3. ASSUME NEW t \in Tasks, Recycle(t) PROVE NamesAreFresh' /\ CallsAreFresh'
  BY <1>3 DEF Recycle
<1>4. ASSUME NEW t \in Tasks, CloseBrowser(t) \/ StopDriver(t)
      PROVE  NamesAreFresh' /\ CallsAreFresh'
  <2>1. driver' \in {driver, 0} /\ alive' \subseteq alive /\ UNCHANGED <<served, callVars>>
    BY <1>4 DEF CloseBrowser, StopDriver
  <2>2. pc[t] # "launching" /\ \A s \in Tasks \ {t} : pc'[s] = pc[s]
    BY <1>4 DEF CloseBrowser, StopDriver
  <2>3. CallsAreFresh'
    BY <2>1
  <2>4. ASSUME NEW s \in Fetches, call[s] # 0, call[s] = driver' PROVE pc'[s] = "launching"
    BY <2>1, <2>2, <2>4
  <2>5. NamesAreFresh'
    BY <2>1, <2>4
  <2> QED BY <2>3, <2>5
<1>5. ASSUME NEW t \in Fetches, StartDriver(t) PROVE NamesAreFresh' /\ CallsAreFresh'
  BY <1>5 DEF StartDriver
<1>6. ASSUME NEW t \in Fetches, Launch(t) PROVE NamesAreFresh' /\ CallsAreFresh'
  <2>1. /\ pc[t] = "launching" /\ driver = call[t] /\ call[t] # 0 /\ call' = [call EXCEPT ![t] = 0]
        /\ served' = [served EXCEPT ![driver] = @ + 1] /\ alive' = alive \cup {driver}
        /\ calls' = calls /\ driver' = driver
    BY <1>6 DEF Launch, HandOut
  <2>2. \A s \in Fetches \ {t} : call[s] # driver \/ call[s] = 0
    BY <2>1
  <2>3. CallsAreFresh'
    BY <2>1
  <2>4. call'[t] = 0 /\ \A s \in Fetches \ {t} : call'[s] = call[s]
    BY <2>1
  <2>5. NamesAreFresh'
    BY <2>1, <2>2, <2>4
  <2> QED BY <2>3, <2>5
<1>7. ASSUME NEW t \in Fetches, StartFails(t) PROVE NamesAreFresh' /\ CallsAreFresh'
  BY <1>7 DEF StartFails
<1>8. ASSUME NEW t \in Fetches, PageStep(t) PROVE NamesAreFresh' /\ CallsAreFresh'
  <2>1. UNCHANGED <<driver, alive, served, callVars>>
    BY <1>8, PageFrame DEF pageFrame
  <2>2. pc[t] # "launching" /\ \A s \in Fetches \ {t} : pc'[s] = pc[s]
    <3>1. pc[t] \in Unguarded /\ \E place : Enter(t, place)
      BY <1>8, PageFrame
    <3> QED BY <3>1
  <2>3. CallsAreFresh'
    BY <2>1
  <2>4. ASSUME NEW s \in Fetches, call[s] # 0, call[s] = driver PROVE pc'[s] = "launching"
    BY <2>2, <2>4
  <2>5. NamesAreFresh'
    BY <2>1, <2>4
  <2> QED BY <2>3, <2>5
<1>9. CASE Shutdown
  BY <1>9 DEF Shutdown
<1>10. CASE \E b \in Browsers : ChromiumCrashes(b)
  BY <1>10 DEF ChromiumCrashes
<1>11. CASE UNCHANGED vars
  BY <1>11 DEF vars
<1> QED BY <1>1, <1>2, <1>3, <1>4, <1>5, <1>6, <1>7, <1>8, <1>9, <1>10, <1>11, PoolCases

LEMMA CountStep ==
  TypeOK /\ PoolInv /\ [Next]_vars => CountIsServed' /\ ServedWithinBound' /\ EndedIsSpent'
<1> SUFFICES ASSUME TypeOK, PoolInv, [Next]_vars
             PROVE  CountIsServed' /\ ServedWithinBound' /\ EndedIsSpent'
  OBVIOUS
<1> USE TaskAssumption, RestartAssumption DEF TypeOK, PoolInv, HolderKnows, QuietShutdown,
    CountIsServed, ServedWithinBound, EndedIsSpent, ShuttingDown, Tasks, Enter, poolVars,
    chromeVars, callVars, Locked, Unguarded
<1>1. ASSUME NEW t \in Fetches, Call(t)
      PROVE  CountIsServed' /\ ServedWithinBound' /\ EndedIsSpent'
  BY <1>1 DEF Call
<1>2. ASSUME NEW t \in Fetches, Reuse(t)
      PROVE  CountIsServed' /\ ServedWithinBound' /\ EndedIsSpent'
  BY <1>2 DEF Reuse, HandOut, NeedsRestart, LockHeld
<1>3. ASSUME NEW t \in Tasks, Recycle(t)
      PROVE  CountIsServed' /\ ServedWithinBound' /\ EndedIsSpent'
  BY <1>3 DEF Recycle, NeedsRestart, Remaining
<1>4. ASSUME NEW t \in Tasks, CloseBrowser(t)
      PROVE  CountIsServed' /\ ServedWithinBound' /\ EndedIsSpent'
  BY <1>4 DEF CloseBrowser, Remaining
<1>5. ASSUME NEW t \in Tasks, StopDriver(t)
      PROVE  CountIsServed' /\ ServedWithinBound' /\ EndedIsSpent'
  BY <1>5 DEF StopDriver, Remaining
<1>6. ASSUME NEW t \in Fetches, StartDriver(t)
      PROVE  CountIsServed' /\ ServedWithinBound' /\ EndedIsSpent'
  BY <1>6 DEF StartDriver, NamesAreFresh, Browsers
<1>7. ASSUME NEW t \in Fetches, Launch(t)
      PROVE  CountIsServed' /\ ServedWithinBound' /\ EndedIsSpent'
  BY <1>7 DEF Launch, HandOut, NamesAreFresh, LockHeld, Browsers
<1>8. ASSUME NEW t \in Fetches, StartFails(t)
      PROVE  CountIsServed' /\ ServedWithinBound' /\ EndedIsSpent'
  BY <1>8 DEF StartFails, NamesAreFresh, Browsers
<1>9. ASSUME NEW t \in Fetches, PageStep(t)
      PROVE  CountIsServed' /\ ServedWithinBound' /\ EndedIsSpent'
  BY <1>9, PageFrame DEF pageFrame
<1>10. CASE Shutdown \/ \E b \in Browsers : ChromiumCrashes(b)
  BY <1>10 DEF Shutdown, ChromiumCrashes
<1>11. CASE UNCHANGED vars
  BY <1>11 DEF vars
<1> QED BY <1>1, <1>2, <1>3, <1>4, <1>5, <1>6, <1>7, <1>8, <1>9, <1>10, <1>11, PoolCases

LEMMA PoolCorrect == Spec => [](TypeOK /\ PoolInv)
<1>1. TypeOK /\ PoolInv /\ [Next]_vars => PoolInv'
  BY LockStep, NamesStep, CountStep DEF PoolInv
<1> QED BY <1>1, TypeInit, PoolInit, TypeStep, PTL DEF Spec

\* Every reachable state is well typed: a fetch that uses a page has a browser.
THEOREM PoolTypeCorrect == Spec => []TypeOK
  BY PoolCorrect, PTL

\* No browser is taken for more pages than restart_after_pages, for any number
\* of fetches that wait while it is recycled.
THEOREM ServedCorrect == Spec => []ServedWithinBound
<1>1. PoolInv => ServedWithinBound
  BY DEF PoolInv
<1> QED BY <1>1, PoolCorrect, PTL

-----------------------------------------------------------------------------
(* What ends the browser of a page.                                        *)

LEMMA LostStep ==
  TypeOK /\ PoolInv /\ LostOnlyByRecycle /\ [Next]_vars => LostOnlyByRecycle'
<1> SUFFICES ASSUME TypeOK, PoolInv, LostOnlyByRecycle, [Next]_vars,
                    NEW u \in Fetches, pc'[u] \in Unguarded, pageOf'[u] \notin alive'
             PROVE  pageOf'[u] \in crashed' \/ served'[pageOf'[u]] = RestartAfter
  BY DEF LostOnlyByRecycle
<1> USE TaskAssumption DEF TypeOK, PoolInv, Tasks, Enter, poolVars, chromeVars, callVars, Unguarded,
    LostOnlyByRecycle
<1>1. ASSUME pc[u] \in Unguarded, pageOf' = pageOf, UNCHANGED <<alive, crashed, served>>
      PROVE  pageOf'[u] \in crashed' \/ served'[pageOf'[u]] = RestartAfter
  BY <1>1
<1>2. ASSUME NEW t \in Fetches, Call(t) \/ StartDriver(t) \/ StartFails(t)
      PROVE  pageOf'[u] \in crashed' \/ served'[pageOf'[u]] = RestartAfter
  BY <1>1, <1>2 DEF Call, StartDriver, StartFails
\* A page of a browser that has served them all is not of the one handed out,
\* which had one left.
<1>3. ASSUME NEW t \in Fetches, Reuse(t)
      PROVE  pageOf'[u] \in crashed' \/ served'[pageOf'[u]] = RestartAfter
  <2>1. /\ browser \in alive \cup crashed /\ browser \in Browsers /\ served[browser] < RestartAfter
        /\ UNCHANGED <<alive, crashed>> /\ pageOf'[t] = browser
        /\ \A b \in Browsers \ {browser} : served'[b] = served[b]
    BY <1>3, RestartAssumption DEF Reuse, HandOut, NeedsRestart, CountIsServed
  <2>2. u # t => pc[u] \in Unguarded /\ pageOf'[u] = pageOf[u]
    BY <1>3 DEF Reuse, HandOut
  <2> QED BY <2>1, <2>2
<1>4. ASSUME NEW t \in Fetches, Launch(t)
      PROVE  pageOf'[u] \in crashed' \/ served'[pageOf'[u]] = RestartAfter
  <2>1. u # t
    BY <1>4 DEF Launch, HandOut, HolderKnows
  <2>2. pc[u] \in Unguarded /\ pageOf'[u] = pageOf[u] /\ pageOf[u] \notin alive
    BY <1>4, <2>1 DEF Launch, HandOut
  <2>3. pageOf[u] # driver
    BY <1>4, <2>2 DEF Launch, NamesAreFresh, HolderKnows, CountIsServed, Locked
  <2> QED BY <1>4, <2>2, <2>3 DEF Launch, HandOut
<1>5. ASSUME NEW t \in Fetches, PageStep(t)
      PROVE  pageOf'[u] \in crashed' \/ served'[pageOf'[u]] = RestartAfter
  <2>1. pc[u] \in Unguarded
    <3>1. PICK place : Enter(t, place)
      BY <1>5, PageFrame
    <3> QED BY <1>5, <3>1, PageFrame
  <2> QED BY <1>1, <1>5, <2>1, PageFrame DEF pageFrame
<1>6. ASSUME NEW t \in Tasks, Recycle(t)
      PROVE  pageOf'[u] \in crashed' \/ served'[pageOf'[u]] = RestartAfter
  <2>1. pc[u] \in Unguarded
    BY <1>6 DEF Recycle, Remaining
  <2> QED BY <1>1, <1>6, <2>1 DEF Recycle
\* The two steps that end a browser find it spent.
<1>7. ASSUME NEW t \in Tasks, CloseBrowser(t) \/ StopDriver(t)
      PROVE  pageOf'[u] \in crashed' \/ served'[pageOf'[u]] = RestartAfter
  <2>1. pc[u] \in Unguarded /\ u # t
    BY <1>7 DEF CloseBrowser, StopDriver, Remaining
  <2>2. ~ShuttingDown /\ t \in Fetches
    BY <1>7, <2>1 DEF QuietShutdown, CloseBrowser, StopDriver, ShuttingDown
  <2>3. pageOf[u] \in alive => served[pageOf[u]] = RestartAfter
    <3>1. CASE CloseBrowser(t)
      BY <1>7, <2>1, <2>2, <3>1, RestartAssumption
         DEF CloseBrowser, HolderKnows, CountIsServed, EndedIsSpent, ServedWithinBound
    <3>2. CASE StopDriver(t)
      BY <1>7, <2>1, <2>2, <3>2 DEF StopDriver, HolderKnows, CountIsServed, EndedIsSpent
    <3> QED BY <1>7, <3>1, <3>2
  <2> QED BY <1>7, <2>1, <2>3 DEF CloseBrowser, StopDriver
<1>8. CASE Shutdown \/ UNCHANGED vars
  BY <1>1, <1>8 DEF Shutdown, vars
<1>9. ASSUME NEW b \in Browsers, ChromiumCrashes(b)
      PROVE  pageOf'[u] \in crashed' \/ served'[pageOf'[u]] = RestartAfter
  BY <1>9 DEF ChromiumCrashes
<1> QED BY <1>2, <1>3, <1>4, <1>5, <1>6, <1>7, <1>8, <1>9, PoolCases

\* A page in use loses its browser only to a recycle of one that has served
\* restart_after_pages pages, or to a crash, whatever calls fail.
THEOREM LostCorrect == Spec => []LostOnlyByRecycle
<1>1. Init => LostOnlyByRecycle
  BY DEF Init, LostOnlyByRecycle, Unguarded, Tasks
<1> QED BY <1>1, PoolCorrect, LostStep, PTL DEF Spec

-----------------------------------------------------------------------------
(* The processes the pool has lost sight of.                               *)

LEMMA BrowsersFinite ==
  \A S \in SUBSET Browsers : /\ IsFiniteSet(S) /\ Cardinality(S) \in Nat
                             /\ \A R \in SUBSET S : Cardinality(R) <= Cardinality(S)
<1>1. IsFiniteSet(Browsers)
  BY BoundAssumption, FS_Interval DEF Browsers
<1> QED BY <1>1, FS_Subset, FS_CardinalityType

LEMMA OrphanStep == TypeOK /\ PoolInv /\ OrphanInv /\ [Next]_vars => OrphanInv'
<1> SUFFICES ASSUME TypeOK, PoolInv, OrphanInv, [Next]_vars PROVE OrphanInv'
  OBVIOUS
<1> DEFINE Lost == alive \ {driver}
<1>0. /\ Cardinality(Lost) \in Nat /\ faults \in Nat /\ alive \subseteq Browsers /\ 0 \notin alive
      /\ 2 * Cardinality(Lost) <= faults
      /\ browser = 0 /\ driver \in alive => 2 * Cardinality(Lost) + 1 <= faults
  BY BrowsersFinite DEF TypeOK, OrphanInv, OrphansTakeTwoFailures, Browsers
<1>1. ASSUME UNCHANGED <<browser, driver>>, alive' \subseteq alive, faults' \in Nat, faults' >= faults
      PROVE  OrphanInv'
  <2>1. Cardinality(Lost') \in Nat /\ Cardinality(Lost') <= Cardinality(Lost)
    BY <1>0, <1>1, BrowsersFinite
  <2> QED BY <1>0, <1>1, <2>1 DEF OrphanInv, OrphansTakeTwoFailures
<1>2. ASSUME NEW t \in Fetches, Call(t) \/ Reuse(t) \/ StartFails(t) \/ PageStep(t)
      PROVE  OrphanInv'
  <2>1. UNCHANGED <<browser, driver, alive>> /\ faults' \in {faults, faults + 1}
    BY <1>2, PageFrame DEF Call, Reuse, HandOut, StartFails, Fault, pageFrame, poolVars, chromeVars
  <2> QED BY <1>0, <1>1, <2>1
<1>3. ASSUME NEW t \in Tasks, Recycle(t) PROVE OrphanInv'
  BY <1>0, <1>1, <1>3 DEF Recycle, chromeVars
<1>4. CASE Shutdown \/ UNCHANGED vars \/ \E b \in Browsers : ChromiumCrashes(b)
  BY <1>0, <1>1, <1>4 DEF Shutdown, vars, ChromiumCrashes, poolVars, chromeVars
<1>5. ASSUME NEW t \in Fetches, StartDriver(t) PROVE OrphanInv'
  <2>1. driver = 0 /\ driver' \notin alive /\ UNCHANGED <<alive, faults>>
    BY <1>5 DEF StartDriver, Answer, PoolInv, HolderKnows, NamesAreFresh, TypeOK, Tasks, Locked,
       Browsers, chromeVars
  <2>2. Lost' = Lost
    BY <1>0, <2>1
  <2> QED BY <1>0, <2>1, <2>2 DEF OrphanInv, OrphansTakeTwoFailures
<1>6. ASSUME NEW t \in Fetches, Launch(t) PROVE OrphanInv'
  <2>1. Lost' = Lost /\ browser' # 0 /\ faults' = faults
    BY <1>6 DEF Launch, Answer, PoolInv, HolderKnows, TypeOK, Tasks, Locked, Browsers
  <2> QED BY <1>0, <2>1 DEF OrphanInv, OrphansTakeTwoFailures
<1>7. ASSUME NEW t \in Tasks, CloseBrowser(t) PROVE OrphanInv'
  <2>1. browser = driver /\ driver' = driver /\ browser' = 0
    BY <1>7 DEF CloseBrowser, PoolInv, HolderKnows, CountIsServed
  <2>2. Lost' = Lost
    BY <1>7, <2>1 DEF CloseBrowser
  <2>3. \/ faults' = faults /\ driver' \notin alive'
        \/ faults' = faults + 1
    BY <1>7, <2>1 DEF CloseBrowser, Answer, Fault
  <2>4. Cardinality(Lost') = Cardinality(Lost)
    BY <2>2
  <2>5. 2 * Cardinality(Lost') <= faults' /\ (driver' \in alive' => 2 * Cardinality(Lost') + 1 <= faults')
    BY <1>0, <2>3, <2>4
  <2> QED BY <2>5 DEF OrphanInv, OrphansTakeTwoFailures
<1>8. ASSUME NEW t \in Tasks, StopDriver(t) PROVE OrphanInv'
  <2>1. browser = 0 /\ driver' = 0
    BY <1>8 DEF StopDriver, PoolInv, HolderKnows
  <2>2. CASE alive' = alive \ {driver} /\ faults' = faults
    BY <1>0, <2>1, <2>2 DEF OrphanInv, OrphansTakeTwoFailures
  <2>3. CASE alive' = alive /\ faults' = faults + 1
    <3>1. Lost' = alive
      BY <1>0, <2>1, <2>3
    <3>2. CASE driver \in alive
      <4>1. IsFiniteSet(alive) /\ Cardinality(alive) \in Nat
        BY <1>0, BrowsersFinite
      <4>2. Cardinality(Lost) = Cardinality(alive) - 1
        BY <3>2, <4>1, FS_RemoveElement
      <4>3. 2 * Cardinality(alive) <= faults'
        BY <1>0, <2>1, <2>3, <3>2, <4>1, <4>2
      <4> QED BY <1>0, <2>1, <2>3, <3>1, <4>3 DEF OrphanInv, OrphansTakeTwoFailures
    <3>3. CASE driver \notin alive
      <4>1. Lost' = Lost
        BY <3>1, <3>3
      <4>2. Cardinality(Lost') = Cardinality(Lost)
        BY <4>1
      <4>3. 2 * Cardinality(Lost') <= faults' /\ driver' \notin alive'
        BY <1>0, <2>1, <2>3, <4>2
      <4> QED BY <4>3 DEF OrphanInv, OrphansTakeTwoFailures
    <3> QED BY <3>2, <3>3
  <2> QED BY <1>8, <2>2, <2>3 DEF StopDriver, Answer, Fault
<1> QED BY <1>2, <1>3, <1>4, <1>5, <1>6, <1>7, <1>8, PoolCases

\* Every Chromium that runs without the pool, after a shutdown as well, has
\* survived a failed close and a failed stop.
THEOREM OrphansCorrect == Spec => []OrphansTakeTwoFailures
<1>1. Init => OrphanInv
  BY FS_EmptySet DEF Init, OrphanInv, OrphansTakeTwoFailures
<1>2. OrphanInv => OrphansTakeTwoFailures
  BY DEF OrphanInv
<1> QED BY <1>1, <1>2, PoolCorrect, OrphanStep, PTL DEF Spec

-----------------------------------------------------------------------------
(* The contexts a browser has open.                                        *)

\* Contexts are counted for every browser: one that no fetch has been given has
\* none, so a browser starts with none; and those of the fetches that have one
\* are open, while a browser runs or not.
LeakInv ==
  \A b \in Browsers :
    /\ served[b] = 0 => contexts[b] = 0
    /\ Cardinality(InUse(b)) <= contexts[b]
    /\ b \in alive => contexts[b] - Cardinality(InUse(b)) <= faults

LEMMA InUseFinite ==
  \A b \in Browsers : IsFiniteSet(InUse(b)) /\ Cardinality(InUse(b)) \in Nat
<1> TAKE b \in Browsers
<1>1. InUse(b) \subseteq Fetches /\ IsFiniteSet(Fetches)
  BY TaskAssumption DEF InUse
<1> QED BY <1>1, FS_Subset, FS_CardinalityType

\* A step that opens or closes no context and moves no fetch into or out of one.
LEMMA SameContexts ==
  ASSUME TypeOK, LeakInv, UNCHANGED contexts, faults' \in Nat, faults' >= faults,
         \A s \in Fetches : /\ pc'[s] \in InContext <=> pc[s] \in InContext
                            /\ pc[s] \in InContext => pageOf'[s] = pageOf[s],
         \A b \in Browsers : served'[b] = 0 => served[b] = 0,
         \A b \in alive' : b \in alive \/ served[b] = 0
  PROVE  LeakInv'
<1> SUFFICES ASSUME NEW b \in Browsers
             PROVE  /\ served'[b] = 0 => contexts'[b] = 0
                    /\ Cardinality(InUse(b)') <= contexts'[b]
                    /\ b \in alive' => contexts'[b] - Cardinality(InUse(b)') <= faults'
  BY DEF LeakInv
<1>1. InUse(b)' = InUse(b)
  BY DEF InUse
<1>2. Cardinality(InUse(b)) \in Nat /\ contexts[b] \in Int /\ faults \in Nat
  BY InUseFinite DEF TypeOK
<1>3. Cardinality(InUse(b)') = Cardinality(InUse(b))
  BY <1>1
<1> QED BY <1>2, <1>3 DEF LeakInv

\* A fetch that enters a context of its browser, or leaves it: the others stay.
LEMMA InUseMoves ==
  ASSUME TypeOK, NEW t \in Fetches, NEW place, Enter(t, place), UNCHANGED pageOf,
         pageOf[t] \in Browsers
  PROVE  /\ \A b \in Browsers \ {pageOf[t]} : Cardinality(InUse(b)') = Cardinality(InUse(b))
         /\ pc[t] \notin InContext /\ place \in InContext =>
              Cardinality(InUse(pageOf[t])') = Cardinality(InUse(pageOf[t])) + 1
         /\ pc[t] \in InContext /\ place \notin InContext =>
              Cardinality(InUse(pageOf[t])') = Cardinality(InUse(pageOf[t])) - 1
<1> DEFINE b0 == pageOf[t]
<1>1. pc'[t] = place /\ \A s \in Fetches \ {t} : pc'[s] = pc[s]
  BY DEF Enter, TypeOK, Tasks
<1>2. ASSUME NEW b \in Browsers \ {b0} PROVE Cardinality(InUse(b)') = Cardinality(InUse(b))
  <2>1. InUse(b)' = InUse(b)
    BY <1>1 DEF InUse
  <2> QED BY <2>1
<1>3. IsFiniteSet(InUse(b0)) /\ Cardinality(InUse(b0)) \in Nat
  BY InUseFinite
<1>4. ASSUME pc[t] \notin InContext, place \in InContext
      PROVE  Cardinality(InUse(b0)') = Cardinality(InUse(b0)) + 1
  <2>1. InUse(b0)' = InUse(b0) \cup {t} /\ t \notin InUse(b0)
    BY <1>1, <1>4 DEF InUse
  <2> QED BY <1>3, <2>1, FS_AddElement
<1>5. ASSUME pc[t] \in InContext, place \notin InContext
      PROVE  Cardinality(InUse(b0)') = Cardinality(InUse(b0)) - 1
  <2>1. InUse(b0)' = InUse(b0) \ {t} /\ t \in InUse(b0)
    BY <1>1, <1>5 DEF InUse
  <2> QED BY <1>3, <2>1, FS_RemoveElement
<1> QED BY <1>2, <1>4, <1>5

\* The steps of a fetch that has a browser.
LEMMA PageLeaks ==
  ASSUME TypeOK, PoolInv, LeakInv, NEW t \in Fetches, PageStep(t)
  PROVE  LeakInv'
<1> DEFINE b0 == pageOf[t]
<1>1. /\ pc[t] \in Unguarded /\ b0 \in Browsers /\ served[b0] > 0 /\ served[b0] # 0
      /\ UNCHANGED <<pageOf, alive, served>>
  BY PageFrame DEF TypeOK, PoolInv, CountIsServed, pageFrame
<1>2. /\ contexts \in [Browsers -> Int] /\ faults \in Nat /\ faults' \in Nat /\ faults' >= faults
      /\ \A b \in Browsers : Cardinality(InUse(b)) \in Nat
  BY PageFrame, InUseFinite DEF TypeOK, Fault
<1>3. ASSUME \A b \in Browsers \ {b0} : /\ contexts'[b] = contexts[b]
                                        /\ Cardinality(InUse(b)') = Cardinality(InUse(b)),
             Cardinality(InUse(b0)') <= contexts'[b0],
             b0 \in alive => contexts'[b0] - Cardinality(InUse(b0)') <= faults'
      PROVE  LeakInv'
  <2> SUFFICES ASSUME NEW b \in Browsers
               PROVE  /\ served[b] = 0 => contexts'[b] = 0
                      /\ Cardinality(InUse(b)') <= contexts'[b]
                      /\ b \in alive => contexts'[b] - Cardinality(InUse(b)') <= faults'
    BY <1>1 DEF LeakInv
  <2>1. CASE b = b0
    BY <1>1, <1>3, <2>1
  <2>2. CASE b # b0
    <3>1. contexts[b] \in Int /\ Cardinality(InUse(b)) \in Nat
      BY <1>2
    <3> QED BY <1>2, <1>3, <2>2, <3>1 DEF LeakInv
  <2> QED BY <2>1, <2>2
<1>4. ASSUME NEW place, Enter(t, place), pc[t] \in InContext <=> place \in InContext,
             UNCHANGED contexts
      PROVE  LeakInv'
  <2>1. \A s \in Fetches : pc'[s] \in InContext <=> pc[s] \in InContext
    BY <1>4 DEF Enter, TypeOK, Tasks
  <2> QED BY <1>1, <1>2, <1>4, <2>1, SameContexts
<1>5. /\ Cardinality(InUse(b0)) <= contexts[b0]
      /\ b0 \in alive => contexts[b0] - Cardinality(InUse(b0)) <= faults
  BY <1>1 DEF LeakInv
<1>6. contexts[b0] \in Int /\ Cardinality(InUse(b0)) \in Nat
  BY <1>1, <1>2
<1>7. CASE NewContext(t)
  <2>1. /\ Enter(t, "route") /\ pc[t] = "context" /\ faults' = faults
        /\ contexts' = [contexts EXCEPT ![b0] = @ + 1]
    BY <1>7 DEF NewContext, Answer
  <2>2. pc[t] \notin InContext /\ "route" \in InContext
    BY <2>1 DEF InContext
  <2>3. /\ Cardinality(InUse(b0)') = Cardinality(InUse(b0)) + 1
        /\ \A b \in Browsers \ {b0} : Cardinality(InUse(b)') = Cardinality(InUse(b))
    BY <1>1, <2>1, <2>2, InUseMoves
  <2>4. contexts'[b0] = contexts[b0] + 1 /\ \A b \in Browsers \ {b0} : contexts'[b] = contexts[b]
    BY <1>1, <1>2, <2>1
  <2>5. /\ Cardinality(InUse(b0)') <= contexts'[b0]
        /\ b0 \in alive => contexts'[b0] - Cardinality(InUse(b0)') <= faults'
    BY <1>5, <1>6, <2>1, <2>3, <2>4
  <2> QED BY <1>3, <2>3, <2>4, <2>5
<1>8. CASE Proceed(t)
  <2>1. PICK place \in InContext : Enter(t, place) /\ pc[t] \in InContext
    BY <1>8 DEF Proceed, InContext
  <2>2. UNCHANGED contexts
    BY <1>8 DEF Proceed
  <2> QED BY <1>4, <2>1, <2>2
<1>9. ASSUME pc[t] \in InContext, Enter(t, "idle"),
             \/ contexts' = contexts /\ (b0 \in alive => faults' = faults + 1)
             \/ contexts' = [contexts EXCEPT ![b0] = @ - 1]
      PROVE  LeakInv'
  <2>1. "idle" \notin InContext
    BY DEF InContext
  <2>2. /\ Cardinality(InUse(b0)') = Cardinality(InUse(b0)) - 1
        /\ \A b \in Browsers \ {b0} : Cardinality(InUse(b)') = Cardinality(InUse(b))
    BY <1>1, <1>9, <2>1, InUseMoves
  <2>3. /\ \A b \in Browsers \ {b0} : contexts'[b] = contexts[b]
        /\ \/ contexts'[b0] = contexts[b0] /\ (b0 \in alive => faults' = faults + 1)
           \/ contexts'[b0] = contexts[b0] - 1
    BY <1>1, <1>2, <1>9
  <2>4. /\ Cardinality(InUse(b0)') <= contexts'[b0]
        /\ b0 \in alive => contexts'[b0] - Cardinality(InUse(b0)') <= faults'
    BY <1>2, <1>5, <1>6, <2>2, <2>3
  <2> QED BY <1>3, <2>2, <2>3, <2>4
<1>10. CASE PageFails(t)
  <2>1. /\ Enter(t, IF pc[t] = "use" THEN "leave" ELSE "idle") /\ UNCHANGED contexts
        /\ pc[t] \in {"context", "route", "page", "use"}
        /\ b0 \in alive => faults' = faults + 1
    BY <1>10 DEF PageFails, Fault
  <2>2. CASE pc[t] = "use"
    <3>1. Enter(t, "leave") /\ pc[t] \in InContext /\ "leave" \in InContext
      BY <2>1, <2>2 DEF InContext
    <3> QED BY <1>4, <2>1, <3>1
  <2>3. CASE pc[t] = "context"
    <3>1. Enter(t, "idle") /\ pc[t] \notin InContext /\ "idle" \notin InContext
      BY <2>1, <2>3 DEF InContext
    <3> QED BY <1>4, <2>1, <3>1
  <2>4. CASE pc[t] \in {"route", "page"}
    <3>1. Enter(t, "idle") /\ pc[t] \in InContext
      BY <2>1, <2>4 DEF InContext
    <3> QED BY <1>9, <2>1, <3>1
  <2> QED BY <2>1, <2>2, <2>3, <2>4
<1>11. CASE CloseContext(t)
  <2>1. /\ pc[t] \in InContext /\ Enter(t, "idle")
        /\ \/ contexts' = [contexts EXCEPT ![b0] = @ - 1]
           \/ contexts' = contexts /\ faults' = faults + 1
    BY <1>11 DEF CloseContext, InContext, Fault
  <2> QED BY <1>9, <2>1
<1> QED BY <1>7, <1>8, <1>10, <1>11 DEF PageStep

LEMMA LeakStep == TypeOK /\ PoolInv /\ LeakInv /\ [Next]_vars => LeakInv'
<1> SUFFICES ASSUME TypeOK, PoolInv, LeakInv, [Next]_vars PROVE LeakInv'
  OBVIOUS
<1>0. faults \in Nat /\ served \in [Browsers -> Nat] /\ \A t \in Tasks : pc[t] \in Locked \cup {"wait"} => pc[t] \notin InContext
  BY DEF TypeOK, Locked, InContext
<1>1. ASSUME NEW t \in Tasks, NEW place, Enter(t, place), pc[t] \notin InContext,
             place \notin InContext, UNCHANGED contexts, faults' \in {faults, faults + 1},
             \A s \in Fetches \ {t} : pageOf'[s] = pageOf[s],
             \A b \in Browsers : served'[b] = 0 => served[b] = 0,
             \A b \in alive' : b \in alive \/ served[b] = 0
      PROVE  LeakInv'
  <2>1. pc'[t] = place /\ \A s \in Tasks \ {t} : pc'[s] = pc[s]
    BY <1>1 DEF Enter, TypeOK
  <2>2. \A s \in Fetches : /\ pc'[s] \in InContext <=> pc[s] \in InContext
                           /\ pc[s] \in InContext => pageOf'[s] = pageOf[s]
    BY <1>1, <2>1 DEF Tasks
  <2>3. faults' \in Nat /\ faults' >= faults
    BY <1>0, <1>1
  <2> QED BY <1>1, <2>2, <2>3, SameContexts
<1>2. ASSUME NEW t \in Fetches, Call(t) PROVE LeakInv'
  <2>1. /\ Enter(t, "wait") /\ pc[t] = "idle" /\ t \in Tasks
        /\ UNCHANGED <<contexts, faults, pageOf, served, alive>>
    BY <1>2 DEF Call, chromeVars, Tasks
  <2>2. pc[t] \notin InContext /\ "wait" \notin InContext
    BY <2>1 DEF InContext
  <2> QED BY <1>1, <2>1, <2>2
<1>3. ASSUME NEW t \in Fetches, Reuse(t) \/ Launch(t) PROVE LeakInv'
  <2>1. /\ Enter(t, "context") /\ pc[t] \in Locked \cup {"wait"} /\ t \in Tasks
        /\ UNCHANGED <<contexts, faults>>
        /\ \E b \in Browsers \cup {0} : /\ pageOf' = [pageOf EXCEPT ![t] = b]
                              /\ served' = [served EXCEPT ![b] = @ + 1]
    BY <1>3 DEF Reuse, Launch, HandOut, Answer, chromeVars, Tasks, Locked, TypeOK
  <2>2. pc[t] \notin InContext /\ "context" \notin InContext
    BY <1>0, <2>1 DEF InContext
  <2>3. /\ \A b \in Browsers : served'[b] = 0 => served[b] = 0
        /\ \A s \in Fetches \ {t} : pageOf'[s] = pageOf[s]
    BY <1>0, <2>1 DEF TypeOK
  <2>4. \A b \in alive' : b \in alive \/ served[b] = 0
    <3>1. CASE Reuse(t)
      BY <3>1 DEF Reuse, chromeVars
    <3>2. CASE Launch(t)
      <4>1. driver = call[t] /\ call[t] # 0 /\ alive' = alive \cup {driver}
        BY <3>2, <2>1 DEF Launch, PoolInv, HolderKnows, TypeOK, Locked, Browsers
      <4>2. served[driver] = 0
        BY <4>1 DEF PoolInv, NamesAreFresh
      <4> QED BY <4>1, <4>2
    <3> QED BY <1>3, <3>1, <3>2
  <2>5. faults' \in {faults, faults + 1}
    BY <2>1
  <2> QED BY <1>1, <2>1, <2>2, <2>3, <2>4, <2>5
<1>4. ASSUME NEW t \in Tasks, Recycle(t) \/ CloseBrowser(t) \/ StopDriver(t) PROVE LeakInv'
  <2>1. /\ pc[t] \in Locked \cup {"wait"} /\ UNCHANGED <<contexts, pageOf, served>>
        /\ alive' \subseteq alive /\ faults' \in {faults, faults + 1}
        /\ \E b, d : Enter(t, Remaining(t, b, d))
    BY <1>4 DEF Recycle, CloseBrowser, StopDriver, Answer, Fault, chromeVars, Locked
  <2>2. PICK b, d : Enter(t, Remaining(t, b, d))
    BY <2>1
  <2>3. pc[t] \notin InContext /\ Remaining(t, b, d) \notin InContext
    BY <1>0, <2>1, RemainingPlaces DEF InContext
  <2>4. /\ \A s \in Fetches \ {t} : pageOf'[s] = pageOf[s]
        /\ \A c \in Browsers : served'[c] = 0 => served[c] = 0
        /\ \A c \in alive' : c \in alive \/ served[c] = 0
    BY <2>1
  <2> QED BY <1>1, <2>1, <2>2, <2>3, <2>4
<1>5. ASSUME NEW t \in Fetches, StartDriver(t) \/ StartFails(t) PROVE LeakInv'
  <2>1. /\ Enter(t, "launching") \/ Enter(t, "idle")
        /\ pc[t] \in {"starting", "launching"} /\ t \in Tasks
        /\ UNCHANGED <<contexts, pageOf, served, alive>> /\ faults' \in {faults, faults + 1}
    BY <1>5 DEF StartDriver, StartFails, Answer, Fault, chromeVars, Tasks
  <2>2. pc[t] \notin InContext /\ "launching" \notin InContext /\ "idle" \notin InContext
    BY <2>1 DEF InContext
  <2> QED BY <1>1, <2>1, <2>2
<1>6. ASSUME NEW t \in Fetches, PageStep(t) PROVE LeakInv'
  BY <1>6, PageLeaks
<1>7. CASE Shutdown
  <2>1. /\ Enter(Closer, "wait") /\ pc[Closer] = "idle" /\ Closer \in Tasks
        /\ UNCHANGED <<contexts, faults, pageOf, served, alive>>
    BY <1>7 DEF Shutdown, chromeVars, Tasks
  <2>2. pc[Closer] \notin InContext /\ "wait" \notin InContext
    BY <2>1 DEF InContext
  <2> QED BY <1>1, <2>1, <2>2
<1>8. ASSUME UNCHANGED <<pc, pageOf, contexts, served, faults>>, alive' \subseteq alive PROVE LeakInv'
  BY <1>0, <1>8, SameContexts
<1>9. CASE UNCHANGED vars \/ \E b \in Browsers : ChromiumCrashes(b)
  BY <1>8, <1>9 DEF vars, chromeVars, ChromiumCrashes
<1> QED BY <1>2, <1>3, <1>4, <1>5, <1>6, <1>7, <1>9, PoolCases

\* In a running browser every context but those in use took a failed call to be
\* left open, and a context in use is open: page() and its finally clause.
THEOREM LeaksCorrect == Spec => []LeaksTakeFailures
<1>1. Init => LeakInv
  <2> SUFFICES ASSUME Init PROVE LeakInv
    OBVIOUS
  <2>1. \A b \in Browsers : InUse(b) = {}
    BY DEF Init, InUse, InContext, Tasks
  <2>2. \A b \in Browsers : Cardinality(InUse(b)) = 0
    BY <2>1, FS_EmptySet
  <2> QED BY <2>2 DEF Init, LeakInv
<1>2. TypeOK /\ LeakInv => LeaksTakeFailures
  BY DEF TypeOK, LeakInv, LeaksTakeFailures
<1> QED BY <1>1, <1>2, PoolCorrect, LeakStep, PTL DEF Spec
=============================================================================
