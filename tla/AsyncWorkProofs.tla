--------------------------- MODULE AsyncWorkProofs ---------------------------
(***************************************************************************)
(* Proofs about AsyncWork, for any number of queues and work items, any    *)
(* queue length, any assignment of methods to queues and modes, and for    *)
(* clients that may fetch at any time.                                     *)
(***************************************************************************)
EXTENDS AsyncWork, TLAPS

Eating == {"eat", "wait", "waiting", "erase", "timeout", "quick", "collect"}
Notifying == {"notify", "decide", "sync"}
Running == {"dorun", "finish"}
Final == {"DONE", "CANCELED"}

(* The handler in Main has a work item while it adds or eats it, also when *)
(* it is canceling the work in progress to make room for it.               *)
HandlerHasWork ==
    \/ pc[Main] \in Eating \cup {"add", "replace"}
    \/ pc[Main] \in Notifying \cup {"cancel"} /\ ret[Main] = "replace"
    => cur[Main] \in Works

TypeInv == TypeOK /\ HandlerHasWork

(* What the tracker of a work item says about the answers to its call. *)
PathInv ==
    /\ \A w \in Works : rp[w] \in {"SLOW_PATH_ENTERED", "SLOW_PATH_COOKIE_SENT",
                                   "SLOW_PATH_READY_NOTIFIED",
                                   "SLOW_PATH_FETCHING"}
                            => reply[w] = "cookie"
    /\ \A w \in Works : rp[w] = "WAITING" /\ ModeOf[w] = "ALWAYS"
                            => reply[w] = "cookie"
    /\ pc[Main] \in Eating /\ ModeOf[cur[Main]] = "ALWAYS"
           => reply[cur[Main]] = "cookie"

CookieInv == TypeInv /\ PathInv /\ CookieBeforeSignal

(* A thread that cancels or notifies has a work item to do it for, a       *)
(* worker has one to run.                                                  *)
ThreadHasWork ==
    /\ \A t \in Threads : pc[t] \in Notifying \cup {"cancel"} => obj[t] \in Works
    /\ \A q \in Queues : pc[q] \in Running \cup {"run"} => cur[q] \in Works

(* Work which somebody runs is running, nobody else runs it; work which    *)
(* somebody notifies about has come to its end, and nobody else does so.   *)
OneNotifier ==
    /\ \A q \in Queues : pc[q] \in Running =>
           /\ wstate[cur[q]] \in {"RUNNING", "CANCELING"}
           /\ \A p \in Queues \ {q} : pc[p] \in Running => cur[p] # cur[q]
    /\ \A t \in Threads : pc[t] \in Notifying =>
           /\ wstate[obj[t]] \in Final
           /\ \A u \in Threads \ {t} : pc[u] \in Notifying => obj[u] # obj[t]

(* The signal is the last thing that happens to a work item. *)
SignalIsLast ==
    \A w \in Works : avail[w] + derr[w] > 0 =>
        /\ wstate[w] \in Final
        /\ \A t \in Threads : pc[t] \in Notifying => obj[t] # w

SignalInv == TypeInv /\ ThreadHasWork /\ OneNotifier /\ SignalIsLast /\ SignalOnce

-----------------------------------------------------------------------------
(* What the operations of the tracker return is a tracker state again. *)
LEMMA TrackerType ==
    ASSUME NEW s \in ReplyPaths
    PROVE  /\ SetScheduled(s) \in ReplyPaths
           /\ SetWaiting(s) \in ReplyPaths
           /\ TakeFastPath(s) \in ReplyPaths
           /\ SlowPathReadyNotified(s) \in ReplyPaths
           /\ SlowPathReadyNotified(TakeFastPath(s)) \in ReplyPaths
           /\ SlowPathCookieSent(TakeSlowPath(s)) \in ReplyPaths
  BY DEF ReplyPaths, SetScheduled, SetScheduledOk, SetWaiting, TakeFastPath,
         SlowPathReadyNotified, SlowPathReadyNotifiedOk, SlowPathCookieSent,
         SlowPathCookieSentOk, TakeSlowPath

(* The sets of names stay folded in the proofs below, these are their      *)
(* members.                                                                *)
LEMMA LabelNames ==
    /\ \A l \in {"idle", "add", "replace", "eat", "wait", "waiting", "erase"} :
           l \in Labels
    /\ \A l \in {"timeout", "quick", "collect", "stop", "join", "halt"} :
           l \in Labels
    /\ \A l \in {"take", "run", "dorun", "finish", "pop", "exited"} : l \in Labels
    /\ \A l \in {"cancel", "notify", "decide", "sync", "purge"} : l \in Labels
  BY DEF Labels, MainLabels, WorkerLabels, SharedLabels

LEMMA StateNames ==
    /\ \A s \in {"RUNNABLE", "RUNNING", "DONE", "CANCELING", "CANCELED"} :
           s \in WorkStates
    /\ "NONE" \in ReplyPaths
  BY DEF WorkStates, ReplyPaths

LEMMA ReportNames ==
    /\ \A b \in {"SCHEDULE", "WAITING", "SLOW_PATH", "COOKIE_SENT", "FAST_PATH"} :
           b \in BugReports
    /\ \A b \in {"READY_NOTIFIED", "RUN", "QUEUED", "UNEXPECTED_FAILURE"} :
           b \in BugReports
  BY DEF BugReports

LEMMA ReportType ==
    ASSUME NEW ok, NEW b \in BugReports PROVE Report(ok, b) \subseteq BugReports
  BY DEF Report

LEMMA MainIsThread == Main \in Threads /\ Queues \subseteq Threads
  BY DEF Threads

LEMMA TypeInit == Init => TypeInv
<1> SUFFICES ASSUME Init PROVE TypeInv
  OBVIOUS
<1>1. TypeOK
  BY ConstantsAssumption, LabelNames, StateNames
  DEF Init, TypeOK, ThreadTypes, QueueTypes, WorkTypes, JarTypes, ClientTypes
<1>2. HandlerHasWork
  BY MainIsThread DEF Init, HandlerHasWork, Eating, Notifying
<1> QED
  BY <1>1, <1>2 DEF TypeInv

LEMMA CountType ==
    ASSUME NEW f \in [Works -> Nat], NEW w, NEW b
    PROVE  [f EXCEPT ![w] = IF b THEN @ + 1 ELSE @] \in [Works -> Nat]
<1>1. CASE w \in Works
  BY <1>1
<1>2. CASE w \notin Works
  BY <1>2
<1> QED
  BY <1>1, <1>2

LEMMA EnqueueType ==
    ASSUME QueueTypes, NEW q \in Queues, NEW w \in Works, NEW busy \in BOOLEAN,
           Enqueue(q, w, busy)
    PROVE  /\ wip' \in [Queues -> Works \cup {NoWork}]
           /\ queue' \in [Queues -> Seq(Works)]
<1> USE DEF QueueTypes, Enqueue
<1>1. Append(queue[q], w) \in Seq(Works)
  OBVIOUS
<1>2. ASSUME queue[q] # <<>>
      PROVE  Head(queue[q]) \in Works /\ Append(Tail(queue[q]), w) \in Seq(Works)
  BY <1>2
<1>3. wip' \in [Queues -> Works \cup {NoWork}]
  BY <1>2
<1>4. queue' \in [Queues -> Seq(Works)]
  BY <1>1, <1>2
<1> QED
  BY <1>3, <1>4

LEMMA TypeOKNext == TypeInv /\ [Next]_vars => TypeOK'
<1> SUFFICES ASSUME TypeOK, HandlerHasWork, [Next]_vars PROVE TypeOK'
  BY DEF TypeInv
<1> USE LabelNames, StateNames, ReportNames, MainIsThread
    DEF TypeOK, ThreadTypes, QueueTypes, WorkTypes, JarTypes, ClientTypes,
        threadVars, queueVars, workVars, jarVars, clientVars
<1>1. ASSUME NEW w \in Works, Request(w) PROVE TypeOK'
  BY <1>1 DEF Request
<1>2. ASSUME NEW w \in Works, Fetch(w) PROVE TypeOK'
  BY <1>2 DEF Fetch
<1>3. ASSUME NEW w \in Works, Abort(w) PROVE TypeOK'
  BY <1>3 DEF Abort
<1>4. CASE AddWork
  <2>1. ThreadTypes'
    BY <1>4, TrackerType, ReportType, ConstantsAssumption DEF AddWork,
       Schedule, Enqueue, Accepted, HandlerHasWork, Eating
  <2>2. QueueTypes'
    <3>1. QueueOf[cur[Main]] \in Queues /\ cur[Main] \in Works
      BY <1>4, ConstantsAssumption DEF AddWork, HandlerHasWork
    <3>2. wip' \in [Queues -> Works \cup {NoWork}] /\ queue' \in [Queues -> Seq(Works)]
      BY <1>4, <3>1, EnqueueType DEF AddWork
    <3> QED
      BY <1>4, <3>2 DEF AddWork, Schedule
  <2>3. WorkTypes'
    BY <1>4, TrackerType, ReportType, ConstantsAssumption DEF AddWork,
       Schedule, Enqueue, Accepted, HandlerHasWork, Eating
  <2>4. JarTypes'
    BY <1>4, TrackerType, ReportType, ConstantsAssumption DEF AddWork,
       Schedule, Enqueue, Accepted, HandlerHasWork, Eating
  <2>5. ClientTypes'
    BY <1>4, TrackerType, ReportType, ConstantsAssumption DEF AddWork,
       Schedule, Enqueue, Accepted, HandlerHasWork, Eating
  <2> QED
    BY <2>1, <2>2, <2>3, <2>4, <2>5 DEF TypeOK
<1>5. CASE AddWorkToFullQueue
  BY <1>5, TrackerType, ReportType, ConstantsAssumption DEF
     AddWorkToFullQueue, Schedule, Full, HandlerHasWork, Eating
<1>6. CASE ReplaceWork
  <2>1. ThreadTypes'
    BY <1>6 DEF ReplaceWork, Enqueue, Accepted, HandlerHasWork, Eating
  <2>2. QueueTypes'
    <3>1. QueueOf[cur[Main]] \in Queues /\ cur[Main] \in Works
      BY <1>6, ConstantsAssumption DEF ReplaceWork, HandlerHasWork
    <3>2. wip' \in [Queues -> Works \cup {NoWork}] /\ queue' \in [Queues -> Seq(Works)]
      BY <1>6, <3>1, EnqueueType DEF ReplaceWork
    <3> QED
      BY <1>6, <3>1, <3>2 DEF ReplaceWork
  <2>3. WorkTypes'
    BY <1>6 DEF ReplaceWork, Enqueue, Accepted, HandlerHasWork, Eating
  <2>4. JarTypes'
    BY <1>6 DEF ReplaceWork, Enqueue, Accepted, HandlerHasWork, Eating
  <2>5. ClientTypes'
    BY <1>6 DEF ReplaceWork, Enqueue, Accepted, HandlerHasWork, Eating
  <2> QED
    BY <2>1, <2>2, <2>3, <2>4, <2>5 DEF TypeOK
<1>7. CASE EatLookup
  BY <1>7 DEF EatLookup
<1>8. CASE EatUnknown
  BY <1>8, TrackerType, ReportType DEF EatUnknown, HandlerDone
<1>9. CASE StartWaiting
  BY <1>9, TrackerType, ReportType DEF StartWaiting
<1>10. CASE WaitEnds
  BY <1>10 DEF WaitEnds
<1>11. CASE EatResult
  BY <1>11 DEF EatResult, HandlerDone, Deliver
<1>12. CASE LockAfterTimeout
  BY <1>12 DEF LockAfterTimeout
<1>13. CASE EatQuickly
  BY <1>13 DEF EatQuickly
<1>14. CASE EatLater
  BY <1>14, TrackerType, ReportType DEF EatLater, HandlerDone
<1>15. CASE Collect
  BY <1>15 DEF Collect, HandlerDone, Deliver
<1>16. ASSUME NEW t \in Threads, CancelRunnable(t) PROVE TypeOK'
  BY <1>16 DEF CancelRunnable
<1>17. ASSUME NEW t \in Threads, Cancel(t) PROVE TypeOK'
  BY ZenonT(40), <1>17 DEF Cancel, Return
<1>18. ASSUME NEW t \in Threads, NotifyJar(t) PROVE TypeOK'
  BY <1>18 DEF NotifyJar
<1>19. ASSUME NEW t \in Threads, NotifyEaten(t) PROVE TypeOK'
  BY <1>19 DEF NotifyEaten, Return
<1>20. ASSUME NEW t \in Threads, NotifyBlocks(t) PROVE TypeOK'
  BY <1>20 DEF NotifyBlocks
<1>21. ASSUME NEW t \in Threads, NotifyWakesUp(t) PROVE TypeOK'
  BY <1>21 DEF NotifyWakesUp
<1>22. ASSUME NEW t \in Threads, NotifyClient(t) PROVE TypeOK'
  <2>1. ThreadTypes'
    BY <1>22, TrackerType, ReportType DEF NotifyClient, Return
  <2>2. QueueTypes'
    BY <1>22, TrackerType, ReportType DEF NotifyClient, Return
  <2>3. WorkTypes'
    BY <1>22, TrackerType, ReportType DEF NotifyClient, Return
  <2>4. JarTypes'
    BY <1>22, TrackerType, ReportType DEF NotifyClient, Return
  <2>5. ClientTypes'
    <3>1. avail' \in [Works -> Nat]
      BY <1>22, CountType DEF NotifyClient
    <3>2. derr' \in [Works -> Nat]
      BY <1>22, CountType DEF NotifyClient
    <3>3. bugs' \subseteq BugReports
      BY <1>22, ReportType DEF NotifyClient
    <3> QED
      BY <1>22, <3>1, <3>2, <3>3 DEF NotifyClient
  <2> QED
    BY <2>1, <2>2, <2>3, <2>4, <2>5 DEF TypeOK
<1>23. ASSUME NEW t \in Threads, NEW q \in Queues, Purge(t, q) PROVE TypeOK'
  BY <1>23 DEF Purge
<1>24. ASSUME NEW t \in Threads, NEW q \in Queues, Purged(t, q) PROVE TypeOK'
  BY <1>24 DEF Purged
<1>25. ASSUME NEW q \in Queues, TakeWork(q) PROVE TypeOK'
  BY <1>25 DEF TakeWork
<1>26. ASSUME NEW q \in Queues, SkipWork(q) PROVE TypeOK'
  BY <1>26, TrackerType, ReportType DEF SkipWork, Advance
<1>27. ASSUME NEW q \in Queues, RunBegins(q) PROVE TypeOK'
  BY <1>27, TrackerType, ReportType DEF RunBegins
<1>28. ASSUME NEW q \in Queues, NEW r \in Results, DoRun(q, r) PROVE TypeOK'
  BY <1>28 DEF DoRun
<1>29. ASSUME NEW q \in Queues, RunEnds(q) PROVE TypeOK'
  BY <1>29 DEF RunEnds
<1>30. ASSUME NEW q \in Queues, PopWork(q) PROVE TypeOK'
  BY <1>30 DEF PopWork
<1>31. ASSUME NEW q \in Queues, WorkerStops(q) PROVE TypeOK'
  BY <1>31 DEF WorkerStops
<1>32. CASE Quit
  BY <1>32 DEF Quit
<1>33. ASSUME NEW q \in Queues, Shutdown(q) PROVE TypeOK'
  BY <1>33 DEF Shutdown
<1>34. CASE Join
  BY <1>34 DEF Join
<1>35. CASE UNCHANGED vars
  BY <1>35 DEF vars
<1>36. ASSUME NEW t \in Threads, Subroutine(t) PROVE TypeOK'
  BY <1>16, <1>17, <1>18, <1>19, <1>20, <1>21, <1>22, <1>23, <1>24, <1>36 DEF
     Subroutine
<1>37. CASE Environment
  BY <1>1, <1>2, <1>3, <1>32, <1>37 DEF Environment
<1>38. CASE MainStep
  BY <1>4, <1>5, <1>6, <1>7, <1>8, <1>9, <1>10, <1>11, <1>12, <1>13, <1>14,
     <1>15, <1>33, <1>34, <1>36, <1>38 DEF MainStep
<1>39. ASSUME NEW q \in Queues, WorkerStep(q) PROVE TypeOK'
  BY <1>25, <1>26, <1>27, <1>28, <1>29, <1>30, <1>31, <1>36, <1>39 DEF
     WorkerStep
<1> QED
  BY <1>35, <1>37, <1>38, <1>39 DEF Next

LEMMA HandlerNext == TypeInv /\ [Next]_vars => HandlerHasWork'
<1> SUFFICES ASSUME TypeOK, HandlerHasWork, [Next]_vars PROVE HandlerHasWork'
  BY DEF TypeInv
<1> USE ConstantsAssumption, MainIsThread
    DEF TypeOK, ThreadTypes, HandlerHasWork, Eating, Notifying, threadVars
<1>1. ASSUME NEW w \in Works, Request(w) PROVE HandlerHasWork'
  BY <1>1 DEF Request
<1>2. ASSUME NEW w \in Works, Fetch(w) PROVE HandlerHasWork'
  BY <1>2 DEF Fetch
<1>3. ASSUME NEW w \in Works, Abort(w) PROVE HandlerHasWork'
  BY <1>3 DEF Abort
<1>4. CASE AddWork
  BY <1>4 DEF AddWork, Schedule, Enqueue, Accepted
<1>5. CASE AddWorkToFullQueue
  BY <1>5 DEF AddWorkToFullQueue, Schedule, Full
<1>6. CASE ReplaceWork
  BY <1>6 DEF ReplaceWork, Enqueue, Accepted
<1>7. CASE EatLookup
  BY <1>7 DEF EatLookup
<1>8. CASE EatUnknown
  BY <1>8 DEF EatUnknown, HandlerDone
<1>9. CASE StartWaiting
  BY <1>9 DEF StartWaiting
<1>10. CASE WaitEnds
  BY <1>10 DEF WaitEnds
<1>11. CASE EatResult
  BY <1>11 DEF EatResult, HandlerDone, Deliver
<1>12. CASE LockAfterTimeout
  BY <1>12 DEF LockAfterTimeout
<1>13. CASE EatQuickly
  BY <1>13 DEF EatQuickly
<1>14. CASE EatLater
  BY <1>14 DEF EatLater, HandlerDone
<1>15. CASE Collect
  BY <1>15 DEF Collect, HandlerDone, Deliver
<1>16. ASSUME NEW t \in Threads, CancelRunnable(t) PROVE HandlerHasWork'
  BY <1>16 DEF CancelRunnable
<1>17. ASSUME NEW t \in Threads, Cancel(t) PROVE HandlerHasWork'
  BY <1>17 DEF Cancel, Return
<1>18. ASSUME NEW t \in Threads, NotifyJar(t) PROVE HandlerHasWork'
  BY <1>18 DEF NotifyJar
<1>19. ASSUME NEW t \in Threads, NotifyEaten(t) PROVE HandlerHasWork'
  BY <1>19 DEF NotifyEaten, Return
<1>20. ASSUME NEW t \in Threads, NotifyBlocks(t) PROVE HandlerHasWork'
  BY <1>20 DEF NotifyBlocks
<1>21. ASSUME NEW t \in Threads, NotifyWakesUp(t) PROVE HandlerHasWork'
  BY <1>21 DEF NotifyWakesUp
<1>22. ASSUME NEW t \in Threads, NotifyClient(t) PROVE HandlerHasWork'
  BY <1>22 DEF NotifyClient, Return
<1>23. ASSUME NEW t \in Threads, NEW q \in Queues, Purge(t, q) PROVE
     HandlerHasWork'
  BY <1>23 DEF Purge
<1>24. ASSUME NEW t \in Threads, NEW q \in Queues, Purged(t, q) PROVE
     HandlerHasWork'
  BY <1>24 DEF Purged
<1>25. ASSUME NEW q \in Queues, TakeWork(q) PROVE HandlerHasWork'
  BY <1>25 DEF TakeWork
<1>26. ASSUME NEW q \in Queues, SkipWork(q) PROVE HandlerHasWork'
  BY <1>26 DEF SkipWork, Advance
<1>27. ASSUME NEW q \in Queues, RunBegins(q) PROVE HandlerHasWork'
  BY <1>27 DEF RunBegins
<1>28. ASSUME NEW q \in Queues, NEW r \in Results, DoRun(q, r) PROVE
     HandlerHasWork'
  BY <1>28 DEF DoRun
<1>29. ASSUME NEW q \in Queues, RunEnds(q) PROVE HandlerHasWork'
  BY <1>29 DEF RunEnds
<1>30. ASSUME NEW q \in Queues, PopWork(q) PROVE HandlerHasWork'
  BY <1>30 DEF PopWork
<1>31. ASSUME NEW q \in Queues, WorkerStops(q) PROVE HandlerHasWork'
  BY <1>31 DEF WorkerStops
<1>32. CASE Quit
  BY <1>32 DEF Quit
<1>33. ASSUME NEW q \in Queues, Shutdown(q) PROVE HandlerHasWork'
  BY <1>33 DEF Shutdown
<1>34. CASE Join
  BY <1>34 DEF Join
<1>35. CASE UNCHANGED vars
  BY <1>35 DEF vars
<1>36. ASSUME NEW t \in Threads, Subroutine(t) PROVE HandlerHasWork'
  BY <1>16, <1>17, <1>18, <1>19, <1>20, <1>21, <1>22, <1>23, <1>24, <1>36 DEF
     Subroutine
<1>37. CASE Environment
  BY <1>1, <1>2, <1>3, <1>32, <1>37 DEF Environment
<1>38. CASE MainStep
  BY <1>4, <1>5, <1>6, <1>7, <1>8, <1>9, <1>10, <1>11, <1>12, <1>13, <1>14,
     <1>15, <1>33, <1>34, <1>36, <1>38 DEF MainStep
<1>39. ASSUME NEW q \in Queues, WorkerStep(q) PROVE HandlerHasWork'
  BY <1>25, <1>26, <1>27, <1>28, <1>29, <1>30, <1>31, <1>36, <1>39 DEF
     WorkerStep
<1> QED
  BY <1>35, <1>37, <1>38, <1>39 DEF Next

LEMMA TypeNext == TypeInv /\ [Next]_vars => TypeInv'
  BY TypeOKNext, HandlerNext DEF TypeInv

(* Every variable keeps its type, for all instances of the specification. *)
THEOREM TypeCorrect == Spec => []TypeOK
<1>1. Init => TypeInv
  BY TypeInit
<1>2. TypeInv /\ [Next]_vars => TypeInv'
  BY TypeNext
<1>3. TypeInv => TypeOK
  BY DEF TypeInv
<1> QED
  BY <1>1, <1>2, <1>3, PTL DEF Spec
-----------------------------------------------------------------------------
(* The cookie comes first. *)

LEMMA PathNext == CookieInv /\ TypeInv' /\ [Next]_vars => PathInv'
<1> SUFFICES ASSUME TypeOK, HandlerHasWork, PathInv, [Next]_vars PROVE PathInv'
  BY DEF CookieInv, TypeInv
<1> USE ConstantsAssumption, MainIsThread
    DEF TypeOK, ThreadTypes, WorkTypes, ClientTypes, HandlerHasWork, PathInv,
        Eating, Notifying, threadVars, workVars, clientVars
<1>1. ASSUME NEW w \in Works, Request(w) PROVE PathInv'
  BY <1>1 DEF Request
<1>2. ASSUME NEW w \in Works, Fetch(w) PROVE PathInv'
  BY <1>2 DEF Fetch
<1>3. ASSUME NEW w \in Works, Abort(w) PROVE PathInv'
  BY <1>3 DEF Abort
<1>4. CASE AddWork
  BY <1>4 DEF AddWork, Schedule, Enqueue, Accepted, SetScheduled,
     SetScheduledOk
<1>5. CASE AddWorkToFullQueue
  BY <1>5 DEF AddWorkToFullQueue, Schedule, Full, SetScheduled, SetScheduledOk
<1>6. CASE ReplaceWork
  BY <1>6 DEF ReplaceWork, Enqueue, Accepted
<1>7. CASE EatLookup
  BY <1>7 DEF EatLookup
<1>8. CASE EatUnknown
  BY <1>8 DEF EatUnknown, HandlerDone, Fetching
<1>9. CASE StartWaiting
  BY <1>9 DEF StartWaiting, SetWaiting
<1>10. CASE WaitEnds
  BY <1>10 DEF WaitEnds
<1>11. CASE EatResult
  BY <1>11 DEF EatResult, HandlerDone, Deliver, Fetching
<1>12. CASE LockAfterTimeout
  BY <1>12 DEF LockAfterTimeout
<1>13. CASE EatQuickly
  BY <1>13 DEF EatQuickly
<1>14. CASE EatLater
  BY <1>14 DEF EatLater, HandlerDone, SlowPathCookieSent,
     SlowPathCookieSentOk, TakeSlowPath, ReplyPaths
<1>15. CASE Collect
  BY <1>15 DEF Collect, HandlerDone, Deliver, Fetching
<1>16. ASSUME NEW t \in Threads, CancelRunnable(t) PROVE PathInv'
  BY <1>16 DEF CancelRunnable
<1>17. ASSUME NEW t \in Threads, Cancel(t) PROVE PathInv'
  BY <1>17 DEF Cancel, Return
<1>18. ASSUME NEW t \in Threads, NotifyJar(t) PROVE PathInv'
  BY <1>18 DEF NotifyJar
<1>19. ASSUME NEW t \in Threads, NotifyEaten(t) PROVE PathInv'
  BY <1>19 DEF NotifyEaten, Return
<1>20. ASSUME NEW t \in Threads, NotifyBlocks(t) PROVE PathInv'
  BY <1>20 DEF NotifyBlocks
<1>21. ASSUME NEW t \in Threads, NotifyWakesUp(t) PROVE PathInv'
  BY <1>21 DEF NotifyWakesUp
<1>22. ASSUME NEW t \in Threads, NotifyClient(t) PROVE PathInv'
  BY <1>22 DEF NotifyClient, Return, TakeFastPath, SlowPathReadyNotified,
     SlowPathReadyNotifiedOk, ReplyPaths
<1>23. ASSUME NEW t \in Threads, NEW q \in Queues, Purge(t, q) PROVE PathInv'
  BY <1>23 DEF Purge
<1>24. ASSUME NEW t \in Threads, NEW q \in Queues, Purged(t, q) PROVE PathInv'
  BY <1>24 DEF Purged
<1>25. ASSUME NEW q \in Queues, TakeWork(q) PROVE PathInv'
  BY <1>25 DEF TakeWork
<1>26. ASSUME NEW q \in Queues, SkipWork(q) PROVE PathInv'
  BY <1>26 DEF SkipWork, Advance
<1>27. ASSUME NEW q \in Queues, RunBegins(q) PROVE PathInv'
  BY <1>27 DEF RunBegins
<1>28. ASSUME NEW q \in Queues, NEW r \in Results, DoRun(q, r) PROVE PathInv'
  BY <1>28 DEF DoRun
<1>29. ASSUME NEW q \in Queues, RunEnds(q) PROVE PathInv'
  BY <1>29 DEF RunEnds
<1>30. ASSUME NEW q \in Queues, PopWork(q) PROVE PathInv'
  BY <1>30 DEF PopWork
<1>31. ASSUME NEW q \in Queues, WorkerStops(q) PROVE PathInv'
  BY <1>31 DEF WorkerStops
<1>32. CASE Quit
  BY <1>32 DEF Quit
<1>33. ASSUME NEW q \in Queues, Shutdown(q) PROVE PathInv'
  BY <1>33 DEF Shutdown
<1>34. CASE Join
  BY <1>34 DEF Join
<1>35. CASE UNCHANGED vars
  BY <1>35 DEF vars
<1>36. ASSUME NEW t \in Threads, Subroutine(t) PROVE PathInv'
  BY <1>16, <1>17, <1>18, <1>19, <1>20, <1>21, <1>22, <1>23, <1>24, <1>36 DEF
     Subroutine
<1>37. CASE Environment
  BY <1>1, <1>2, <1>3, <1>32, <1>37 DEF Environment
<1>38. CASE MainStep
  BY <1>4, <1>5, <1>6, <1>7, <1>8, <1>9, <1>10, <1>11, <1>12, <1>13, <1>14,
     <1>15, <1>33, <1>34, <1>36, <1>38 DEF MainStep
<1>39. ASSUME NEW q \in Queues, WorkerStep(q) PROVE PathInv'
  BY <1>25, <1>26, <1>27, <1>28, <1>29, <1>30, <1>31, <1>36, <1>39 DEF
     WorkerStep
<1> QED
  BY <1>35, <1>37, <1>38, <1>39 DEF Next

LEMMA CookieNext == CookieInv /\ [Next]_vars => CookieBeforeSignal'
<1> SUFFICES ASSUME TypeOK, PathInv, CookieBeforeSignal, [Next]_vars
             PROVE  CookieBeforeSignal'
  BY DEF CookieInv, TypeInv
<1> USE ConstantsAssumption, MainIsThread
    DEF TypeOK, ThreadTypes, WorkTypes, ClientTypes, CookieBeforeSignal, clientVars
<1>1. ASSUME NEW w \in Works, Request(w) PROVE CookieBeforeSignal'
  BY <1>1 DEF Request
<1>2. ASSUME NEW w \in Works, Fetch(w) PROVE CookieBeforeSignal'
  BY <1>2 DEF Fetch
<1>3. ASSUME NEW w \in Works, Abort(w) PROVE CookieBeforeSignal'
  BY <1>3 DEF Abort
<1>4. CASE AddWork
  BY <1>4 DEF AddWork, Schedule, Enqueue, Accepted
<1>5. CASE AddWorkToFullQueue
  BY <1>5 DEF AddWorkToFullQueue, Schedule, Full
<1>6. CASE ReplaceWork
  BY <1>6 DEF ReplaceWork, Enqueue, Accepted
<1>7. CASE EatLookup
  BY <1>7 DEF EatLookup
<1>8. CASE EatUnknown
  BY <1>8 DEF EatUnknown, HandlerDone, Fetching
<1>9. CASE StartWaiting
  BY <1>9 DEF StartWaiting
<1>10. CASE WaitEnds
  BY <1>10 DEF WaitEnds
<1>11. CASE EatResult
  BY <1>11 DEF EatResult, HandlerDone, Deliver, Fetching
<1>12. CASE LockAfterTimeout
  BY <1>12 DEF LockAfterTimeout
<1>13. CASE EatQuickly
  BY <1>13 DEF EatQuickly
<1>14. CASE EatLater
  BY <1>14 DEF EatLater, HandlerDone
<1>15. CASE Collect
  BY <1>15 DEF Collect, HandlerDone, Deliver, Fetching
<1>16. ASSUME NEW t \in Threads, CancelRunnable(t) PROVE CookieBeforeSignal'
  BY <1>16 DEF CancelRunnable
<1>17. ASSUME NEW t \in Threads, Cancel(t) PROVE CookieBeforeSignal'
  BY <1>17 DEF Cancel, Return
<1>18. ASSUME NEW t \in Threads, NotifyJar(t) PROVE CookieBeforeSignal'
  BY <1>18 DEF NotifyJar
<1>19. ASSUME NEW t \in Threads, NotifyEaten(t) PROVE CookieBeforeSignal'
  BY <1>19 DEF NotifyEaten, Return
<1>20. ASSUME NEW t \in Threads, NotifyBlocks(t) PROVE CookieBeforeSignal'
  BY <1>20 DEF NotifyBlocks
<1>21. ASSUME NEW t \in Threads, NotifyWakesUp(t) PROVE CookieBeforeSignal'
  BY <1>21 DEF NotifyWakesUp
<1>22. ASSUME NEW t \in Threads, NotifyClient(t) PROVE CookieBeforeSignal'
  BY SMTT(30), <1>22 DEF NotifyClient, Return, PathInv, FastPathResult, AlreadyTaken,
     FastPathMustWait, ReplyPaths
<1>23. ASSUME NEW t \in Threads, NEW q \in Queues, Purge(t, q) PROVE
     CookieBeforeSignal'
  BY <1>23 DEF Purge
<1>24. ASSUME NEW t \in Threads, NEW q \in Queues, Purged(t, q) PROVE
     CookieBeforeSignal'
  BY <1>24 DEF Purged
<1>25. ASSUME NEW q \in Queues, TakeWork(q) PROVE CookieBeforeSignal'
  BY <1>25 DEF TakeWork
<1>26. ASSUME NEW q \in Queues, SkipWork(q) PROVE CookieBeforeSignal'
  BY <1>26 DEF SkipWork, Advance
<1>27. ASSUME NEW q \in Queues, RunBegins(q) PROVE CookieBeforeSignal'
  BY <1>27 DEF RunBegins
<1>28. ASSUME NEW q \in Queues, NEW r \in Results, DoRun(q, r) PROVE
     CookieBeforeSignal'
  BY <1>28 DEF DoRun
<1>29. ASSUME NEW q \in Queues, RunEnds(q) PROVE CookieBeforeSignal'
  BY <1>29 DEF RunEnds
<1>30. ASSUME NEW q \in Queues, PopWork(q) PROVE CookieBeforeSignal'
  BY <1>30 DEF PopWork
<1>31. ASSUME NEW q \in Queues, WorkerStops(q) PROVE CookieBeforeSignal'
  BY <1>31 DEF WorkerStops
<1>32. CASE Quit
  BY <1>32 DEF Quit
<1>33. ASSUME NEW q \in Queues, Shutdown(q) PROVE CookieBeforeSignal'
  BY <1>33 DEF Shutdown
<1>34. CASE Join
  BY <1>34 DEF Join
<1>35. CASE UNCHANGED vars
  BY <1>35 DEF vars
<1>36. ASSUME NEW t \in Threads, Subroutine(t) PROVE CookieBeforeSignal'
  BY <1>16, <1>17, <1>18, <1>19, <1>20, <1>21, <1>22, <1>23, <1>24, <1>36 DEF
     Subroutine
<1>37. CASE Environment
  BY <1>1, <1>2, <1>3, <1>32, <1>37 DEF Environment
<1>38. CASE MainStep
  BY <1>4, <1>5, <1>6, <1>7, <1>8, <1>9, <1>10, <1>11, <1>12, <1>13, <1>14,
     <1>15, <1>33, <1>34, <1>36, <1>38 DEF MainStep
<1>39. ASSUME NEW q \in Queues, WorkerStep(q) PROVE CookieBeforeSignal'
  BY <1>25, <1>26, <1>27, <1>28, <1>29, <1>30, <1>31, <1>36, <1>39 DEF
     WorkerStep
<1> QED
  BY <1>35, <1>37, <1>38, <1>39 DEF Next

LEMMA CookieInvInit == Init => CookieInv
  BY TypeInit, MainIsThread
  DEF Init, CookieInv, PathInv, CookieBeforeSignal, Eating

LEMMA CookieInvNext == CookieInv /\ [Next]_vars => CookieInv'
<1>1. CookieInv /\ [Next]_vars => TypeInv'
  BY TypeNext DEF CookieInv
<1> QED
  BY <1>1, PathNext, CookieNext DEF CookieInv

(* No client ever gets a signal for a cookie it has not been told. *)
THEOREM CookieFirst == Spec => []CookieBeforeSignal
<1>1. CookieInv => CookieBeforeSignal
  BY DEF CookieInv
<1> QED
  BY <1>1, CookieInvInit, CookieInvNext, PTL DEF Spec
-----------------------------------------------------------------------------
(* One signal at most. *)

LEMMA ThreadHasWorkNext == SignalInv /\ [Next]_vars => ThreadHasWork'
<1> SUFFICES ASSUME TypeOK, HandlerHasWork, ThreadHasWork, [Next]_vars
             PROVE  ThreadHasWork'
  BY DEF SignalInv, TypeInv
<1> USE ConstantsAssumption, MainIsThread
    DEF TypeOK, ThreadTypes, QueueTypes, ThreadHasWork, Notifying, Running,
        threadVars
<1>1. ASSUME NEW w \in Works, Request(w) PROVE ThreadHasWork'
  BY <1>1 DEF Request
<1>2. ASSUME NEW w \in Works, Fetch(w) PROVE ThreadHasWork'
  BY <1>2 DEF Fetch
<1>3. ASSUME NEW w \in Works, Abort(w) PROVE ThreadHasWork'
  BY <1>3 DEF Abort
<1>4. CASE AddWork
  BY <1>4 DEF AddWork, Schedule, Enqueue, Accepted, HandlerHasWork, Eating
<1>5. CASE AddWorkToFullQueue
  BY <1>5 DEF AddWorkToFullQueue, Schedule, Full, HandlerHasWork, Eating
<1>6. CASE ReplaceWork
  BY <1>6 DEF ReplaceWork, Enqueue, Accepted
<1>7. CASE EatLookup
  BY <1>7 DEF EatLookup
<1>8. CASE EatUnknown
  BY <1>8 DEF EatUnknown, HandlerDone
<1>9. CASE StartWaiting
  BY <1>9 DEF StartWaiting
<1>10. CASE WaitEnds
  BY <1>10 DEF WaitEnds
<1>11. CASE EatResult
  BY <1>11 DEF EatResult, HandlerDone, Deliver
<1>12. CASE LockAfterTimeout
  BY <1>12 DEF LockAfterTimeout
<1>13. CASE EatQuickly
  BY <1>13 DEF EatQuickly
<1>14. CASE EatLater
  BY <1>14 DEF EatLater, HandlerDone
<1>15. CASE Collect
  BY <1>15 DEF Collect, HandlerDone, Deliver
<1>16. ASSUME NEW t \in Threads, CancelRunnable(t) PROVE ThreadHasWork'
  BY <1>16 DEF CancelRunnable
<1>17. ASSUME NEW t \in Threads, Cancel(t) PROVE ThreadHasWork'
  BY <1>17 DEF Cancel, Return
<1>18. ASSUME NEW t \in Threads, NotifyJar(t) PROVE ThreadHasWork'
  BY <1>18 DEF NotifyJar
<1>19. ASSUME NEW t \in Threads, NotifyEaten(t) PROVE ThreadHasWork'
  BY <1>19 DEF NotifyEaten, Return
<1>20. ASSUME NEW t \in Threads, NotifyBlocks(t) PROVE ThreadHasWork'
  BY <1>20 DEF NotifyBlocks
<1>21. ASSUME NEW t \in Threads, NotifyWakesUp(t) PROVE ThreadHasWork'
  BY <1>21 DEF NotifyWakesUp
<1>22. ASSUME NEW t \in Threads, NotifyClient(t) PROVE ThreadHasWork'
  BY <1>22 DEF NotifyClient, Return
<1>23. ASSUME NEW t \in Threads, NEW q \in Queues, Purge(t, q) PROVE
     ThreadHasWork'
  BY <1>23 DEF Purge
<1>24. ASSUME NEW t \in Threads, NEW q \in Queues, Purged(t, q) PROVE
     ThreadHasWork'
  BY <1>24 DEF Purged
<1>25. ASSUME NEW q \in Queues, TakeWork(q) PROVE ThreadHasWork'
  BY <1>25 DEF TakeWork
<1>26. ASSUME NEW q \in Queues, SkipWork(q) PROVE ThreadHasWork'
  BY <1>26 DEF SkipWork, Advance
<1>27. ASSUME NEW q \in Queues, RunBegins(q) PROVE ThreadHasWork'
  BY <1>27 DEF RunBegins
<1>28. ASSUME NEW q \in Queues, NEW r \in Results, DoRun(q, r) PROVE
     ThreadHasWork'
  BY <1>28 DEF DoRun
<1>29. ASSUME NEW q \in Queues, RunEnds(q) PROVE ThreadHasWork'
  BY <1>29 DEF RunEnds
<1>30. ASSUME NEW q \in Queues, PopWork(q) PROVE ThreadHasWork'
  BY <1>30 DEF PopWork
<1>31. ASSUME NEW q \in Queues, WorkerStops(q) PROVE ThreadHasWork'
  BY <1>31 DEF WorkerStops
<1>32. CASE Quit
  BY <1>32 DEF Quit
<1>33. ASSUME NEW q \in Queues, Shutdown(q) PROVE ThreadHasWork'
  BY <1>33 DEF Shutdown
<1>34. CASE Join
  BY <1>34 DEF Join
<1>35. CASE UNCHANGED vars
  BY <1>35 DEF vars
<1>36. ASSUME NEW t \in Threads, Subroutine(t) PROVE ThreadHasWork'
  BY <1>16, <1>17, <1>18, <1>19, <1>20, <1>21, <1>22, <1>23, <1>24, <1>36 DEF
     Subroutine
<1>37. CASE Environment
  BY <1>1, <1>2, <1>3, <1>32, <1>37 DEF Environment
<1>38. CASE MainStep
  BY <1>4, <1>5, <1>6, <1>7, <1>8, <1>9, <1>10, <1>11, <1>12, <1>13, <1>14,
     <1>15, <1>33, <1>34, <1>36, <1>38 DEF MainStep
<1>39. ASSUME NEW q \in Queues, WorkerStep(q) PROVE ThreadHasWork'
  BY <1>25, <1>26, <1>27, <1>28, <1>29, <1>30, <1>31, <1>36, <1>39 DEF
     WorkerStep
<1> QED
  BY <1>35, <1>37, <1>38, <1>39 DEF Next

LEMMA OneNotifierNext == SignalInv /\ [Next]_vars => OneNotifier'
<1> SUFFICES ASSUME TypeOK, ThreadHasWork, OneNotifier, [Next]_vars
             PROVE  OneNotifier'
  BY DEF SignalInv, TypeInv
<1> USE ConstantsAssumption, MainIsThread
    DEF TypeOK, ThreadTypes, WorkTypes, OneNotifier, ThreadHasWork, Notifying,
        Running, Final, threadVars, workVars
<1>1. ASSUME NEW w \in Works, Request(w) PROVE OneNotifier'
  BY <1>1 DEF Request
<1>2. ASSUME NEW w \in Works, Fetch(w) PROVE OneNotifier'
  BY <1>2 DEF Fetch
<1>3. ASSUME NEW w \in Works, Abort(w) PROVE OneNotifier'
  BY <1>3 DEF Abort
<1>4. CASE AddWork
  BY <1>4 DEF AddWork, Schedule, Enqueue, Accepted
<1>5. CASE AddWorkToFullQueue
  BY <1>5 DEF AddWorkToFullQueue, Schedule, Full
<1>6. CASE ReplaceWork
  BY <1>6 DEF ReplaceWork, Enqueue, Accepted
<1>7. CASE EatLookup
  BY <1>7 DEF EatLookup
<1>8. CASE EatUnknown
  BY <1>8 DEF EatUnknown, HandlerDone
<1>9. CASE StartWaiting
  BY <1>9 DEF StartWaiting
<1>10. CASE WaitEnds
  BY <1>10 DEF WaitEnds
<1>11. CASE EatResult
  BY <1>11 DEF EatResult, HandlerDone, Deliver
<1>12. CASE LockAfterTimeout
  BY <1>12 DEF LockAfterTimeout
<1>13. CASE EatQuickly
  BY <1>13 DEF EatQuickly
<1>14. CASE EatLater
  BY <1>14 DEF EatLater, HandlerDone
<1>15. CASE Collect
  BY <1>15 DEF Collect, HandlerDone, Deliver
<1>16. ASSUME NEW t \in Threads, CancelRunnable(t) PROVE OneNotifier'
  BY <1>16 DEF CancelRunnable, CancelAtOnce
<1>17. ASSUME NEW t \in Threads, Cancel(t) PROVE OneNotifier'
  BY <1>17 DEF Cancel, Return
<1>18. ASSUME NEW t \in Threads, NotifyJar(t) PROVE OneNotifier'
  BY <1>18 DEF NotifyJar
<1>19. ASSUME NEW t \in Threads, NotifyEaten(t) PROVE OneNotifier'
  BY <1>19 DEF NotifyEaten, Return
<1>20. ASSUME NEW t \in Threads, NotifyBlocks(t) PROVE OneNotifier'
  BY <1>20 DEF NotifyBlocks
<1>21. ASSUME NEW t \in Threads, NotifyWakesUp(t) PROVE OneNotifier'
  BY <1>21 DEF NotifyWakesUp
<1>22. ASSUME NEW t \in Threads, NotifyClient(t) PROVE OneNotifier'
  BY <1>22 DEF NotifyClient, Return
<1>23. ASSUME NEW t \in Threads, NEW q \in Queues, Purge(t, q) PROVE
     OneNotifier'
  BY <1>23 DEF Purge
<1>24. ASSUME NEW t \in Threads, NEW q \in Queues, Purged(t, q) PROVE
     OneNotifier'
  BY <1>24 DEF Purged
<1>25. ASSUME NEW q \in Queues, TakeWork(q) PROVE OneNotifier'
  BY <1>25 DEF TakeWork
<1>26. ASSUME NEW q \in Queues, SkipWork(q) PROVE OneNotifier'
  BY <1>26 DEF SkipWork, Advance
<1>27. ASSUME NEW q \in Queues, RunBegins(q) PROVE OneNotifier'
  BY <1>27 DEF RunBegins
<1>28. ASSUME NEW q \in Queues, NEW r \in Results, DoRun(q, r) PROVE
     OneNotifier'
  BY <1>28 DEF DoRun
<1>29. ASSUME NEW q \in Queues, RunEnds(q) PROVE OneNotifier'
  BY <1>29 DEF RunEnds
<1>30. ASSUME NEW q \in Queues, PopWork(q) PROVE OneNotifier'
  BY <1>30 DEF PopWork
<1>31. ASSUME NEW q \in Queues, WorkerStops(q) PROVE OneNotifier'
  BY <1>31 DEF WorkerStops
<1>32. CASE Quit
  BY <1>32 DEF Quit
<1>33. ASSUME NEW q \in Queues, Shutdown(q) PROVE OneNotifier'
  BY <1>33 DEF Shutdown
<1>34. CASE Join
  BY <1>34 DEF Join
<1>35. CASE UNCHANGED vars
  BY <1>35 DEF vars
<1>36. ASSUME NEW t \in Threads, Subroutine(t) PROVE OneNotifier'
  BY <1>16, <1>17, <1>18, <1>19, <1>20, <1>21, <1>22, <1>23, <1>24, <1>36 DEF
     Subroutine
<1>37. CASE Environment
  BY <1>1, <1>2, <1>3, <1>32, <1>37 DEF Environment
<1>38. CASE MainStep
  BY <1>4, <1>5, <1>6, <1>7, <1>8, <1>9, <1>10, <1>11, <1>12, <1>13, <1>14,
     <1>15, <1>33, <1>34, <1>36, <1>38 DEF MainStep
<1>39. ASSUME NEW q \in Queues, WorkerStep(q) PROVE OneNotifier'
  BY <1>25, <1>26, <1>27, <1>28, <1>29, <1>30, <1>31, <1>36, <1>39 DEF
     WorkerStep
<1> QED
  BY <1>35, <1>37, <1>38, <1>39 DEF Next

LEMMA SignalIsLastNext == SignalInv /\ [Next]_vars => SignalIsLast' /\ SignalOnce'
<1> SUFFICES ASSUME TypeOK, ThreadHasWork, OneNotifier, SignalIsLast, SignalOnce,
                    [Next]_vars
             PROVE  SignalIsLast' /\ SignalOnce'
  BY DEF SignalInv, TypeInv
<1> USE ConstantsAssumption, MainIsThread
    DEF TypeOK, ThreadTypes, WorkTypes, ClientTypes, ThreadHasWork, OneNotifier,
        SignalIsLast, SignalOnce, Notifying, Running, Final, threadVars,
        workVars, clientVars
<1>1. ASSUME NEW w \in Works, Request(w) PROVE SignalIsLast' /\ SignalOnce'
  BY <1>1 DEF Request
<1>2. ASSUME NEW w \in Works, Fetch(w) PROVE SignalIsLast' /\ SignalOnce'
  BY <1>2 DEF Fetch
<1>3. ASSUME NEW w \in Works, Abort(w) PROVE SignalIsLast' /\ SignalOnce'
  BY <1>3 DEF Abort
<1>4. CASE AddWork
  BY <1>4 DEF AddWork, Schedule, Enqueue, Accepted
<1>5. CASE AddWorkToFullQueue
  BY <1>5 DEF AddWorkToFullQueue, Schedule, Full
<1>6. CASE ReplaceWork
  BY <1>6 DEF ReplaceWork, Enqueue, Accepted
<1>7. CASE EatLookup
  BY <1>7 DEF EatLookup
<1>8. CASE EatUnknown
  BY <1>8 DEF EatUnknown, HandlerDone
<1>9. CASE StartWaiting
  BY <1>9 DEF StartWaiting
<1>10. CASE WaitEnds
  BY <1>10 DEF WaitEnds
<1>11. CASE EatResult
  BY <1>11 DEF EatResult, HandlerDone, Deliver
<1>12. CASE LockAfterTimeout
  BY <1>12 DEF LockAfterTimeout
<1>13. CASE EatQuickly
  BY <1>13 DEF EatQuickly
<1>14. CASE EatLater
  BY <1>14 DEF EatLater, HandlerDone
<1>15. CASE Collect
  BY <1>15 DEF Collect, HandlerDone, Deliver
<1>16. ASSUME NEW t \in Threads, CancelRunnable(t) PROVE SignalIsLast' /\
     SignalOnce'
  BY <1>16 DEF CancelRunnable, CancelAtOnce
<1>17. ASSUME NEW t \in Threads, Cancel(t) PROVE SignalIsLast' /\ SignalOnce'
  BY <1>17 DEF Cancel, Return
<1>18. ASSUME NEW t \in Threads, NotifyJar(t) PROVE SignalIsLast' /\
     SignalOnce'
  BY <1>18 DEF NotifyJar
<1>19. ASSUME NEW t \in Threads, NotifyEaten(t) PROVE SignalIsLast' /\
     SignalOnce'
  BY <1>19 DEF NotifyEaten, Return
<1>20. ASSUME NEW t \in Threads, NotifyBlocks(t) PROVE SignalIsLast' /\
     SignalOnce'
  BY <1>20 DEF NotifyBlocks
<1>21. ASSUME NEW t \in Threads, NotifyWakesUp(t) PROVE SignalIsLast' /\
     SignalOnce'
  BY <1>21 DEF NotifyWakesUp
<1>22. ASSUME NEW t \in Threads, NotifyClient(t) PROVE SignalIsLast' /\
     SignalOnce'
  BY <1>22 DEF NotifyClient, Return
<1>23. ASSUME NEW t \in Threads, NEW q \in Queues, Purge(t, q) PROVE
     SignalIsLast' /\ SignalOnce'
  BY <1>23 DEF Purge
<1>24. ASSUME NEW t \in Threads, NEW q \in Queues, Purged(t, q) PROVE
     SignalIsLast' /\ SignalOnce'
  BY <1>24 DEF Purged
<1>25. ASSUME NEW q \in Queues, TakeWork(q) PROVE SignalIsLast' /\ SignalOnce'
  BY <1>25 DEF TakeWork
<1>26. ASSUME NEW q \in Queues, SkipWork(q) PROVE SignalIsLast' /\ SignalOnce'
  BY <1>26 DEF SkipWork, Advance
<1>27. ASSUME NEW q \in Queues, RunBegins(q) PROVE SignalIsLast' /\
     SignalOnce'
  BY <1>27 DEF RunBegins
<1>28. ASSUME NEW q \in Queues, NEW r \in Results, DoRun(q, r) PROVE
     SignalIsLast' /\ SignalOnce'
  BY <1>28 DEF DoRun
<1>29. ASSUME NEW q \in Queues, RunEnds(q) PROVE SignalIsLast' /\ SignalOnce'
  BY <1>29 DEF RunEnds
<1>30. ASSUME NEW q \in Queues, PopWork(q) PROVE SignalIsLast' /\ SignalOnce'
  BY <1>30 DEF PopWork
<1>31. ASSUME NEW q \in Queues, WorkerStops(q) PROVE SignalIsLast' /\
     SignalOnce'
  BY <1>31 DEF WorkerStops
<1>32. CASE Quit
  BY <1>32 DEF Quit
<1>33. ASSUME NEW q \in Queues, Shutdown(q) PROVE SignalIsLast' /\ SignalOnce'
  BY <1>33 DEF Shutdown
<1>34. CASE Join
  BY <1>34 DEF Join
<1>35. CASE UNCHANGED vars
  BY <1>35 DEF vars
<1>36. ASSUME NEW t \in Threads, Subroutine(t) PROVE SignalIsLast' /\ SignalOnce'
  BY <1>16, <1>17, <1>18, <1>19, <1>20, <1>21, <1>22, <1>23, <1>24, <1>36 DEF
     Subroutine
<1>37. CASE Environment
  BY <1>1, <1>2, <1>3, <1>32, <1>37 DEF Environment
<1>38. CASE MainStep
  BY <1>4, <1>5, <1>6, <1>7, <1>8, <1>9, <1>10, <1>11, <1>12, <1>13, <1>14,
     <1>15, <1>33, <1>34, <1>36, <1>38 DEF MainStep
<1>39. ASSUME NEW q \in Queues, WorkerStep(q) PROVE SignalIsLast' /\ SignalOnce'
  BY <1>25, <1>26, <1>27, <1>28, <1>29, <1>30, <1>31, <1>36, <1>39 DEF
     WorkerStep
<1> QED
  BY <1>35, <1>37, <1>38, <1>39 DEF Next

LEMMA SignalInit == Init => SignalInv
  BY TypeInit, MainIsThread, ConstantsAssumption
  DEF Init, SignalInv, ThreadHasWork, OneNotifier, SignalIsLast, SignalOnce,
      Notifying, Running

LEMMA SignalNext == SignalInv /\ [Next]_vars => SignalInv'
<1>1. SignalInv /\ [Next]_vars => TypeInv'
  BY TypeNext DEF SignalInv
<1> QED
  BY <1>1, ThreadHasWorkNext, OneNotifierNext, SignalIsLastNext DEF SignalInv

(* Completion and the cancelations by DataAbort, by a later request and by *)
(* shutdown lead to one DataAvailable or DataError signal at most.         *)
THEOREM SignalAtMostOnce == Spec => []SignalOnce
<1>1. SignalInv => SignalOnce
  BY DEF SignalInv
<1> QED
  BY <1>1, SignalInit, SignalNext, PTL DEF Spec
-----------------------------------------------------------------------------
(* The reply path is chosen once. *)

(* No operation of the tracker goes back. *)
LEMMA TrackerForward ==
    ASSUME NEW s \in ReplyPaths
    PROVE  /\ Forward(s, s)
           /\ Forward(s, SetScheduled(s))
           /\ Forward(s, SetWaiting(s))
           /\ Forward(s, TakeFastPath(s))
           /\ Forward(s, SlowPathReadyNotified(TakeFastPath(s)))
           /\ Forward(s, SlowPathCookieSent(TakeSlowPath(s)))
  BY DEF ReplyPaths, Forward, PathRank, SetScheduled, SetScheduledOk, SetWaiting,
         TakeFastPath, SlowPathReadyNotified, SlowPathReadyNotifiedOk,
         SlowPathCookieSent, SlowPathCookieSentOk, TakeSlowPath

LEMMA ForwardNext ==
    TypeInv /\ [Next]_vars => \A w \in Works : Forward(rp[w], rp'[w])
<1> SUFFICES ASSUME TypeOK, [Next]_vars, NEW v \in Works
             PROVE  Forward(rp[v], rp'[v])
  BY DEF TypeInv
<1> USE TrackerForward, MainIsThread DEF TypeOK, WorkTypes, workVars
<1>1. ASSUME NEW w \in Works, Request(w) PROVE Forward(rp[v], rp'[v])
  BY <1>1 DEF Request
<1>2. ASSUME NEW w \in Works, Fetch(w) PROVE Forward(rp[v], rp'[v])
  BY <1>2 DEF Fetch
<1>3. ASSUME NEW w \in Works, Abort(w) PROVE Forward(rp[v], rp'[v])
  BY <1>3 DEF Abort
<1>4. CASE AddWork
  BY <1>4 DEF AddWork, Schedule, Enqueue, Accepted
<1>5. CASE AddWorkToFullQueue
  BY <1>5 DEF AddWorkToFullQueue, Schedule, Full
<1>6. CASE ReplaceWork
  BY <1>6 DEF ReplaceWork, Enqueue, Accepted
<1>7. CASE EatLookup
  BY <1>7 DEF EatLookup
<1>8. CASE EatUnknown
  BY <1>8 DEF EatUnknown, HandlerDone
<1>9. CASE StartWaiting
  BY <1>9 DEF StartWaiting
<1>10. CASE WaitEnds
  BY <1>10 DEF WaitEnds
<1>11. CASE EatResult
  BY <1>11 DEF EatResult, HandlerDone, Deliver
<1>12. CASE LockAfterTimeout
  BY <1>12 DEF LockAfterTimeout
<1>13. CASE EatQuickly
  BY <1>13 DEF EatQuickly
<1>14. CASE EatLater
  BY <1>14 DEF EatLater, HandlerDone
<1>15. CASE Collect
  BY <1>15 DEF Collect, HandlerDone, Deliver
<1>16. ASSUME NEW t \in Threads, CancelRunnable(t) PROVE Forward(rp[v],
     rp'[v])
  BY <1>16 DEF CancelRunnable
<1>17. ASSUME NEW t \in Threads, Cancel(t) PROVE Forward(rp[v], rp'[v])
  BY <1>17 DEF Cancel, Return
<1>18. ASSUME NEW t \in Threads, NotifyJar(t) PROVE Forward(rp[v], rp'[v])
  BY <1>18 DEF NotifyJar
<1>19. ASSUME NEW t \in Threads, NotifyEaten(t) PROVE Forward(rp[v], rp'[v])
  BY <1>19 DEF NotifyEaten, Return
<1>20. ASSUME NEW t \in Threads, NotifyBlocks(t) PROVE Forward(rp[v], rp'[v])
  BY <1>20 DEF NotifyBlocks
<1>21. ASSUME NEW t \in Threads, NotifyWakesUp(t) PROVE Forward(rp[v], rp'[v])
  BY <1>21 DEF NotifyWakesUp
<1>22. ASSUME NEW t \in Threads, NotifyClient(t) PROVE Forward(rp[v], rp'[v])
  BY <1>22 DEF NotifyClient, Return
<1>23. ASSUME NEW t \in Threads, NEW q \in Queues, Purge(t, q) PROVE
     Forward(rp[v], rp'[v])
  BY <1>23 DEF Purge
<1>24. ASSUME NEW t \in Threads, NEW q \in Queues, Purged(t, q) PROVE
     Forward(rp[v], rp'[v])
  BY <1>24 DEF Purged
<1>25. ASSUME NEW q \in Queues, TakeWork(q) PROVE Forward(rp[v], rp'[v])
  BY <1>25 DEF TakeWork
<1>26. ASSUME NEW q \in Queues, SkipWork(q) PROVE Forward(rp[v], rp'[v])
  BY <1>26 DEF SkipWork, Advance
<1>27. ASSUME NEW q \in Queues, RunBegins(q) PROVE Forward(rp[v], rp'[v])
  BY <1>27 DEF RunBegins
<1>28. ASSUME NEW q \in Queues, NEW r \in Results, DoRun(q, r) PROVE
     Forward(rp[v], rp'[v])
  BY <1>28 DEF DoRun
<1>29. ASSUME NEW q \in Queues, RunEnds(q) PROVE Forward(rp[v], rp'[v])
  BY <1>29 DEF RunEnds
<1>30. ASSUME NEW q \in Queues, PopWork(q) PROVE Forward(rp[v], rp'[v])
  BY <1>30 DEF PopWork
<1>31. ASSUME NEW q \in Queues, WorkerStops(q) PROVE Forward(rp[v], rp'[v])
  BY <1>31 DEF WorkerStops
<1>32. CASE Quit
  BY <1>32 DEF Quit
<1>33. ASSUME NEW q \in Queues, Shutdown(q) PROVE Forward(rp[v], rp'[v])
  BY <1>33 DEF Shutdown
<1>34. CASE Join
  BY <1>34 DEF Join
<1>35. CASE UNCHANGED vars
  BY <1>35 DEF vars
<1>36. ASSUME NEW t \in Threads, Subroutine(t) PROVE Forward(rp[v], rp'[v])
  BY <1>16, <1>17, <1>18, <1>19, <1>20, <1>21, <1>22, <1>23, <1>24, <1>36 DEF
     Subroutine
<1>37. CASE Environment
  BY <1>1, <1>2, <1>3, <1>32, <1>37 DEF Environment
<1>38. CASE MainStep
  BY <1>4, <1>5, <1>6, <1>7, <1>8, <1>9, <1>10, <1>11, <1>12, <1>13, <1>14,
     <1>15, <1>33, <1>34, <1>36, <1>38 DEF MainStep
<1>39. ASSUME NEW q \in Queues, WorkerStep(q) PROVE Forward(rp[v], rp'[v])
  BY <1>25, <1>26, <1>27, <1>28, <1>29, <1>30, <1>31, <1>36, <1>39 DEF
     WorkerStep
<1> QED
  BY <1>35, <1>37, <1>38, <1>39 DEF Next

(* The path of a call is chosen once and for all. *)
THEOREM PathIsFinal == Spec => ReplyPathForward
<1>1. Init => TypeInv
  BY TypeInit
<1>2. TypeInv /\ [Next]_vars => TypeInv'
  BY TypeNext
<1>3. TypeInv /\ [Next]_vars => [\A w \in Works : Forward(rp[w], rp'[w])]_vars
  BY ForwardNext
<1> QED
  BY <1>1, <1>2, <1>3, PTL DEF Spec, ReplyPathForward
=============================================================================
